-------------------------- MODULE Scheduler_proofs --------------------------
(***************************************************************************)
(* Theorems about the run engine (FlowRun), for every graph, every number  *)
(* of runs, workers and callers, and every budget of faults, and about the *)
(* graph functions and the walk it drives (GraphWalk), for every graph.    *)
(***************************************************************************)
EXTENDS FlowRun, GraphWalk, FiniteSetTheorems, WellFoundedInduction, TLAPS


USE DEF durable, pool, walkVars, sweeps, ctxs, system, vars, Goto

-----------------------------------------------------------------------------
(***************************************************************************)
(* The operators of Walk stay within the types of the rows and keys.       *)
(***************************************************************************)
LEMMA RowTypes ==
    /\ NoRow \in Rows(G)
    /\ Row("completed", NoPort) \in Rows(G)
    /\ Row("failed", NoPort) \in Rows(G)
    /\ \A d \in Approvals : Row("completed", d) \in Rows(G)
BY DEF NoRow, Row, Rows, Ports

\* A dispatched node records a row of the table's type.
LEMMA DispatchRowsTypes ==
    ASSUME NEW h, NEW n
    PROVE  DispatchRows(h, n) \subseteq Rows(h)
<1>1. \A x \in Ports(h) : Row("completed", x) \in Rows(h) /\ Row("parked", NoPort) \in Rows(h)
      BY DEF Row, Rows, Ports
<1>2. {Unwired, NoPort} \subseteq Ports(h)
      BY DEF Ports
<1>3. \A e \in EdgeIds(h) : h.edges[e].port \in Ports(h)
      BY DEF Ports
<1> QED
  BY <1>1, <1>2, <1>3 DEF DispatchRows

LEMMA ReadyTypes ==
    ASSUME NEW m
    PROVE  Ready(G, Back, m) \subseteq Keys(G)
BY DEF Ready

-----------------------------------------------------------------------------
(***************************************************************************)
(* Type correctness needs one strengthening: a goroutine between two steps *)
(* of its work on a run has that run in hand.                              *)
(***************************************************************************)
HasRunInHand == \A p \in Procs : pc[p] \notin {"idle", "feed", "kill"} => at[p] \in Runs

TypeInv == TypeOK /\ HasRunInHand

LEMMA TypeInit == Init => TypeInv
<1> SUFFICES ASSUME Init PROVE TypeInv
  OBVIOUS
<1>1. NoRows \in [Keys(G) -> Rows(G)]
  BY RowTypes DEF NoRows
<1>2. TypeOK
  BY <1>1 DEF Init, TypeOK, PCs, Procs
<1>3. HasRunInHand
  BY DEF Init, HasRunInHand
<1> QED
  BY <1>2, <1>3 DEF TypeInv

LEMMA PCTypes ==
    {"idle", "feed", "drive", "enqueue", "send", "tfail", "getrun", "load", "walk", "node",
     "exec", "batch", "final", "complete", "fail", "end", "kill", "killpark", "killcancel",
     "replayclear", "replayread", "replaymark"} \subseteq PCs
BY DEF PCs, DrivePCs, KillPCs, ReplayPCs

LEMMA HomeTypes == \A p \in Procs : Home(p) \in {"idle", "feed"} /\ Home(p) \in PCs
BY PCTypes DEF Home

LEMMA SpendTypes ==
    ASSUME TypeOK, NEW f \in Faults, Spend(f) PROVE used' \in [Faults -> Nat]
BY DEF TypeOK, Spend

LEMMA FaultsTypes == {"crash", "stop", "kill", "replay", "disconnect"} \subseteq Faults
BY DEF Faults

LEMMA UpdateRowsTypes ==
    ASSUME TypeOK, NEW r, NEW S, NEW row \in Rows(G), UpdateRows(r, S, row)
    PROVE  frn' \in [Runs -> [Keys(G) -> Rows(G)]]
<1>1. CASE r \in Runs
  <2>1. [k \in Keys(G) |-> IF k \in S THEN row ELSE frn[r][k]] \in [Keys(G) -> Rows(G)]
    BY <1>1 DEF TypeOK
  <2> QED
    BY <2>1 DEF TypeOK, UpdateRows
<1>2. CASE r \notin Runs
  BY <1>2 DEF TypeOK, UpdateRows
<1> QED
  BY <1>1, <1>2

LEMMA TypeDrive ==
    ASSUME TypeInv, NEW p \in Procs, Drive(p) PROVE TypeInv'
<1> USE PCTypes DEF TypeInv, TypeOK, HasRunInHand
<1>1. at[p] \in Runs
  BY DEF Drive
<1>2. inProgress' \in SUBSET Runs /\ pending' \in SUBSET Runs /\ queued' \in SUBSET Runs
  BY <1>1 DEF Drive
<1>3. pc' \in [Procs -> PCs] /\ at' \in [Procs -> Runs \cup {NoRun}]
  BY <1>1, HomeTypes DEF Drive
<1>4. HasRunInHand'
  BY <1>1, <1>3, HomeTypes DEF Drive
<1>5. TypeOK'
  BY <1>2, <1>3 DEF Drive
<1> QED
  BY <1>4, <1>5

LEMMA TypeAdvance ==
    ASSUME TypeInv, NEW p \in Procs, Advance(p) PROVE TypeInv'
<1> USE PCTypes DEF TypeInv, TypeOK, HasRunInHand
<1>1. CASE GetRun(p)
  BY <1>1 DEF GetRun
<1>2. CASE Load(p)
  <2>1. at[p] \in Runs
    BY <1>2 DEF Load
  <2>2. inflight' \in [Runs -> Procs \cup {NoProc}] /\ childDead' \in SUBSET Procs
    BY <1>2, <2>1 DEF Load
  <2>3. \E l \in {"end", "walk"} : pc' = [pc EXCEPT ![p] = l]
    BY <1>2 DEF Load
  <2>4. mem' = mem \/ mem' = [mem EXCEPT ![p] = frn[at[p]]]
    BY <1>2 DEF Load
  <2>5. mem' \in [Procs -> [Keys(G) -> Rows(G)]]
    BY <2>1, <2>4
  <2>6. pc' \in [Procs -> PCs]
    BY <2>3
  <2>7. HasRunInHand'
    <3>1. at' = at
      BY <1>2 DEF Load
    <3> QED
      BY <2>1, <2>3, <3>1
  <2>8. UNCHANGED <<durable, pool, todo, advanced, staleRows, sweeps, baseDead, system, at>>
    BY <1>2 DEF Load
  <2> QED
    BY <2>2, <2>5, <2>6, <2>7, <2>8
<1>3. CASE WalkTurn(p)
  <2>1. /\ todo' = [todo EXCEPT ![p] = todo'[p]]
        /\ todo'[p] \in SUBSET Keys(G)
    BY <1>3, ReadyTypes DEF WalkTurn
  <2>2. \E l \in {"end", "fail", "final", "node"} : pc' = [pc EXCEPT ![p] = l]
    BY <1>3 DEF WalkTurn
  <2> QED
    BY <1>3, <2>1, <2>2, SMTT(30) DEF WalkTurn
<1>4. CASE BeginNode(p)
  BY <1>4 DEF BeginNode
<1>5. CASE FinishNode(p)
  <2> DEFINE k == First(G, todo[p])
  <2>1. PICK row \in Rows(G) :
          /\ \/ UNCHANGED <<frn, mem>> /\ staleRows' = staleRows \cup {p}
             \/ /\ frn' = [frn EXCEPT ![at[p]][k] = row]
                /\ mem' = [mem EXCEPT ![p][k] = row]
                /\ UNCHANGED staleRows
          /\ advanced' = IF row.status = "completed" THEN advanced \cup {p} ELSE advanced
    BY <1>5, DispatchRowsTypes DEF FinishNode
  <2>2. /\ todo' = [todo EXCEPT ![p] = @ \ {k}]
        /\ pc' = [pc EXCEPT ![p] = IF todo[p] = {k} THEN "batch" ELSE "node"]
        /\ UNCHANGED <<status, pool, sweeps, ctxs, system, at>>
        /\ at[p] \in Runs
    BY <1>5 DEF FinishNode
  <2> HIDE DEF k
  <2>3. frn' \in [Runs -> [Keys(G) -> Rows(G)]]
    <3>1. CASE UNCHANGED frn
      BY <3>1
    <3>2. CASE frn' = [frn EXCEPT ![at[p]][k] = row]
      <4>1. [frn[at[p]] EXCEPT ![k] = row] \in [Keys(G) -> Rows(G)]
        BY <2>2
      <4> QED
        BY <3>2, <4>1
    <3> QED
      BY <2>1, <3>1, <3>2
  <2>4. mem' \in [Procs -> [Keys(G) -> Rows(G)]]
    <3>1. [mem[p] EXCEPT ![k] = row] \in [Keys(G) -> Rows(G)]
      OBVIOUS
    <3> QED
      BY <2>1, <3>1
  <2>5. advanced' \subseteq Procs /\ staleRows' \subseteq Procs
    BY <2>1
  <2> QED
    BY <2>2, <2>3, <2>4, <2>5
<1>6. CASE FailNode(p)
  BY <1>6, RowTypes DEF FailNode
<1>7. CASE AbortNode(p)
  BY <1>7 DEF AbortNode
<1>8. CASE EndBatch(p)
  BY <1>8 DEF EndBatch
<1>9. CASE Finalize(p)
  BY <1>9 DEF Finalize
<1>10. CASE Settle(p)
  BY <1>10 DEF Settle, MarkRunTerminal
<1>11. CASE EndAdvance(p)
  BY <1>11, RowTypes DEF EndAdvance, NoRows, Home
<1> QED
  BY <1>1, <1>2, <1>3, <1>4, <1>5, <1>6, <1>7, <1>8, <1>9, <1>10, <1>11 DEF Advance

LEMMA TypeEnqueueAdvance ==
    ASSUME TypeInv, NEW p \in Procs, NEW r \in Runs,
           EnqueueAdvance(p, r)
    PROVE  /\ pc' \in [Procs -> PCs]
           /\ at' \in [Procs -> Runs \cup {NoRun}]
           /\ pending' \in SUBSET Runs
           /\ queued' \in SUBSET Runs
           /\ HasRunInHand'
           /\ UNCHANGED <<inProgress, queue>>
<1> USE PCTypes DEF TypeInv, TypeOK, HasRunInHand
<1>1. CASE phase = "closed"
  BY <1>1 DEF EnqueueAdvance
<1>2. CASE phase # "closed" /\ r \in inProgress \cup queued
  BY <1>2, HomeTypes, ZenonT(60) DEF EnqueueAdvance
<1>3. CASE phase # "closed" /\ r \notin inProgress \cup queued
  BY <1>3, ZenonT(60) DEF EnqueueAdvance
<1> QED
  BY <1>1, <1>2, <1>3

\* The steps of a goroutine on the queue, a replay or a kill.
LEMMA TypePool ==
    ASSUME TypeInv, NEW p \in Procs, Send(p) \/ TakeJob(p) \/ Feed(p)
    PROVE  TypeInv'
<1> USE PCTypes DEF TypeInv, TypeOK, HasRunInHand
<1>1. CASE Send(p)
  <2>1. at[p] \in Runs
    BY <1>1 DEF Send
  <2>2. queue' \in Seq(Runs) /\ queued' \in SUBSET Runs
    <3>1. CASE phase = "closed"
      BY <1>1, <3>1 DEF Send
    <3>2. CASE phase # "closed"
      <4>1. queue' = Append(queue, at[p]) /\ queued' = queued
        BY <1>1, <3>2 DEF Send
      <4> QED
        BY <2>1, <4>1
    <3> QED
      BY <3>1, <3>2
  <2>3. HasRunInHand' /\ pc' \in [Procs -> PCs]
    BY <1>1, HomeTypes DEF Send
  <2> QED
    BY <1>1, <2>2, <2>3 DEF Send
<1>2. CASE TakeJob(p)
  BY <1>2 DEF TakeJob
<1>3. CASE Feed(p)
  BY <1>3, TypeEnqueueAdvance DEF Feed
<1> QED
  BY <1>1, <1>2, <1>3

LEMMA TypeReplayKill ==
    ASSUME TypeInv, NEW p \in Procs,
           \/ ReplayClear(p) \/ ReplayRead(p) \/ ReplayMark(p)
           \/ KillMark(p) \/ KillParked(p) \/ KillCancel(p)
    PROVE  TypeInv'
<1> USE PCTypes DEF TypeInv, TypeOK, HasRunInHand
<1>1. CASE ReplayClear(p)
  <2>1. CASE Alive(p)
    BY <1>1, <2>1, RowTypes, UpdateRowsTypes DEF ReplayClear
  <2>2. CASE ~Alive(p)
    BY <1>1, <2>2, ZenonT(60) DEF ReplayClear
  <2> QED
    BY <2>1, <2>2
<1>2. CASE ReplayRead(p)
  BY <1>2, ZenonT(60) DEF ReplayRead
<1>3. CASE ReplayMark(p)
  <2>1. CASE Alive(p)
    <3>1. status' \in [Runs -> {"none", "running", "completed", "failed", "cancelled"}]
      BY <1>3, <2>1 DEF ReplayMark
    <3>2. pc' = [pc EXCEPT ![p] = "drive"] /\ at' = at /\ at[p] \in Runs
      BY <1>3, <2>1 DEF ReplayMark
    <3> QED
      BY <1>3, <2>1, <3>1, <3>2 DEF ReplayMark
  <2>2. CASE ~Alive(p)
    BY <1>3, <2>2, ZenonT(60) DEF ReplayMark
  <2> QED
    BY <2>1, <2>2
<1>4. CASE KillMark(p)
  BY <1>4 DEF KillMark, MarkRunTerminal
<1>5. CASE KillParked(p)
  BY <1>5, RowTypes, UpdateRowsTypes DEF KillParked
<1>6. CASE KillCancel(p)
  <2>1. at[p] \in Runs
    BY <1>6 DEF KillCancel
  <2>2. childDead' \subseteq Procs
    BY <1>6, <2>1 DEF KillCancel
  <2>3. HasRunInHand' /\ pc' \in [Procs -> PCs]
    BY <1>6 DEF KillCancel
  <2> QED
    BY <1>6, <2>2, <2>3 DEF KillCancel
<1> QED
  BY <1>1, <1>2, <1>3, <1>4, <1>5, <1>6

LEMMA TypeSeedRun ==
    ASSUME TypeInv, NEW r \in Runs, NEW n, SeedRun(r, n)
    PROVE  /\ status' \in [Runs -> {"none", "running", "completed", "failed", "cancelled"}]
           /\ frn' \in [Runs -> [Keys(G) -> Rows(G)]]
BY RowTypes DEF TypeInv, TypeOK, SeedRun

LEMMA TypeRequest ==
    ASSUME TypeInv, NEW p \in Callers, Request(p) PROVE TypeInv'
<1> USE PCTypes DEF TypeInv, TypeOK, HasRunInHand
<1>1. p \in Procs
  BY DEF Procs
<1>2. ASSUME NEW r \in Runs, NEW n \in NodeIds(G), StartRun(p, r, n) PROVE TypeInv'
  BY <1>1, <1>2, TypeSeedRun DEF StartRun, Accept
<1>3. ASSUME NEW r \in Runs, NEW n \in NodeIds(G), NEW d \in Approvals,
             DecideApproval(p, r, n, d)
      PROVE  TypeInv'
  BY <1>1, <1>3, RowTypes, UpdateRowsTypes DEF DecideApproval, Accept
<1>4. ASSUME NEW r \in Runs, Replay(p, r) PROVE TypeInv'
  BY <1>1, <1>4, SpendTypes, FaultsTypes DEF Replay, Accept
<1>5. CASE KillWorkflow(p)
  BY <1>1, <1>5, SpendTypes, FaultsTypes DEF KillWorkflow, Accept, Running
<1>6. CASE Disconnect(p)
  BY <1>1, <1>6, SpendTypes, FaultsTypes DEF Disconnect
<1> QED
  BY <1>2, <1>3, <1>4, <1>5, <1>6 DEF Request

LEMMA TimeoutRowTypes == ASSUME NEW n PROVE TimeoutRow(n) \in Rows(G)
<1>1. "yes" \in Approvals /\ "no" \in Approvals
  BY DEF Approvals
<1> QED
  BY <1>1, RowTypes DEF TimeoutRow

LEMMA TypeTicks ==
    ASSUME TypeInv, Ticks \/ (\E late \in SUBSET TimedNodes : CheckTimeouts(late))
    PROVE  TypeInv'
<1> USE PCTypes DEF TypeInv, TypeOK, HasRunInHand
<1>1. Drain \in Procs /\ Timer \in Procs
  BY DEF Procs
<1>2. CASE BeginFeed
  BY <1>1, <1>2 DEF BeginFeed
<1>3. CASE EndFeed
  BY <1>1, <1>3 DEF EndFeed
<1>4. CASE SettleTimeout
  <2>1. PICK x \in due :
          /\ due' = due \ {x}
          /\ \/ UNCHANGED <<frn, pc, at>>
             \/ /\ UpdateRows(x[1], ParkedAt(x[1], x[2]), TimeoutRow(x[2]))
                /\ pc' = [pc EXCEPT ![Timer] = IF OnTimeout[x[2]] = "fail" THEN "tfail" ELSE "enqueue"]
                /\ at' = [at EXCEPT ![Timer] = x[1]]
    BY <1>4 DEF SettleTimeout
  <2>2. x[1] \in Runs
    OBVIOUS
  <2>3. frn' \in [Runs -> [Keys(G) -> Rows(G)]]
    BY <2>1, TimeoutRowTypes, UpdateRowsTypes
  <2>4. HasRunInHand' /\ pc' \in [Procs -> PCs] /\ at' \in [Procs -> Runs \cup {NoRun}]
    <3>1. CASE UNCHANGED <<frn, pc, at>>
      BY <3>1
    <3>2. CASE /\ pc' = [pc EXCEPT ![Timer] = IF OnTimeout[x[2]] = "fail" THEN "tfail"
                                              ELSE "enqueue"]
               /\ at' = [at EXCEPT ![Timer] = x[1]]
      BY <1>1, <2>2, <3>2
    <3> QED
      BY <2>1, <3>1, <3>2
  <2> QED
    BY <1>4, <2>1, <2>3, <2>4 DEF SettleTimeout
<1>5. CASE TimeoutFail
  BY <1>1, <1>5 DEF TimeoutFail, MarkRunTerminal
<1>6. CASE TimeoutEnqueue
  BY <1>1, <1>6, TypeEnqueueAdvance DEF TimeoutEnqueue
<1>7. ASSUME NEW late \in SUBSET TimedNodes, CheckTimeouts(late) PROVE TypeInv'
  BY <1>1, <1>7 DEF CheckTimeouts, TimedNodes
<1> QED
  BY <1>2, <1>3, <1>4, <1>5, <1>6, <1>7 DEF Ticks

LEMMA TypeClaimFiring ==
    ASSUME TypeInv, NEW r \in Runs, NEW n \in NodeIds(G), ClaimFiring(r, n)
    PROVE  TypeInv'
<1>1. Drain \in Procs
  BY DEF Procs
<1> QED
  BY <1>1, TypeSeedRun DEF TypeInv, TypeOK, HasRunInHand, ClaimFiring

LEMMA TypeResetMemory ==
    ASSUME TypeInv, ResetMemory, used' \in [Faults -> Nat] PROVE TypeInv'
<1>1. NoRows \in [Keys(G) -> Rows(G)]
  BY RowTypes DEF NoRows
<1> QED
  BY <1>1 DEF TypeInv, TypeOK, HasRunInHand, PCs, ResetMemory

LEMMA TypeLifecycle ==
    ASSUME TypeInv, Lifecycle \/ BeginShutdown \/ Crash PROVE TypeInv'
<1> USE PCTypes DEF TypeInv, TypeOK, HasRunInHand
<1>1. Boot \in Procs /\ Callers \subseteq Procs
  BY DEF Procs
<1>2. CASE StartBoot
  BY <1>1, <1>2 DEF StartBoot, Running
<1>3. CASE EndBoot
  BY <1>1, <1>3 DEF EndBoot
<1>4. CASE CancelAll
  BY <1>4 DEF CancelAll
<1>5. CASE StopPool
  BY <1>5 DEF StopPool
<1>6. CASE Exit
  BY <1>6, TypeResetMemory DEF Exit
<1>7. CASE BeginShutdown
  BY <1>1, <1>7, SpendTypes, FaultsTypes DEF BeginShutdown
<1>8. CASE Crash
  BY <1>8, TypeResetMemory, SpendTypes, FaultsTypes DEF Crash
<1> QED
  BY <1>2, <1>3, <1>4, <1>5, <1>6, <1>7, <1>8 DEF Lifecycle

LEMMA TypeStep == TypeInv /\ [Next]_vars => TypeInv'
<1> SUFFICES ASSUME TypeInv, [Next]_vars PROVE TypeInv'
  OBVIOUS
<1>1. ASSUME NEW p \in Procs, Continue(p) PROVE TypeInv'
  BY <1>1, TypeDrive, TypeAdvance, TypePool, TypeReplayKill DEF Continue
<1>2. CASE UNCHANGED vars
  BY <1>2 DEF TypeInv, TypeOK, HasRunInHand
<1> QED
  BY <1>1, <1>2, TypeRequest, TypeTicks, TypeClaimFiring, TypeLifecycle DEF Next

\* Every variable keeps its type, and a goroutine between two steps of its work
\* on a run has that run in hand.
THEOREM TypeCorrect == Spec => []TypeInv
BY TypeInit, TypeStep, PTL DEF Spec

\* The type invariant the runs check, for every instance.
THEOREM TypeOKInvariant == Spec => []TypeOK
<1>1. TypeInv => TypeOK
  BY DEF TypeInv
<1> QED
  BY <1>1, TypeCorrect, PTL

-----------------------------------------------------------------------------
(***************************************************************************)
(* Single flight. A goroutine between drive's entry and its exit check has *)
(* its run marked in advInProgress; drive enters only an unmarked run, and *)
(* only the driver itself clears the mark.                                 *)
(***************************************************************************)
Marked == \A p \in Procs : Driving(p) => at[p] \in inProgress

FlightInv == TypeInv /\ Marked /\ SingleFlight

\* A step that leaves the marks alone and starts no driver.
LEMMA FlightFrame ==
    ASSUME FlightInv, NEW p \in Procs,
           inProgress' = inProgress,
           \A q \in Procs \ {p} : pc'[q] = pc[q] /\ at'[q] = at[q],
           pc'[p] \in DrivePCs => pc[p] \in DrivePCs /\ at'[p] = at[p]
    PROVE  Marked' /\ SingleFlight'
BY DEF FlightInv, Marked, SingleFlight, Driving

LEMMA FlightDrive ==
    ASSUME FlightInv, NEW p \in Procs, Drive(p) PROVE Marked' /\ SingleFlight'
<1> USE DEF FlightInv, TypeInv, TypeOK
<1>1. CASE at[p] \in inProgress
  BY <1>1, HomeTypes, FlightFrame DEF Drive, DrivePCs
<1>2. CASE at[p] \notin inProgress
  <2>1. /\ inProgress' = inProgress \cup {at[p]}
        /\ at' = at
        /\ pc' = [pc EXCEPT ![p] = "getrun"]
    BY <1>2 DEF Drive
  <2>2. \A q \in Procs : Driving(q)' /\ q # p => Driving(q) /\ at[q] # at[p]
    BY <1>2, <2>1 DEF Driving, Marked
  <2> QED
    BY <2>1, <2>2 DEF Marked, SingleFlight, Driving
<1> QED
  BY <1>1, <1>2

LEMMA FlightAdvance ==
    ASSUME FlightInv, NEW p \in Procs, Advance(p) PROVE Marked' /\ SingleFlight'
<1> USE DEF FlightInv, TypeInv, TypeOK, DrivePCs
<1>1. CASE EndAdvance(p)
  <2>1. CASE at[p] \in pending /\ p \notin baseDead
    BY <1>1, <2>1, FlightFrame DEF EndAdvance
  <2>2. CASE ~(at[p] \in pending /\ p \notin baseDead)
    <3>1. /\ inProgress' = inProgress \ {at[p]}
          /\ at' = [at EXCEPT ![p] = NoRun]
          /\ pc' = [pc EXCEPT ![p] = Home(p)]
          /\ Driving(p)
      BY <1>1, <2>2 DEF EndAdvance, Driving
    <3>2. ~Driving(p)'
      BY <3>1, HomeTypes DEF Driving
    <3>3. \A q \in Procs : Driving(q)' => Driving(q) /\ at'[q] = at[q] /\ at[q] # at[p]
      BY <3>1, <3>2 DEF Driving, SingleFlight
    <3> QED
      BY <3>1, <3>3 DEF Marked, SingleFlight
  <2> QED
    BY <2>1, <2>2
<1>2. CASE ~EndAdvance(p)
  <2>1. inProgress' = inProgress /\ at' = at /\ pc[p] \in DrivePCs
    BY <1>2 DEF Advance, GetRun, Load, WalkTurn, BeginNode, FinishNode, FailNode, AbortNode,
                EndBatch, Finalize, Settle
  <2>2. \A q \in Procs \ {p} : pc'[q] = pc[q]
    BY <1>2 DEF Advance, GetRun, Load, WalkTurn, BeginNode, FinishNode, FailNode, AbortNode,
                EndBatch, Finalize, Settle
  <2> QED
    BY <2>1, <2>2, FlightFrame
<1> QED
  BY <1>1, <1>2

LEMMA FlightOther ==
    ASSUME FlightInv, NEW p \in Procs,
           \/ Send(p) \/ TakeJob(p) \/ Feed(p)
           \/ ReplayClear(p) \/ ReplayRead(p) \/ ReplayMark(p)
           \/ KillMark(p) \/ KillParked(p) \/ KillCancel(p)
    PROVE  Marked' /\ SingleFlight'
<1> USE DEF FlightInv, TypeInv, TypeOK, DrivePCs
<1>1. CASE Send(p)
  BY <1>1, HomeTypes, FlightFrame DEF Send
<1>2. CASE TakeJob(p)
  BY <1>2, FlightFrame DEF TakeJob
<1>3. CASE Feed(p)
  <2>1. /\ inProgress' = inProgress
        /\ \A q \in Procs \ {p} : pc'[q] = pc[q] /\ at'[q] = at[q]
        /\ pc'[p] \in {"drive", "send", "idle", "feed"}
    BY <1>3, HomeTypes DEF Feed, EnqueueAdvance
  <2> QED
    BY <2>1, FlightFrame
<1>4. CASE ReplayClear(p)
  BY <1>4, FlightFrame, ZenonT(60) DEF ReplayClear
<1>5. CASE ReplayRead(p)
  BY <1>5, FlightFrame, ZenonT(60) DEF ReplayRead
<1>6. CASE ReplayMark(p)
  BY <1>6, FlightFrame DEF ReplayMark
<1>7. CASE KillMark(p)
  BY <1>7, FlightFrame DEF KillMark
<1>8. CASE KillParked(p)
  BY <1>8, FlightFrame DEF KillParked
<1>9. CASE KillCancel(p)
  BY <1>9, FlightFrame DEF KillCancel
<1> QED
  BY <1>1, <1>2, <1>3, <1>4, <1>5, <1>6, <1>7, <1>8, <1>9

LEMMA FlightRequest ==
    ASSUME FlightInv, NEW p \in Callers, Request(p) PROVE Marked' /\ SingleFlight'
<1> USE DEF FlightInv, TypeInv, TypeOK, DrivePCs
<1>1. p \in Procs
  BY DEF Procs
<1>2. ASSUME NEW r \in Runs, NEW n \in NodeIds(G), StartRun(p, r, n)
      PROVE  Marked' /\ SingleFlight'
  BY <1>1, <1>2, FlightFrame DEF StartRun
<1>3. ASSUME NEW r \in Runs, NEW n \in NodeIds(G), NEW d \in Approvals,
             DecideApproval(p, r, n, d)
      PROVE  Marked' /\ SingleFlight'
  BY <1>1, <1>3, FlightFrame DEF DecideApproval
<1>4. ASSUME NEW r \in Runs, Replay(p, r) PROVE Marked' /\ SingleFlight'
  BY <1>1, <1>4, FlightFrame DEF Replay
<1>5. CASE KillWorkflow(p)
  BY <1>1, <1>5, FlightFrame DEF KillWorkflow
<1>6. CASE Disconnect(p)
  BY <1>1, <1>6, FlightFrame DEF Disconnect
<1> QED
  BY <1>2, <1>3, <1>4, <1>5, <1>6 DEF Request

LEMMA FlightTicks ==
    ASSUME FlightInv,
           \/ Ticks
           \/ \E late \in SUBSET TimedNodes : CheckTimeouts(late)
           \/ \E r \in Runs, n \in NodeIds(G) : ClaimFiring(r, n)
    PROVE  Marked' /\ SingleFlight'
<1> USE DEF FlightInv, TypeInv, TypeOK, DrivePCs
<1>1. Drain \in Procs /\ Timer \in Procs
  BY DEF Procs
<1>2. CASE BeginFeed
  BY <1>1, <1>2, FlightFrame DEF BeginFeed
<1>3. CASE EndFeed
  BY <1>1, <1>3, FlightFrame DEF EndFeed
<1>4. CASE SettleTimeout
  <2>1. /\ inProgress' = inProgress
        /\ \A q \in Procs \ {Timer} : pc'[q] = pc[q] /\ at'[q] = at[q]
        /\ pc'[Timer] \in DrivePCs => pc' = pc /\ at' = at
    BY <1>1, <1>4, ZenonT(60) DEF SettleTimeout
  <2> QED
    BY <1>1, <2>1, FlightFrame
<1>5. CASE TimeoutFail
  BY <1>1, <1>5, FlightFrame DEF TimeoutFail
<1>6. CASE TimeoutEnqueue
  <2>1. /\ inProgress' = inProgress
        /\ \A q \in Procs \ {Timer} : pc'[q] = pc[q] /\ at'[q] = at[q]
        /\ pc'[Timer] \in {"drive", "send", "idle", "feed"}
    BY <1>1, <1>6, HomeTypes DEF TimeoutEnqueue, EnqueueAdvance
  <2> QED
    BY <1>1, <2>1, FlightFrame
<1>7. CASE \E late \in SUBSET TimedNodes : CheckTimeouts(late)
  BY <1>1, <1>7, FlightFrame DEF CheckTimeouts
<1>8. CASE \E r \in Runs, n \in NodeIds(G) : ClaimFiring(r, n)
  BY <1>1, <1>8, FlightFrame DEF ClaimFiring
<1> QED
  BY <1>2, <1>3, <1>4, <1>5, <1>6, <1>7, <1>8 DEF Ticks

LEMMA FlightLifecycle ==
    ASSUME FlightInv, Lifecycle \/ BeginShutdown \/ Crash PROVE Marked' /\ SingleFlight'
<1> USE DEF FlightInv, TypeInv, TypeOK, DrivePCs
<1>1. Boot \in Procs
  BY DEF Procs
<1>2. ASSUME ResetMemory PROVE Marked' /\ SingleFlight'
  BY <1>2 DEF ResetMemory, Marked, SingleFlight, Driving
<1>3. CASE StartBoot
  BY <1>1, <1>3, FlightFrame DEF StartBoot
<1>4. CASE EndBoot
  BY <1>1, <1>4, FlightFrame DEF EndBoot
<1>5. CASE CancelAll \/ StopPool \/ BeginShutdown
  BY <1>1, <1>5, FlightFrame DEF CancelAll, StopPool, BeginShutdown
<1>6. CASE Exit \/ Crash
  BY <1>2, <1>6 DEF Exit, Crash
<1> QED
  BY <1>3, <1>4, <1>5, <1>6 DEF Lifecycle

LEMMA FlightInit == Init => FlightInv
<1> SUFFICES ASSUME Init PROVE FlightInv
  OBVIOUS
<1>1. TypeInv
  BY TypeInit
<1>2. Marked /\ SingleFlight
  BY DEF Init, Marked, SingleFlight, Driving, DrivePCs
<1> QED
  BY <1>1, <1>2 DEF FlightInv

LEMMA FlightStep == FlightInv /\ [Next]_vars => FlightInv'
<1> SUFFICES ASSUME FlightInv, [Next]_vars PROVE FlightInv'
  OBVIOUS
<1>1. TypeInv'
  BY TypeStep DEF FlightInv
<1>2. ASSUME NEW p \in Procs, Continue(p) PROVE Marked' /\ SingleFlight'
  BY <1>2, FlightDrive, FlightAdvance, FlightOther DEF Continue
<1>3. ASSUME UNCHANGED vars PROVE Marked' /\ SingleFlight'
  <2>1. Boot \in Procs
    BY DEF Procs
  <2> QED
    BY <1>3, <2>1, FlightFrame
<1>4. Marked' /\ SingleFlight'
  BY <1>2, <1>3, FlightRequest, FlightTicks, FlightLifecycle DEF Next
<1> QED
  BY <1>1, <1>4 DEF FlightInv

\* At most one goroutine advances a run, and it holds the run's advInProgress
\* mark, whoever called drive (pool.go drive).
THEOREM SingleFlightInvariant == Spec => []SingleFlight
<1>1. Spec => []FlightInv
  BY FlightInit, FlightStep, PTL DEF Spec
<1>2. FlightInv => SingleFlight
  BY DEF FlightInv
<1> QED
  BY <1>1, <1>2, PTL

-----------------------------------------------------------------------------
(***************************************************************************)
(* Only a run that has begun is in anybody's hands, so that its trigger    *)
(* row is the first row written for it.                                    *)
(***************************************************************************)
Begun == {r \in Runs : status[r] # "none"}

OnlyBegun ==
    /\ \A p \in Procs : at[p] \in Begun \cup {NoRun}
    /\ \A p \in Procs : list[p] \subseteq Begun
    /\ \A i \in 1 .. Len(queue) : queue[i] \in Begun
    /\ \A r \in Runs \ Begun : frn[r] = NoRows

BegunInv == TypeInv /\ OnlyBegun

\* No step makes a run that has begun forget it.
LEMMA BegunGrows ==
    ASSUME TypeInv, [Next]_vars PROVE Begun \subseteq Begun'
<1> USE DEF Begun, TypeInv, TypeOK
<1>1. ASSUME NEW r \in Runs, NEW s \in {"running", "completed", "failed", "cancelled"},
             MarkRunTerminal(r, s)
      PROVE  Begun \subseteq Begun'
  BY <1>1 DEF MarkRunTerminal
<1>2. ASSUME NEW r \in Runs, NEW n, SeedRun(r, n) PROVE Begun \subseteq Begun'
  BY <1>2 DEF SeedRun
<1>3. ASSUME UNCHANGED status PROVE Begun \subseteq Begun'
  BY <1>3
<1>4. ASSUME NEW p \in Procs, Continue(p) PROVE Begun \subseteq Begun'
  <2>1. CASE Settle(p)
    <3>1. at[p] \in Runs
      BY <2>1 DEF Settle, HasRunInHand
    <3> QED
      BY <1>1, <1>3, <2>1, <3>1 DEF Settle
  <2>2. CASE KillMark(p)
    BY <1>1, <1>3, <2>2 DEF KillMark
  <2>3. CASE ReplayMark(p)
    BY <2>3 DEF ReplayMark
  <2>4. CASE Drive(p) \/ Send(p) \/ TakeJob(p) \/ Feed(p)
    BY <2>4 DEF Drive, Send, TakeJob, Feed
  <2>5. CASE ReplayClear(p) \/ ReplayRead(p) \/ KillParked(p) \/ KillCancel(p)
    BY <2>5 DEF ReplayClear, ReplayRead, KillParked, KillCancel
  <2>6. CASE Advance(p) /\ ~Settle(p)
    BY <2>6 DEF Advance, GetRun, Load, WalkTurn, BeginNode, FinishNode, FailNode, AbortNode,
                EndBatch, Finalize, EndAdvance
  <2> QED
    BY <1>4, <2>1, <2>2, <2>3, <2>4, <2>5, <2>6 DEF Continue
<1>5. ASSUME NEW p \in Callers, Request(p) PROVE Begun \subseteq Begun'
  BY <1>2, <1>3, <1>5 DEF Request, StartRun, DecideApproval, Replay, KillWorkflow, Disconnect
<1>6. ASSUME NEW r \in Runs, NEW n \in NodeIds(G), ClaimFiring(r, n) PROVE Begun \subseteq Begun'
  BY <1>2, <1>6 DEF ClaimFiring
<1>7. ASSUME \/ \E late \in SUBSET TimedNodes : CheckTimeouts(late)
             \/ Ticks \/ Lifecycle \/ BeginShutdown \/ Crash
             \/ UNCHANGED vars
      PROVE  Begun \subseteq Begun'
  <2>1. CASE TimeoutFail
    <3>1. at[Timer] \in Runs
      BY <2>1 DEF TimeoutFail, HasRunInHand, Procs
    <3> QED
      BY <1>1, <2>1, <3>1 DEF TimeoutFail
  <2>2. CASE ~TimeoutFail
    BY <1>7, <2>2 DEF CheckTimeouts, Ticks, BeginFeed, EndFeed, SettleTimeout, TimeoutEnqueue,
                      Lifecycle, StartBoot, EndBoot, CancelAll, StopPool, Exit, BeginShutdown,
                      Crash, ResetMemory
  <2> QED
    BY <2>1, <2>2
<1> QED
  BY <1>4, <1>5, <1>6, <1>7 DEF Next

LEMMA BegunFrame ==
    ASSUME BegunInv, Begun \subseteq Begun', NEW p \in Procs,
           \A q \in Procs \ {p} : at'[q] = at[q],
           at'[p] \in Begun' \cup {NoRun},
           \A q \in Procs : list'[q] \subseteq list[q] \cup Begun',
           queue' = queue \/ \A i \in 1 .. Len(queue') : queue'[i] \in Begun',
           \A r \in Runs : frn'[r] = frn[r] \/ r \in Begun'
    PROVE  OnlyBegun'
<1>1. \A i \in 1 .. Len(queue') : queue'[i] \in Begun'
  BY DEF BegunInv, OnlyBegun
<1>2. \A r \in Runs \ Begun' : frn'[r] = NoRows
  BY DEF BegunInv, OnlyBegun
<1>3. \A q \in Procs : at'[q] \in Begun' \cup {NoRun} /\ list'[q] \subseteq Begun'
  BY DEF BegunInv, OnlyBegun
<1> QED
  BY <1>1, <1>2, <1>3 DEF OnlyBegun

\* A parked row exists only for a run that has begun.
LEMMA ParkedBegun ==
    ASSUME BegunInv, NEW r \in Runs, NEW n, ParkedAt(r, n) # {} PROVE r \in Begun
BY DEF BegunInv, OnlyBegun, ParkedAt, ParkedKeys, NoRows, NoRow, Row

LEMMA UpdateRowsOnly ==
    ASSUME TypeOK, NEW r, NEW S, NEW row, UpdateRows(r, S, row)
    PROVE  \A q \in Runs : q # r => frn'[q] = frn[q]
BY DEF TypeOK, UpdateRows

LEMMA BegunAdvance ==
    ASSUME BegunInv, Begun \subseteq Begun', NEW p \in Procs, Drive(p) \/ Advance(p)
    PROVE  OnlyBegun'
<1> USE DEF BegunInv, TypeInv, TypeOK
<1>1. at[p] \in Begun \cup {NoRun}
  BY DEF OnlyBegun
<1>2. /\ queue' = queue /\ list' = list
      /\ at' = at \/ at' = [at EXCEPT ![p] = NoRun]
  BY DEF Drive, Advance, GetRun, Load, WalkTurn, BeginNode, FinishNode, FailNode, AbortNode,
         EndBatch, Finalize, Settle, EndAdvance
<1>3. CASE FinishNode(p) \/ FailNode(p)
  <2>1. \A r \in Runs : r # at[p] => frn'[r] = frn[r]
    BY <1>3 DEF FinishNode, FailNode
  <2> QED
    BY <1>1, <1>2, <2>1, BegunFrame, RunsAssumption
<1>4. CASE ~(FinishNode(p) \/ FailNode(p))
  <2>1. frn' = frn
    BY <1>4 DEF Drive, Advance, GetRun, Load, WalkTurn, BeginNode, AbortNode, EndBatch, Finalize,
                Settle, EndAdvance
  <2> QED
    BY <1>1, <1>2, <2>1, BegunFrame
<1> QED
  BY <1>3, <1>4

LEMMA BegunOther ==
    ASSUME BegunInv, Begun \subseteq Begun', NEW p \in Procs,
           \/ Send(p) \/ TakeJob(p) \/ Feed(p)
           \/ ReplayClear(p) \/ ReplayRead(p) \/ ReplayMark(p)
           \/ KillMark(p) \/ KillParked(p) \/ KillCancel(p)
    PROVE  OnlyBegun'
<1> USE DEF BegunInv, TypeInv, TypeOK
<1>1. at[p] \in Begun \cup {NoRun} /\ list[p] \subseteq Begun
  BY DEF OnlyBegun
<1>2. CASE Send(p)
  <2>1. at[p] \in Runs
    BY <1>2 DEF Send, HasRunInHand
  <2>2. \A i \in 1 .. Len(queue') : queue'[i] \in Begun'
    <3>1. CASE phase = "closed"
      BY <1>2, <3>1 DEF Send, OnlyBegun
    <3>2. CASE phase # "closed"
      <4>1. queue' = Append(queue, at[p]) /\ at[p] \in Begun
        BY <1>1, <1>2, <2>1, <3>2, RunsAssumption DEF Send
      <4> QED
        BY <2>1, <4>1 DEF OnlyBegun
    <3> QED
      BY <3>1, <3>2
  <2>3. list' = list /\ frn' = frn /\ at' = [at EXCEPT ![p] = NoRun]
    BY <1>2 DEF Send
  <2> QED
    BY <2>2, <2>3, BegunFrame
<1>3. CASE TakeJob(p)
  <2>1. /\ Len(queue) > 0 /\ queue' = Tail(queue)
        /\ at' = [at EXCEPT ![p] = Head(queue)]
        /\ list' = list /\ frn' = frn
    BY <1>3 DEF TakeJob
  <2>2. Head(queue) \in Begun
    BY <2>1 DEF OnlyBegun
  <2>3. \A i \in 1 .. Len(queue') : queue'[i] \in Begun'
    BY <2>1 DEF OnlyBegun
  <2> QED
    BY <2>1, <2>2, <2>3, BegunFrame
<1>4. CASE Feed(p)
  <2>1. PICK r \in list[p] : EnqueueAdvance(p, r) /\ list' = [list EXCEPT ![p] = @ \ {r}]
    BY <1>4 DEF Feed
  <2>2. queue' = queue /\ (at' = [at EXCEPT ![p] = r] \/ at' = [at EXCEPT ![p] = NoRun])
    BY <2>1 DEF EnqueueAdvance
  <2>3. frn' = frn
    BY <1>4 DEF Feed
  <2> QED
    BY <1>1, <2>1, <2>2, <2>3, BegunFrame
<1>5. CASE ReplayClear(p) \/ KillParked(p)
  <2>1. \A r \in Runs : r # at[p] => frn'[r] = frn[r]
    BY <1>5, UpdateRowsOnly DEF ReplayClear, KillParked
  <2>2. /\ queue' = queue /\ list' = list
        /\ at' = at \/ at' = [at EXCEPT ![p] = NoRun]
    BY <1>5 DEF ReplayClear, KillParked
  <2> QED
    BY <1>1, <2>1, <2>2, BegunFrame, RunsAssumption
<1>6. CASE ReplayRead(p) \/ ReplayMark(p) \/ KillCancel(p)
  <2>1. /\ queue' = queue /\ list' = list /\ frn' = frn
        /\ at' = at \/ at' = [at EXCEPT ![p] = NoRun]
    BY <1>6 DEF ReplayRead, ReplayMark, KillCancel
  <2> QED
    BY <1>1, <2>1, BegunFrame
<1>7. CASE KillMark(p)
  <2>1. PICK r \in list[p] : /\ list' = [list EXCEPT ![p] = @ \ {r}]
                             /\ at' = [at EXCEPT ![p] = r]
    BY <1>7 DEF KillMark
  <2>2. queue' = queue /\ frn' = frn
    BY <1>7 DEF KillMark
  <2> QED
    BY <1>1, <2>1, <2>2, BegunFrame
<1> QED
  BY <1>2, <1>3, <1>4, <1>5, <1>6, <1>7

LEMMA BegunSeedRun ==
    ASSUME TypeInv, NEW r \in Runs, NEW n, SeedRun(r, n)
    PROVE  r \in Begun' /\ \A q \in Runs : q # r => frn'[q] = frn[q]
BY DEF TypeInv, TypeOK, SeedRun, Begun

LEMMA BegunRequest ==
    ASSUME BegunInv, Begun \subseteq Begun', NEW p \in Callers, Request(p)
    PROVE  OnlyBegun'
<1> USE DEF BegunInv, TypeInv, TypeOK
<1>1. p \in Procs /\ at[p] \in Begun \cup {NoRun}
  BY DEF OnlyBegun, Procs
<1>2. ASSUME NEW r \in Runs, NEW n \in NodeIds(G), StartRun(p, r, n) PROVE OnlyBegun'
  <2>1. r \in Begun' /\ \A q \in Runs : q # r => frn'[q] = frn[q]
    BY <1>2, BegunSeedRun DEF StartRun
  <2> QED
    BY <1>1, <1>2, <2>1, BegunFrame DEF StartRun
<1>3. ASSUME NEW r \in Runs, NEW n \in NodeIds(G), NEW d \in Approvals,
             DecideApproval(p, r, n, d)
      PROVE  OnlyBegun'
  <2>1. r \in Begun /\ \A q \in Runs : q # r => frn'[q] = frn[q]
    BY <1>3, ParkedBegun, UpdateRowsOnly DEF DecideApproval
  <2> QED
    BY <1>1, <1>3, <2>1, BegunFrame DEF DecideApproval
<1>4. ASSUME NEW r \in Runs, Replay(p, r) PROVE OnlyBegun'
  <2>1. r \in Begun
    BY <1>4 DEF Replay, Begun
  <2> QED
    BY <1>1, <1>4, <2>1, BegunFrame DEF Replay
<1>5. CASE KillWorkflow(p)
  <2>1. Running \subseteq Begun
    BY DEF Running, Begun
  <2> QED
    BY <1>1, <1>5, <2>1, BegunFrame DEF KillWorkflow
<1>6. CASE Disconnect(p)
  BY <1>1, <1>6, BegunFrame DEF Disconnect
<1> QED
  BY <1>2, <1>3, <1>4, <1>5, <1>6 DEF Request

LEMMA BegunBackground ==
    ASSUME BegunInv, Begun \subseteq Begun',
           \/ Ticks
           \/ \E late \in SUBSET TimedNodes : CheckTimeouts(late)
           \/ \E r \in Runs, n \in NodeIds(G) : ClaimFiring(r, n)
    PROVE  OnlyBegun'
<1> USE DEF BegunInv, TypeInv, TypeOK
<1>1. /\ Drain \in Procs /\ Timer \in Procs
      /\ at[Drain] \in Begun \cup {NoRun} /\ at[Timer] \in Begun \cup {NoRun}
  BY DEF OnlyBegun, Procs
<1>2. CASE BeginFeed \/ EndFeed \/ (\E late \in SUBSET TimedNodes : CheckTimeouts(late))
  <2>1. at' = at /\ queue' = queue /\ list' = list /\ frn' = frn
    BY <1>2 DEF BeginFeed, EndFeed, CheckTimeouts
  <2> QED
    BY <1>1, <2>1, BegunFrame
<1>3. CASE SettleTimeout
  <2>1. PICK x \in due :
          IF ParkedAt(x[1], x[2]) = {} THEN UNCHANGED <<frn, pc, at>>
          ELSE /\ UpdateRows(x[1], ParkedAt(x[1], x[2]), TimeoutRow(x[2]))
               /\ at' = [at EXCEPT ![Timer] = x[1]]
    BY <1>3 DEF SettleTimeout
  <2>2. x[1] \in Runs /\ queue' = queue /\ list' = list
    BY <1>3 DEF SettleTimeout
  <2>3. CASE ParkedAt(x[1], x[2]) = {}
    BY <1>1, <2>1, <2>2, <2>3, BegunFrame
  <2>4. CASE ParkedAt(x[1], x[2]) # {}
    <3>1. x[1] \in Begun /\ \A q \in Runs : q # x[1] => frn'[q] = frn[q]
      BY <2>1, <2>2, <2>4, ParkedBegun, UpdateRowsOnly
    <3> QED
      BY <1>1, <2>1, <2>2, <2>4, <3>1, BegunFrame
  <2> QED
    BY <2>3, <2>4
<1>4. CASE TimeoutFail
  BY <1>1, <1>4, BegunFrame DEF TimeoutFail
<1>5. CASE TimeoutEnqueue
  BY <1>1, <1>5, BegunFrame DEF TimeoutEnqueue, EnqueueAdvance
<1>6. ASSUME NEW r \in Runs, NEW n \in NodeIds(G), ClaimFiring(r, n) PROVE OnlyBegun'
  <2>1. r \in Begun' /\ \A q \in Runs : q # r => frn'[q] = frn[q]
    BY <1>6, BegunSeedRun DEF ClaimFiring
  <2> QED
    BY <1>1, <1>6, <2>1, BegunFrame DEF ClaimFiring
<1> QED
  BY <1>2, <1>3, <1>4, <1>5, <1>6 DEF Ticks

LEMMA BegunLifecycle ==
    ASSUME BegunInv, Begun \subseteq Begun', Lifecycle \/ BeginShutdown \/ Crash
    PROVE  OnlyBegun'
<1> USE DEF BegunInv, TypeInv, TypeOK
<1>1. Boot \in Procs /\ at[Boot] \in Begun \cup {NoRun}
  BY DEF OnlyBegun, Procs
<1>2. CASE StartBoot
  <2>1. Running \subseteq Begun
    BY DEF Running, Begun
  <2> QED
    BY <1>1, <1>2, <2>1, BegunFrame DEF StartBoot
<1>3. CASE EndBoot \/ CancelAll \/ StopPool \/ BeginShutdown
  <2>1. at' = at /\ queue' = queue /\ list' = list /\ frn' = frn
    BY <1>3 DEF EndBoot, CancelAll, StopPool, BeginShutdown
  <2> QED
    BY <1>1, <2>1, BegunFrame
<1>4. CASE Exit \/ Crash
  <2>1. /\ at' = [p \in Procs |-> NoRun] /\ list' = [p \in Procs |-> {}]
        /\ queue' = << >> /\ frn' = frn
    BY <1>4 DEF Exit, Crash, ResetMemory
  <2> QED
    BY <2>1 DEF OnlyBegun
<1> QED
  BY <1>2, <1>3, <1>4 DEF Lifecycle

LEMMA BegunInit == Init => BegunInv
<1> SUFFICES ASSUME Init PROVE BegunInv
  OBVIOUS
<1>1. OnlyBegun
  BY DEF Init, OnlyBegun, Begun
<1> QED
  BY <1>1, TypeInit DEF BegunInv

LEMMA BegunStep == BegunInv /\ [Next]_vars => BegunInv'
<1> SUFFICES ASSUME BegunInv, [Next]_vars PROVE BegunInv'
  OBVIOUS
<1>1. TypeInv' /\ Begun \subseteq Begun'
  BY TypeStep, BegunGrows DEF BegunInv
<1>2. ASSUME NEW p \in Procs, Continue(p) PROVE OnlyBegun'
  BY <1>1, <1>2, BegunAdvance, BegunOther DEF Continue
<1>3. ASSUME UNCHANGED vars PROVE OnlyBegun'
  BY <1>3 DEF BegunInv, OnlyBegun, Begun
<1>4. OnlyBegun'
  BY <1>1, <1>2, <1>3, BegunRequest, BegunBackground, BegunLifecycle DEF Next
<1> QED
  BY <1>1, <1>4 DEF BegunInv

LEMMA BegunAlways == Spec => []BegunInv
BY BegunInit, BegunStep, PTL DEF Spec

-----------------------------------------------------------------------------
(***************************************************************************)
(* Record once. Every writer of flowrun_nodes either finds the row absent  *)
(* or names rows that are parked or failed.                                *)
(***************************************************************************)
CompletedKept ==
    \A r \in Runs, k \in Keys(G) : Completed(frn[r], k) => frn'[r][k] = frn[r][k]

LEMMA UpdateKeeps ==
    ASSUME TypeOK, NEW r \in Runs, NEW S, NEW row, UpdateRows(r, S, row),
           \A k \in S \cap Keys(G) : ~Completed(frn[r], k)
    PROVE  CompletedKept
BY DEF TypeOK, UpdateRows, CompletedKept

LEMMA SeedKeeps ==
    ASSUME BegunInv, NEW r \in Runs, NEW n, SeedRun(r, n) PROVE CompletedKept
<1>1. frn[r] = NoRows
  BY DEF BegunInv, OnlyBegun, Begun, SeedRun
<1>2. \A k \in Keys(G) : ~Completed(frn[r], k)
  BY <1>1 DEF NoRows, NoRow, Row, Completed
<1>3. \A q \in Runs : q # r => frn'[q] = frn[q]
  BY DEF BegunInv, TypeInv, TypeOK, SeedRun
<1> QED
  BY <1>2, <1>3 DEF CompletedKept

LEMMA RecordOnceStep == BegunInv /\ [Next]_vars => CompletedKept
<1> SUFFICES ASSUME BegunInv, [Next]_vars PROVE CompletedKept
  OBVIOUS
<1> USE DEF BegunInv, TypeInv
<1>1. ASSUME frn' = frn PROVE CompletedKept
  BY <1>1 DEF CompletedKept
<1>2. ASSUME NEW r, NEW k, NEW row, ~HasRow(frn[r], k), frn' = [frn EXCEPT ![r][k] = row]
      PROVE  CompletedKept
  BY <1>2 DEF CompletedKept, Completed, HasRow, TypeOK
<1>3. ASSUME NEW p \in Procs, Continue(p) PROVE CompletedKept
  <2>1. CASE FinishNode(p)
    BY <1>1, <1>2, <2>1, ZenonT(60) DEF FinishNode
  <2>2. CASE FailNode(p)
    BY <1>1, <1>2, <2>2 DEF FailNode
  <2>3. CASE ReplayClear(p)
    <3>1. \A k \in FailedKeys(at[p]) : ~Completed(frn[at[p]], k)
      BY DEF FailedKeys, Completed
    <3>2. at[p] \in Runs
      BY <2>3 DEF ReplayClear, HasRunInHand
    <3> QED
      BY <1>1, <2>3, <3>1, <3>2, UpdateKeeps DEF ReplayClear
  <2>4. CASE KillParked(p)
    <3>1. \A k \in ParkedKeys(at[p]) : ~Completed(frn[at[p]], k)
      BY DEF ParkedKeys, Completed
    <3>2. at[p] \in Runs
      BY <2>4 DEF KillParked, HasRunInHand
    <3> QED
      BY <1>1, <2>4, <3>1, <3>2, UpdateKeeps DEF KillParked
  <2>5. CASE Drive(p) \/ Send(p) \/ TakeJob(p) \/ Feed(p)
    BY <1>1, <2>5 DEF Drive, Send, TakeJob, Feed
  <2>6. CASE ReplayRead(p) \/ ReplayMark(p) \/ KillMark(p) \/ KillCancel(p)
    BY <1>1, <2>6 DEF ReplayRead, ReplayMark, KillMark, KillCancel
  <2>7. CASE Advance(p) /\ ~FinishNode(p) /\ ~FailNode(p)
    BY <1>1, <2>7 DEF Advance, GetRun, Load, WalkTurn, BeginNode, AbortNode, EndBatch, Finalize,
                      Settle, EndAdvance
  <2> QED
    BY <1>3, <2>1, <2>2, <2>3, <2>4, <2>5, <2>6, <2>7 DEF Continue
<1>4. \A r, n : \A k \in ParkedAt(r, n) : ~Completed(frn[r], k)
  BY DEF ParkedAt, ParkedKeys, Completed
<1>5. ASSUME NEW p \in Callers, Request(p) PROVE CompletedKept
  <2>1. ASSUME NEW r \in Runs, NEW n \in NodeIds(G), StartRun(p, r, n) PROVE CompletedKept
    BY <2>1, SeedKeeps DEF StartRun
  <2>2. ASSUME NEW r \in Runs, NEW n \in NodeIds(G), NEW d \in Approvals,
               DecideApproval(p, r, n, d)
        PROVE  CompletedKept
    BY <1>4, <2>2, UpdateKeeps DEF DecideApproval
  <2>3. CASE (\E r \in Runs : Replay(p, r)) \/ KillWorkflow(p) \/ Disconnect(p)
    BY <1>1, <2>3 DEF Replay, KillWorkflow, Disconnect
  <2> QED
    BY <1>5, <2>1, <2>2, <2>3 DEF Request
<1>6. ASSUME NEW r \in Runs, NEW n \in NodeIds(G), ClaimFiring(r, n) PROVE CompletedKept
  BY <1>6, SeedKeeps DEF ClaimFiring
<1>7. CASE SettleTimeout
  <2>1. PICK x \in due : frn' = frn \/ UpdateRows(x[1], ParkedAt(x[1], x[2]), TimeoutRow(x[2]))
    BY <1>7 DEF SettleTimeout
  <2>2. x[1] \in Runs
    BY DEF TypeOK
  <2> QED
    BY <1>1, <1>4, <2>1, <2>2, UpdateKeeps
<1>8. CASE \/ \E late \in SUBSET TimedNodes : CheckTimeouts(late)
           \/ Ticks /\ ~SettleTimeout
           \/ Lifecycle \/ BeginShutdown \/ Crash
           \/ UNCHANGED vars
  BY <1>1, <1>8 DEF CheckTimeouts, Ticks, BeginFeed, EndFeed, TimeoutFail, TimeoutEnqueue,
                    Lifecycle, StartBoot, EndBoot, CancelAll, StopPool, Exit, BeginShutdown,
                    Crash, ResetMemory
<1> QED
  BY <1>3, <1>5, <1>6, <1>7, <1>8 DEF Next

\* A completed row is never changed nor removed, whatever decides, times out,
\* is killed, replayed or restarted (flowrun.go, the record-once statements).
THEOREM RecordOnceHolds == Spec => RecordOnce
<1>1. BegunInv /\ [Next]_vars => [CompletedKept]_vars
  BY RecordOnceStep
<1>2. Spec => [][CompletedKept]_vars
  BY <1>1, BegunAlways, PTL DEF Spec
<1> QED
  BY <1>2 DEF RecordOnce, CompletedKept

-----------------------------------------------------------------------------
(***************************************************************************)
(* No activity runs twice. The rows a driver carries cover the table's     *)
(* rows of its run: only the driver adds rows to a run that has begun, and *)
(* what it adds it carries. So a node picked from the carried rows has no  *)
(* row in the table when it is dispatched.                                 *)
(***************************************************************************)
\* Every set of naturals has a least element.
LEMMA LeastNatural ==
    ASSUME NEW S \in SUBSET Nat, S # {} PROVE \E x \in S : \A y \in S : x <= y
<1> DEFINE R == OpToRel(<, Nat)
<1>1. IsWellFoundedOn(R, Nat)
  BY NatLessThanWellFounded
<1>2. \A x, y \in Nat : x < y => <<x, y>> \in R
  BY DEF OpToRel
<1> HIDE DEF R
<1>3. PICK x \in S : \A y \in S : ~(<<y, x>> \in R)
  BY <1>1, WFMin
<1>4. \A y \in S : ~(y < x)
  BY <1>2, <1>3
<1>5. \A y \in S : x <= y
  BY <1>4
<1> QED
  BY <1>5

\* The order of a batch has a first element: declaration order, then iteration.
LEMMA FirstInBatch ==
    ASSUME NEW h, h.nodes \in Seq(NodeIds(h)), NEW keys \in SUBSET Keys(h), keys # {}
    PROVE  First(h, keys) \in keys
<1> DEFINE At(k) == DeclAt(h, k[1])
<1>1. \A k \in keys : At(k) \in Nat /\ k[2] \in Nat
  <2>1. \A n \in NodeIds(h) : DeclAt(h, n) \in DOMAIN h.nodes
    BY DEF NodeIds, DeclAt
  <2>2. DOMAIN h.nodes \subseteq Nat
    OBVIOUS
  <2>3. Iterations \subseteq Nat
    BY MaxIterationsAssumption DEF Iterations
  <2> QED
    BY <2>1, <2>2, <2>3 DEF Keys
<1> HIDE DEF At
<1>2. PICK d \in {At(k) : k \in keys} : \A e \in {At(k) : k \in keys} : d <= e
  <2> DEFINE D == {At(k) : k \in keys}
  <2>1. D \in SUBSET Nat /\ D # {}
    BY <1>1
  <2> QED
    BY <2>1, LeastNatural
<1> DEFINE I == {k[2] : k \in {j \in keys : At(j) = d}}
<1>3. PICK i \in I : \A j \in I : i <= j
  <2>1. I \in SUBSET Nat /\ I # {}
    BY <1>1, <1>2
  <2> QED
    BY <2>1, LeastNatural
<1>4. PICK k \in keys : At(k) = d /\ k[2] = i
  BY <1>3
<1>5. \A j \in keys : Before(h, k, j)
  <2> SUFFICES ASSUME NEW j \in keys PROVE Before(h, k, j)
    OBVIOUS
  <2>1. d <= At(j) /\ (At(j) = d => i <= j[2])
    BY <1>2, <1>3
  <2>2. At(k) < At(j) \/ (At(k) = At(j) /\ k[2] <= j[2])
    <3>1. d \in Nat /\ At(j) \in Nat
      BY <1>1, <1>4
    <3>2. d < At(j) \/ At(j) = d
      BY <2>1, <3>1
    <3> QED
      BY <1>4, <2>1, <3>2
  <2> QED
    BY <2>2 DEF Before, At
<1> QED
  BY <1>4, <1>5 DEF First

\* What goroutine p carries: nothing outside a walk; inside one, rows that the
\* table has too, all the table has while the walk goes on, and a batch of nodes
\* without a row.
Carry(p) ==
    /\ pc[p] \notin DrivePCs \ {"getrun", "load"} => mem[p] = NoRows
    /\ Driving(p) =>
          \A k \in Keys(G) : Completed(mem[p], k) => frn[at[p]][k] = mem[p][k]
    /\ pc[p] \in {"walk", "node", "exec", "batch"} =>
          \A k \in Keys(G) : HasRow(frn[at[p]], k) => HasRow(mem[p], k)
    /\ pc[p] \in {"node", "exec"} =>
          todo[p] # {} /\ \A k \in todo[p] : ~HasRow(mem[p], k)

CarryInv == FlightInv /\ BegunInv /\ \A p \in Procs : Carry(p)

\* The rows a step adds to a run that has begun are all its driver's.
Adds(r) == \E k \in Keys(G) : ~HasRow(frn[r], k) /\ HasRow(frn'[r], k)

LEMMA CarryFrame ==
    ASSUME CarryInv, [Next]_vars, NEW p \in Procs,
           \A q \in Procs \ {p} : /\ pc'[q] = pc[q] /\ at'[q] = at[q]
                                  /\ mem'[q] = mem[q] /\ todo'[q] = todo[q],
           \A r \in Begun : Adds(r) => Driving(p) /\ at[p] = r,
           Carry(p)'
    PROVE  \A q \in Procs : Carry(q)'
<1> SUFFICES ASSUME NEW q \in Procs \ {p} PROVE Carry(q)'
  OBVIOUS
<1>1. CompletedKept
  BY RecordOnceStep DEF CarryInv
<1>2. Carry(q) /\ TypeInv /\ SingleFlight /\ OnlyBegun
  BY DEF CarryInv, FlightInv, BegunInv
<1>3. Driving(q)' => Driving(q) /\ at[q] \in Runs /\ at[q] \in Begun
  BY <1>2, RunsAssumption DEF Driving, DrivePCs, TypeInv, HasRunInHand, OnlyBegun
<1>4. Driving(q) => ~(Driving(p) /\ at[p] = at[q])
  BY <1>2 DEF SingleFlight
<1>5. Driving(q) => \A k \in Keys(G) : HasRow(frn'[at[q]], k) => HasRow(frn[at[q]], k)
  BY <1>3, <1>4 DEF Adds, Driving
<1>6. Driving(q)' => \A k \in Keys(G) : Completed(mem'[q], k) => frn'[at'[q]][k] = mem'[q][k]
  <2> SUFFICES ASSUME Driving(q)', NEW k \in Keys(G), Completed(mem'[q], k)
               PROVE  frn'[at'[q]][k] = mem'[q][k]
    OBVIOUS
  <2>1. frn[at[q]][k] = mem[q][k] /\ Completed(frn[at[q]], k)
    BY <1>2, <1>3 DEF Carry, Completed
  <2>2. frn'[at[q]][k] = frn[at[q]][k]
    BY <1>1, <1>3, <2>1 DEF CompletedKept
  <2> QED
    BY <2>1, <2>2
<1> QED
  BY <1>2, <1>5, <1>6 DEF Carry, Driving, DrivePCs

LEMMA AddsNothing ==
    ASSUME frn' = frn PROVE \A r : ~Adds(r)
BY DEF Adds

LEMMA UpdateAddsNothing ==
    ASSUME TypeOK, NEW r \in Runs, NEW S, NEW row, UpdateRows(r, S, row),
           \/ row = NoRow
           \/ \A k \in S : HasRow(frn[r], k)
    PROVE  \A q \in Runs : ~Adds(q)
<1>1. ASSUME NEW k \in Keys(G), HasRow(frn'[r], k) PROVE HasRow(frn[r], k)
  <2>1. frn'[r][k] = IF k \in S THEN row ELSE frn[r][k]
    BY DEF UpdateRows, TypeOK
  <2> QED
    BY <1>1, <2>1 DEF HasRow, NoRow, Row
<1>2. \A q \in Runs : q # r => frn'[q] = frn[q]
  BY UpdateRowsOnly
<1> QED
  BY <1>1, <1>2 DEF Adds

LEMMA SeedAdds ==
    ASSUME TypeInv, NEW r \in Runs, NEW n, SeedRun(r, n)
    PROVE  \A q \in Begun : ~Adds(q)
BY DEF TypeInv, TypeOK, SeedRun, Begun, Adds

\* A step that starts no walk and adds no row leaves p carrying nothing.
LEMMA CarryOutside ==
    ASSUME CarryInv, [Next]_vars, NEW p \in Procs,
           \A q \in Procs \ {p} : pc'[q] = pc[q] /\ at'[q] = at[q],
           UNCHANGED <<mem, todo>>,
           pc[p] \notin DrivePCs \ {"getrun", "load"},
           pc'[p] \notin DrivePCs \ {"getrun", "load"},
           \A r \in Begun : ~Adds(r)
    PROVE  \A q \in Procs : Carry(q)'
<1>1. mem[p] = NoRows
  BY DEF CarryInv, Carry
<1>2. \A k \in Keys(G) : ~Completed(mem[p], k)
  BY <1>1 DEF NoRows, NoRow, Row, Completed
<1>3. Carry(p)'
  BY <1>1, <1>2 DEF Carry, Completed, DrivePCs
<1> QED
  BY <1>3, CarryFrame

LEMMA ReadyFresh ==
    ASSUME NEW m, NEW k \in Ready(G, Back, m) PROVE ~HasRow(m, k)
BY DEF Ready

LEMMA CarryAdvance ==
    ASSUME CarryInv, [Next]_vars, NEW p \in Procs, Advance(p)
    PROVE  \A q \in Procs : Carry(q)'
<1> USE DEF DrivePCs
<1>1. /\ TypeOK /\ Carry(p) /\ pc[p] \in DrivePCs /\ at[p] \in Runs
      /\ \A k \in Keys(G) : ~Completed(NoRows, k) /\ ~HasRow(NoRows, k)
  <2>1. pc[p] \in DrivePCs
    BY DEF Advance, GetRun, Load, WalkTurn, BeginNode, FinishNode, FailNode, AbortNode,
           EndBatch, Finalize, Settle, EndAdvance
  <2>2. TypeOK /\ Carry(p) /\ at[p] \in Runs
    BY <2>1 DEF CarryInv, FlightInv, TypeInv, HasRunInHand
  <2> QED
    BY <2>1, <2>2 DEF NoRows, NoRow, Row, Completed, HasRow
<1>2. \A q \in Procs \ {p} : /\ pc'[q] = pc[q] /\ at'[q] = at[q]
                             /\ mem'[q] = mem[q] /\ todo'[q] = todo[q]
  BY <1>1 DEF TypeOK, Advance, GetRun, Load, WalkTurn, BeginNode, FinishNode, FailNode, AbortNode,
              EndBatch, Finalize, Settle, EndAdvance
<1>3. \A r \in Begun : Adds(r) => Driving(p) /\ at[p] = r
  <2>1. CASE FinishNode(p) \/ FailNode(p)
    <3>1. \A r \in Runs : r # at[p] => frn'[r] = frn[r]
      BY <1>1, <2>1 DEF FinishNode, FailNode, TypeOK
    <3> QED
      BY <1>1, <3>1 DEF Adds, Begun, Driving
  <2>2. CASE ~(FinishNode(p) \/ FailNode(p))
    <3>1. frn' = frn
      BY <2>2 DEF Advance, GetRun, Load, WalkTurn, BeginNode, AbortNode, EndBatch, Finalize,
                  Settle, EndAdvance
    <3> QED
      BY <3>1, AddsNothing
  <2> QED
    BY <2>1, <2>2
<1>4. Carry(p)'
  <2>1. CASE GetRun(p)
    <3>1. pc'[p] \in {"load", "end"} /\ mem' = mem /\ mem[p] = NoRows
      BY <1>1, <2>1 DEF GetRun, TypeOK, Carry
    <3> QED
      BY <1>1, <3>1 DEF Carry, Completed
  <2>2. CASE Load(p)
    <3>1. \/ pc'[p] = "end" /\ mem' = mem /\ mem[p] = NoRows
          \/ /\ pc'[p] = "walk" /\ mem'[p] = frn[at[p]] /\ frn' = frn /\ at' = at
      BY <1>1, <2>2 DEF Load, TypeOK, Carry
    <3> QED
      BY <1>1, <3>1 DEF Carry, Completed
  <2>3. CASE WalkTurn(p)
    <3>1. /\ mem' = mem /\ frn' = frn /\ at' = at /\ pc[p] = "walk"
          /\ pc'[p] \in {"end", "fail", "final", "node"}
          /\ pc'[p] = "node" => todo'[p] = Ready(G, Back, mem[p]) /\ todo'[p] # {}
      BY <1>1, <2>3 DEF WalkTurn, TypeOK
    <3> QED
      BY <1>1, <3>1, ReadyFresh DEF Carry, Driving
  <2>4. CASE BeginNode(p)
    <3>1. /\ UNCHANGED <<mem, frn, at, todo>> /\ pc[p] = "node"
          /\ pc'[p] \in {"exec", "end"}
      BY <1>1, <2>4 DEF BeginNode, TypeOK
    <3> QED
      BY <1>1, <3>1 DEF Carry, Driving
  <2>5. CASE FinishNode(p)
    <3> DEFINE k == First(G, todo[p])
    <3>1. k \in todo[p] /\ k \in Keys(G) /\ ~HasRow(mem[p], k) /\ ~HasRow(frn[at[p]], k)
      <4>1. pc[p] = "exec"
        BY <2>5 DEF FinishNode
      <4>2. todo[p] # {} /\ todo[p] \in SUBSET Keys(G)
        BY <1>1, <4>1 DEF Carry, TypeOK
      <4>3. k \in todo[p]
        BY <4>2, GraphAssumption, FirstInBatch
      <4> QED
        BY <1>1, <4>1, <4>2, <4>3 DEF Carry
    <3>2. PICK row : /\ row \in DispatchRows(G, k[1])
                     /\ frn' = [frn EXCEPT ![at[p]][k] = row]
                     /\ mem' = [mem EXCEPT ![p][k] = row]
      BY <2>5, <3>1 DEF FinishNode
    <3>3. /\ at' = at /\ pc[p] = "exec"
          /\ todo'[p] = todo[p] \ {k}
          /\ pc'[p] = IF todo[p] = {k} THEN "batch" ELSE "node"
      BY <1>1, <2>5 DEF FinishNode, TypeOK
    <3>4. row.status # "none"
      BY <3>2 DEF DispatchRows, Row
    <3> HIDE DEF k
    <3>5. /\ frn'[at[p]] = [frn[at[p]] EXCEPT ![k] = row]
          /\ mem'[p] = [mem[p] EXCEPT ![k] = row]
      BY <1>1, <3>2 DEF TypeOK
    <3>6. \A j \in Keys(G) :
             IF j = k THEN mem'[p][j] = row /\ frn'[at[p]][j] = row
             ELSE mem'[p][j] = mem[p][j] /\ frn'[at[p]][j] = frn[at[p]][j]
      BY <1>1, <3>5 DEF TypeOK
    <3>7. \A j \in Keys(G) : Completed(mem'[p], j) => frn'[at'[p]][j] = mem'[p][j]
      BY <1>1, <3>3, <3>6 DEF Carry, Completed, Driving
    <3>8. \A j \in Keys(G) : HasRow(frn'[at'[p]], j) => HasRow(mem'[p], j)
      BY <1>1, <3>3, <3>4, <3>6 DEF Carry, HasRow
    <3>9. todo'[p] \subseteq Keys(G) /\ \A j \in todo'[p] : ~HasRow(mem'[p], j)
      BY <1>1, <3>3, <3>6 DEF Carry, HasRow, TypeOK
    <3>10. pc'[p] = "node" => todo'[p] # {}
      BY <3>1, <3>3
    <3> QED
      BY <3>3, <3>7, <3>8, <3>9, <3>10 DEF Carry, Driving
  <2>6. CASE FailNode(p)
    <3>1. /\ mem' = mem /\ at' = at /\ pc[p] = "exec" /\ pc'[p] = "fail"
      BY <1>1, <2>6 DEF FailNode, TypeOK
    <3>2. CompletedKept
      BY RecordOnceStep DEF CarryInv
    <3>3. \A k \in Keys(G) : Completed(mem[p], k) => frn'[at[p]][k] = mem[p][k]
      BY <1>1, <3>1, <3>2 DEF CompletedKept, Carry, Driving, Completed
    <3> QED
      BY <3>1, <3>3 DEF Carry, Driving
  <2>7. CASE EndBatch(p)
    <3>1. /\ at' = at /\ frn' = frn /\ pc[p] = "batch"
          /\ pc'[p] \in {"end", "walk", "final"}
          /\ mem'[p] = frn[at[p]] \/ mem'[p] = mem[p]
      BY <1>1, <2>7 DEF EndBatch, TypeOK
    <3> QED
      BY <1>1, <3>1 DEF Carry, Driving, Completed
  <2>8. CASE AbortNode(p) \/ Finalize(p) \/ Settle(p)
    <3>1. UNCHANGED <<mem, frn, at>> /\ pc'[p] \in {"end", "complete"}
      BY <1>1, <2>8 DEF AbortNode, Finalize, Settle, TypeOK
    <3>2. pc[p] \in DrivePCs \ {"getrun", "load"}
      BY <2>8 DEF AbortNode, Finalize, Settle
    <3> QED
      BY <1>1, <3>1, <3>2 DEF Carry, Driving
  <2>9. CASE EndAdvance(p)
    <3>1. pc'[p] \in {"getrun", "idle", "feed"} /\ mem'[p] = NoRows
      BY <1>1, <2>9, HomeTypes DEF EndAdvance, TypeOK
    <3> QED
      BY <1>1, <3>1 DEF Carry, Completed
  <2> QED
    BY <2>1, <2>2, <2>3, <2>4, <2>5, <2>6, <2>7, <2>8, <2>9 DEF Advance
<1> QED
  BY <1>2, <1>3, <1>4, CarryFrame

LEMMA CarryOther ==
    ASSUME CarryInv, [Next]_vars, NEW p \in Procs,
           \/ Drive(p) \/ Send(p) \/ TakeJob(p) \/ Feed(p)
           \/ ReplayClear(p) \/ ReplayRead(p) \/ ReplayMark(p)
           \/ KillMark(p) \/ KillParked(p) \/ KillCancel(p)
    PROVE  \A q \in Procs : Carry(q)'
<1>1. TypeInv /\ TypeOK
  BY DEF CarryInv, FlightInv, TypeInv
<1>2. /\ \A q \in Procs \ {p} : pc'[q] = pc[q] /\ at'[q] = at[q]
      /\ UNCHANGED <<mem, todo>>
  BY <1>1 DEF TypeOK, Drive, Send, TakeJob, Feed, EnqueueAdvance, ReplayClear, ReplayRead, ReplayMark,
              KillMark, KillParked, KillCancel
<1>3. pc[p] \notin DrivePCs /\ pc'[p] \notin DrivePCs \ {"getrun", "load"}
  BY <1>1, HomeTypes DEF TypeOK, DrivePCs, Drive, Send, TakeJob, Feed, EnqueueAdvance, ReplayClear,
              ReplayRead, ReplayMark, KillMark, KillParked, KillCancel
<1>4. \A r \in Begun : ~Adds(r)
  <2>1. CASE frn' = frn
    BY <2>1, AddsNothing
  <2>2. CASE frn' # frn
    <3>1. /\ at[p] \in Runs
          /\ \/ UpdateRows(at[p], FailedKeys(at[p]), NoRow)
             \/ UpdateRows(at[p], ParkedKeys(at[p]), Row("failed", NoPort))
      BY <1>1, <2>2 DEF TypeInv, HasRunInHand, Drive, Send, TakeJob, Feed, ReplayClear, ReplayRead,
                        ReplayMark, KillMark, KillParked, KillCancel
    <3>2. \A k \in ParkedKeys(at[p]) : HasRow(frn[at[p]], k)
      BY DEF ParkedKeys, HasRow
    <3> QED
      BY <1>1, <3>1, <3>2, UpdateAddsNothing DEF Begun
  <2> QED
    BY <2>1, <2>2
<1> QED
  BY <1>2, <1>3, <1>4, CarryOutside

LEMMA ParkedHasRow == \A r, n : \A k \in ParkedAt(r, n) : HasRow(frn[r], k)
BY DEF ParkedAt, ParkedKeys, HasRow

LEMMA CarryRequest ==
    ASSUME CarryInv, [Next]_vars, NEW p \in Callers, Request(p)
    PROVE  \A q \in Procs : Carry(q)'
<1>1. TypeInv /\ TypeOK /\ p \in Procs
  BY DEF CarryInv, FlightInv, TypeInv, Procs
<1>2. \A r \in Begun : ~Adds(r)
  <2>1. ASSUME NEW r \in Runs, NEW n \in NodeIds(G), StartRun(p, r, n)
        PROVE  \A q \in Begun : ~Adds(q)
    BY <1>1, <2>1, SeedAdds DEF StartRun
  <2>2. ASSUME NEW r \in Runs, NEW n \in NodeIds(G), NEW d \in Approvals,
               DecideApproval(p, r, n, d)
        PROVE  \A q \in Begun : ~Adds(q)
    BY <1>1, <2>2, ParkedHasRow, UpdateAddsNothing DEF DecideApproval, Begun
  <2>3. CASE (\E r \in Runs : Replay(p, r)) \/ KillWorkflow(p) \/ Disconnect(p)
    BY <2>3, AddsNothing DEF Replay, KillWorkflow, Disconnect
  <2> QED
    BY <2>1, <2>2, <2>3 DEF Request
<1>3. CASE Disconnect(p)
  <2>1. UNCHANGED <<pc, at, mem, todo, frn>>
    BY <1>3 DEF Disconnect
  <2>2. Carry(p)'
    BY <1>1, <2>1 DEF CarryInv, Carry, Driving, Completed, HasRow
  <2> QED
    BY <1>1, <1>2, <2>1, <2>2, CarryFrame
<1>4. CASE ~Disconnect(p)
  <2>1. /\ \A q \in Procs \ {p} : pc'[q] = pc[q] /\ at'[q] = at[q]
        /\ UNCHANGED <<mem, todo>>
    BY <1>1, <1>4 DEF TypeOK, Request, StartRun, DecideApproval, Replay, KillWorkflow
  <2>2. pc[p] = "idle" /\ pc'[p] \in {"drive", "replayclear", "kill"}
    BY <1>1, <1>4 DEF TypeOK, Request, StartRun, DecideApproval, Replay, KillWorkflow, Accept, Idle
  <2> QED
    BY <1>1, <1>2, <2>1, <2>2, CarryOutside DEF DrivePCs
<1> QED
  BY <1>3, <1>4

LEMMA CarryBackground ==
    ASSUME CarryInv, [Next]_vars,
           \/ Ticks
           \/ \E late \in SUBSET TimedNodes : CheckTimeouts(late)
           \/ \E r \in Runs, n \in NodeIds(G) : ClaimFiring(r, n)
    PROVE  \A q \in Procs : Carry(q)'
<1>1. TypeInv /\ TypeOK /\ Drain \in Procs /\ Timer \in Procs
  BY DEF CarryInv, FlightInv, TypeInv, Procs
<1>2. CASE BeginFeed \/ EndFeed
  <2>1. /\ \A q \in Procs \ {Drain} : pc'[q] = pc[q] /\ at'[q] = at[q]
        /\ UNCHANGED <<mem, todo, frn>>
        /\ pc[Drain] \in {"idle", "feed"} /\ pc'[Drain] \in {"idle", "feed"}
    BY <1>1, <1>2 DEF TypeOK, BeginFeed, EndFeed
  <2> QED
    BY <1>1, <2>1, CarryOutside, AddsNothing DEF DrivePCs
<1>3. CASE TimeoutFail \/ TimeoutEnqueue
  <2>1. /\ \A q \in Procs \ {Timer} : pc'[q] = pc[q] /\ at'[q] = at[q]
        /\ UNCHANGED <<mem, todo, frn>>
        /\ pc[Timer] \in {"tfail", "enqueue"}
        /\ pc'[Timer] \in {"idle", "feed", "drive", "send"}
    BY <1>1, <1>3, HomeTypes DEF TypeOK, TimeoutFail, TimeoutEnqueue, EnqueueAdvance
  <2> QED
    BY <1>1, <2>1, CarryOutside, AddsNothing DEF DrivePCs
<1>4. CASE SettleTimeout
  <2>1. PICK x \in due :
          \/ UNCHANGED <<frn, pc, at>>
          \/ /\ UpdateRows(x[1], ParkedAt(x[1], x[2]), TimeoutRow(x[2]))
             /\ pc' = [pc EXCEPT ![Timer] = IF OnTimeout[x[2]] = "fail" THEN "tfail" ELSE "enqueue"]
             /\ at' = [at EXCEPT ![Timer] = x[1]]
    BY <1>4 DEF SettleTimeout
  <2>2. x[1] \in Runs /\ pc[Timer] = "idle" /\ UNCHANGED <<mem, todo>>
    BY <1>1, <1>4 DEF TypeOK, SettleTimeout
  <2>3. \A r \in Begun : ~Adds(r)
    BY <1>1, <2>1, <2>2, AddsNothing, ParkedHasRow, UpdateAddsNothing DEF Begun
  <2>4. /\ \A q \in Procs \ {Timer} : pc'[q] = pc[q] /\ at'[q] = at[q]
        /\ pc'[Timer] \in {"idle", "tfail", "enqueue"}
    BY <1>1, <2>1, <2>2 DEF TypeOK
  <2> QED
    BY <1>1, <2>2, <2>3, <2>4, CarryOutside DEF DrivePCs
<1>5. CASE \E late \in SUBSET TimedNodes : CheckTimeouts(late)
  <2>1. UNCHANGED <<pc, at, mem, todo, frn>> /\ pc[Timer] = "idle"
    BY <1>5 DEF CheckTimeouts, Idle
  <2> QED
    BY <1>1, <2>1, CarryOutside, AddsNothing DEF DrivePCs
<1>6. ASSUME NEW r \in Runs, NEW n \in NodeIds(G), ClaimFiring(r, n)
      PROVE  \A q \in Procs : Carry(q)'
  <2>1. UNCHANGED <<pc, at, mem, todo>> /\ pc[Drain] = "idle"
    BY <1>6 DEF ClaimFiring, Idle
  <2>2. \A q \in Begun : ~Adds(q)
    BY <1>1, <1>6, SeedAdds DEF ClaimFiring
  <2> QED
    BY <1>1, <2>1, <2>2, CarryOutside DEF DrivePCs
<1> QED
  BY <1>2, <1>3, <1>4, <1>5, <1>6 DEF Ticks

LEMMA CarryLifecycle ==
    ASSUME CarryInv, [Next]_vars, Lifecycle \/ BeginShutdown \/ Crash \/ UNCHANGED vars
    PROVE  \A q \in Procs : Carry(q)'
<1>1. TypeInv /\ TypeOK /\ Boot \in Procs
  BY DEF CarryInv, FlightInv, TypeInv, Procs
<1>2. CASE Exit \/ Crash
  <2>1. pc' = [p \in Procs |-> "idle"] /\ mem' = [p \in Procs |-> NoRows]
    BY <1>2 DEF Exit, Crash, ResetMemory
  <2> QED
    BY <2>1 DEF Carry, Driving, DrivePCs
<1>3. CASE StartBoot \/ EndBoot
  <2>1. /\ \A q \in Procs \ {Boot} : pc'[q] = pc[q] /\ at'[q] = at[q]
        /\ UNCHANGED <<at, mem, todo, frn>>
        /\ pc'[Boot] \in {"idle", "feed"}
        /\ pc[Boot] \in {"idle", "feed"}
    BY <1>1, <1>3 DEF TypeOK, StartBoot, EndBoot
  <2> QED
    BY <1>1, <2>1, CarryOutside, AddsNothing DEF DrivePCs
<1>4. CASE CancelAll \/ StopPool \/ BeginShutdown \/ UNCHANGED vars
  <2>1. UNCHANGED <<pc, at, mem, todo, frn>>
    BY <1>4 DEF CancelAll, StopPool, BeginShutdown
  <2>2. Carry(Boot)'
    BY <1>1, <2>1 DEF CarryInv, Carry, Driving, Completed, HasRow
  <2> QED
    BY <1>1, <2>1, <2>2, CarryFrame, AddsNothing
<1> QED
  BY <1>2, <1>3, <1>4 DEF Lifecycle

LEMMA CarryInit == Init => CarryInv
<1> SUFFICES ASSUME Init PROVE CarryInv
  OBVIOUS
<1>1. \A p \in Procs : Carry(p)
  BY DEF Init, Carry, Driving, DrivePCs
<1> QED
  BY <1>1, FlightInit, BegunInit DEF CarryInv

LEMMA CarryStep == CarryInv /\ [Next]_vars => CarryInv'
<1> SUFFICES ASSUME CarryInv, [Next]_vars PROVE CarryInv'
  OBVIOUS
<1>1. FlightInv' /\ BegunInv'
  BY FlightStep, BegunStep DEF CarryInv
<1>2. ASSUME NEW p \in Procs, Continue(p) PROVE \A q \in Procs : Carry(q)'
  BY <1>2, CarryAdvance, CarryOther DEF Continue
<1>3. ASSUME NEW p \in Callers, Request(p) PROVE \A q \in Procs : Carry(q)'
  BY <1>3, CarryRequest
<1>4. \A q \in Procs : Carry(q)'
  BY <1>2, <1>3, CarryBackground, CarryLifecycle DEF Next
<1> QED
  BY <1>1, <1>4 DEF CarryInv

LEMMA CarryAlways == Spec => []CarryInv
BY CarryInit, CarryStep, PTL DEF Spec

\* An activity is never dispatched for a node and iteration that already has a
\* row: not on a redrive, not after a crash or a replay (advance.go Advance).
THEOREM NoRerunInvariant == Spec => []NoRerun
<1>1. CarryInv => NoRerun
  <2> SUFFICES ASSUME CarryInv, NEW p \in Procs, pc[p] = "exec"
               PROVE  ~HasRow(frn[at[p]], First(G, todo[p]))
    BY DEF NoRerun
  <2>1. todo[p] \in SUBSET Keys(G)
    BY DEF CarryInv, FlightInv, TypeInv, TypeOK
  <2>2. todo[p] # {} /\ \A k \in todo[p] : ~HasRow(mem[p], k)
    BY DEF CarryInv, Carry
  <2>3. First(G, todo[p]) \in todo[p]
    BY <2>1, <2>2, GraphAssumption, FirstInBatch
  <2>4. \A k \in Keys(G) : HasRow(frn[at[p]], k) => HasRow(mem[p], k)
    BY DEF CarryInv, Carry
  <2> QED
    BY <2>1, <2>2, <2>3, <2>4
<1> QED
  BY <1>1, CarryAlways, PTL

\* What a driver believes completed is completed in the table, with the same
\* outcome (advance.go Advance, the carried rows).
THEOREM CarriedRowsDurableInvariant == Spec => []CarriedRowsDurable
<1>1. CarryInv => CarriedRowsDurable
  BY DEF CarryInv, Carry, CarriedRowsDurable
<1> QED
  BY <1>1, CarryAlways, PTL

-----------------------------------------------------------------------------
(***************************************************************************)
(* A completed run leaves nothing in the approval inbox. Between            *)
(* finalize's look at the table and the terminal mark, nobody else can     *)
(* park a node of the run, and a driver past its entry check never works   *)
(* on a completed run.                                                     *)
(***************************************************************************)
Inside == DrivePCs \ {"getrun", "end"}

ParkInv ==
    /\ CarryInv
    /\ CompletedHasNoParked
    /\ \A p \in Procs : pc[p] = "complete" => ParkedKeys(at[p]) = {}
    /\ \A p \in Procs : pc[p] \in Inside => status[at[p]] # "completed"

\* Only its own Advance moves a goroutine inside a walk.
LEMMA InsideSteps ==
    ASSUME TypeInv, [Next]_vars, NEW q \in Procs, pc'[q] \in Inside \cup {"end"}
    PROVE  (pc'[q] = pc[q] /\ at'[q] = at[q]) \/ Advance(q)
<1> DEFINE Goal == (pc'[q] = pc[q] /\ at'[q] = at[q]) \/ Advance(q)
<1> USE DEF TypeInv, TypeOK, Inside, DrivePCs
<1>1. {Drain, Timer, Boot} \cup Callers \subseteq Procs
  BY DEF Procs
<1>2. ASSUME NEW p \in Procs, Continue(p) PROVE Goal
  <2>1. CASE Advance(p)
    <3>1. CASE p = q
      BY <2>1, <3>1
    <3>2. CASE p # q
      <4>1. CASE EndAdvance(p)
        BY <3>2, <4>1 DEF EndAdvance
      <4>2. CASE FinishNode(p)
        BY <3>2, <4>2 DEF FinishNode
      <4>3. CASE WalkTurn(p)
        BY <3>2, <4>3 DEF WalkTurn
      <4>4. CASE Load(p) \/ EndBatch(p) \/ Finalize(p) \/ Settle(p)
        BY <3>2, <4>4 DEF Load, EndBatch, Finalize, Settle
      <4>5. CASE GetRun(p) \/ BeginNode(p) \/ FailNode(p) \/ AbortNode(p)
        BY <3>2, <4>5 DEF GetRun, BeginNode, FailNode, AbortNode
      <4> QED
        BY <2>1, <4>1, <4>2, <4>3, <4>4, <4>5 DEF Advance
    <3> QED
      BY <3>1, <3>2
  <2>2. CASE Drive(p) \/ Send(p) \/ TakeJob(p) \/ Feed(p)
    BY <2>2, HomeTypes, ZenonT(60) DEF Drive, Send, TakeJob, Feed, EnqueueAdvance
  <2>3. CASE ReplayClear(p) \/ ReplayRead(p) \/ ReplayMark(p)
    BY <2>3 DEF ReplayClear, ReplayRead, ReplayMark
  <2>4. CASE KillMark(p) \/ KillParked(p) \/ KillCancel(p)
    BY <2>4 DEF KillMark, KillParked, KillCancel
  <2> QED
    BY <1>2, <2>1, <2>2, <2>3, <2>4 DEF Continue
<1>3. ASSUME NEW p \in Callers, Request(p) PROVE Goal
  BY <1>1, <1>3 DEF Request, StartRun, DecideApproval, Replay, KillWorkflow, Disconnect
<1>4. ASSUME \/ Ticks
             \/ \E late \in SUBSET TimedNodes : CheckTimeouts(late)
             \/ \E r \in Runs, n \in NodeIds(G) : ClaimFiring(r, n)
      PROVE  Goal
  <2>1. CASE SettleTimeout
    BY <1>1, <2>1 DEF SettleTimeout
  <2>2. CASE ~SettleTimeout
    BY <1>1, <1>4, <2>2, HomeTypes DEF Ticks, BeginFeed, EndFeed, TimeoutFail, TimeoutEnqueue,
                                       EnqueueAdvance, CheckTimeouts, ClaimFiring
  <2> QED
    BY <2>1, <2>2
<1>5. ASSUME Lifecycle \/ BeginShutdown \/ Crash \/ UNCHANGED vars PROVE Goal
  BY <1>1, <1>5 DEF Lifecycle, StartBoot, EndBoot, CancelAll, StopPool, Exit, BeginShutdown, Crash,
                    ResetMemory
<1> QED
  BY <1>2, <1>3, <1>4, <1>5 DEF Next

\* Only a dispatched approval parks: every other writer leaves another status.
LEMMA ParksOnlyFromExec ==
    ASSUME BegunInv, [Next]_vars, NEW r \in Runs, NEW k \in ParkedKeys(r)', k \notin ParkedKeys(r)
    PROVE  \E p \in Procs : FinishNode(p) /\ at[p] = r
<1> DEFINE Goal == \E p \in Procs : FinishNode(p) /\ at[p] = r
<1> USE DEF BegunInv, TypeInv, ParkedKeys
<1>1. frn' # frn
  OBVIOUS
<1>2. ASSUME NEW q \in Runs, NEW S, NEW row, UpdateRows(q, S, row), row.status # "parked"
      PROVE  FALSE
  BY <1>2 DEF TypeOK, UpdateRows
<1>3. ASSUME NEW q \in Runs, NEW n, SeedRun(q, n) PROVE FALSE
  BY <1>3 DEF TypeOK, SeedRun, Row
<1>4. /\ NoRow.status # "parked" /\ Row("failed", NoPort).status # "parked"
      /\ \A d : Row("completed", d).status # "parked"
  BY DEF NoRow, Row
<1>5. ASSUME NEW p \in Procs, Continue(p) PROVE Goal
  <2>1. CASE FinishNode(p)
    <3>1. \A q \in Runs : q # at[p] => frn'[q] = frn[q]
      BY <2>1 DEF FinishNode, TypeOK
    <3> QED
      BY <2>1, <3>1
  <2>2. CASE FailNode(p)
    BY <1>1, <2>2 DEF FailNode, TypeOK, Row
  <2>3. CASE ReplayClear(p) \/ KillParked(p)
    <3>1. at[p] \in Runs
      BY <2>3 DEF ReplayClear, KillParked, HasRunInHand
    <3> QED
      BY <1>1, <1>2, <1>4, <2>3, <3>1 DEF ReplayClear, KillParked
  <2>4. CASE Drive(p) \/ Send(p) \/ TakeJob(p) \/ Feed(p)
    BY <1>1, <2>4 DEF Drive, Send, TakeJob, Feed
  <2>5. CASE ReplayRead(p) \/ ReplayMark(p) \/ KillMark(p) \/ KillCancel(p)
    BY <1>1, <2>5 DEF ReplayRead, ReplayMark, KillMark, KillCancel
  <2>6. CASE Advance(p) /\ ~FinishNode(p) /\ ~FailNode(p)
    BY <1>1, <2>6 DEF Advance, GetRun, Load, WalkTurn, BeginNode, AbortNode, EndBatch, Finalize,
                      Settle, EndAdvance
  <2> QED
    BY <1>5, <2>1, <2>2, <2>3, <2>4, <2>5, <2>6 DEF Continue
<1>6. ASSUME NEW p \in Callers, Request(p) PROVE FALSE
  BY <1>1, <1>2, <1>3, <1>4, <1>6 DEF Request, StartRun, DecideApproval, Replay, KillWorkflow, Disconnect
<1>7. ASSUME NEW q \in Runs, NEW n \in NodeIds(G), ClaimFiring(q, n) PROVE FALSE
  BY <1>3, <1>7 DEF ClaimFiring
<1>8. CASE SettleTimeout
  <2>1. PICK x \in due : UpdateRows(x[1], ParkedAt(x[1], x[2]), TimeoutRow(x[2]))
    BY <1>1, <1>8 DEF SettleTimeout
  <2>2. x[1] \in Runs
    BY DEF TypeOK
  <2>3. TimeoutRow(x[2]).status # "parked"
    BY <1>4 DEF TimeoutRow
  <2> QED
    BY <1>2, <2>1, <2>2, <2>3
<1>9. CASE \/ \E late \in SUBSET TimedNodes : CheckTimeouts(late)
           \/ Ticks /\ ~SettleTimeout
           \/ Lifecycle \/ BeginShutdown \/ Crash
           \/ UNCHANGED vars
  BY <1>1, <1>9 DEF CheckTimeouts, Ticks, BeginFeed, EndFeed, TimeoutFail, TimeoutEnqueue,
                    Lifecycle, StartBoot, EndBoot, CancelAll, StopPool, Exit, BeginShutdown,
                    Crash, ResetMemory
<1> QED
  BY <1>5, <1>6, <1>7, <1>8, <1>9 DEF Next

\* Only finalize's driver marks a run completed.
LEMMA CompletedFrom ==
    ASSUME TypeInv, [Next]_vars, NEW r \in Runs,
           status'[r] = "completed", status[r] # "completed"
    PROVE  \E p \in Procs : Settle(p) /\ at[p] = r /\ pc[p] = "complete"
<1> DEFINE Goal == \E p \in Procs : Settle(p) /\ at[p] = r /\ pc[p] = "complete"
<1> USE DEF TypeInv, TypeOK
<1>1. status' # status
  OBVIOUS
<1>2. ASSUME NEW q, NEW s, MarkRunTerminal(q, s), s # "completed" PROVE FALSE
  BY <1>2 DEF MarkRunTerminal
<1>3. ASSUME NEW q \in Runs, NEW n, SeedRun(q, n) PROVE FALSE
  BY <1>3 DEF SeedRun
<1>4. ASSUME NEW p \in Procs, Continue(p) PROVE Goal
  <2>1. CASE Settle(p)
    <3>1. pc[p] = "complete" /\ MarkRunTerminal(at[p], "completed")
      BY <1>1, <1>2, <2>1 DEF Settle
    <3>2. at[p] = r
      BY <3>1 DEF MarkRunTerminal
    <3> QED
      BY <2>1, <3>1, <3>2
  <2>2. CASE KillMark(p)
    BY <1>1, <1>2, <2>2 DEF KillMark
  <2>3. CASE ReplayMark(p)
    BY <1>1, <2>3 DEF ReplayMark
  <2>4. CASE Advance(p) /\ ~Settle(p)
    BY <1>1, <2>4 DEF Advance, GetRun, Load, WalkTurn, BeginNode, FinishNode, FailNode, AbortNode,
                      EndBatch, Finalize, EndAdvance
  <2>5. CASE \/ Drive(p) \/ Send(p) \/ TakeJob(p) \/ Feed(p)
             \/ ReplayClear(p) \/ ReplayRead(p) \/ KillParked(p) \/ KillCancel(p)
    BY <1>1, <2>5 DEF Drive, Send, TakeJob, Feed, ReplayClear, ReplayRead, KillParked, KillCancel
  <2> QED
    BY <1>4, <2>1, <2>2, <2>3, <2>4, <2>5 DEF Continue
<1>5. ASSUME NEW p \in Callers, Request(p) PROVE FALSE
  BY <1>1, <1>3, <1>5 DEF Request, StartRun, DecideApproval, Replay, KillWorkflow, Disconnect
<1>6. ASSUME NEW q \in Runs, NEW n \in NodeIds(G), ClaimFiring(q, n) PROVE FALSE
  BY <1>3, <1>6 DEF ClaimFiring
<1>7. CASE \/ \E late \in SUBSET TimedNodes : CheckTimeouts(late)
           \/ Ticks \/ Lifecycle \/ BeginShutdown \/ Crash
           \/ UNCHANGED vars
  BY <1>1, <1>2, <1>7 DEF CheckTimeouts, Ticks, BeginFeed, EndFeed, SettleTimeout, TimeoutFail,
                    TimeoutEnqueue, Lifecycle, StartBoot, EndBoot, CancelAll, StopPool, Exit,
                    BeginShutdown, Crash, ResetMemory
<1> QED
  BY <1>4, <1>5, <1>6, <1>7 DEF Next

\* How a goroutine gets to its next step inside a walk.
LEMMA InsideAdvance ==
    ASSUME TypeInv, NEW p \in Procs, Advance(p), pc'[p] \in Inside
    PROVE  /\ at'[p] = at[p]
           /\ \/ pc[p] \in Inside
              \/ status[at[p]] = "running" /\ status' = status
           /\ pc'[p] = "complete" => ParkedKeys(at[p]) = {} /\ frn' = frn
<1> USE DEF TypeInv, TypeOK, Inside, DrivePCs
<1>1. CASE GetRun(p)
  BY <1>1 DEF GetRun
<1>2. CASE Load(p) \/ BeginNode(p) \/ FailNode(p) \/ AbortNode(p)
  BY <1>2 DEF Load, BeginNode, FailNode, AbortNode
<1>3. CASE WalkTurn(p)
  BY <1>3 DEF WalkTurn
<1>4. CASE FinishNode(p)
  BY <1>4 DEF FinishNode
<1>5. CASE EndBatch(p)
  BY <1>5 DEF EndBatch
<1>6. CASE Finalize(p) \/ Settle(p)
  BY <1>6 DEF Finalize, Settle
<1>7. CASE EndAdvance(p)
  BY <1>7, HomeTypes DEF EndAdvance
<1> QED
  BY <1>1, <1>2, <1>3, <1>4, <1>5, <1>6, <1>7 DEF Advance

LEMMA ParkStep == ParkInv /\ [Next]_vars => ParkInv'
<1> SUFFICES ASSUME ParkInv, [Next]_vars PROVE ParkInv'
  OBVIOUS
<1>1. CarryInv'
  BY CarryStep DEF ParkInv
<1>2. TypeInv /\ BegunInv /\ SingleFlight
  BY DEF ParkInv, CarryInv, FlightInv
<1>3. ASSUME NEW p \in Procs, NEW q \in Procs, Driving(p), Driving(q), at[p] = at[q] PROVE p = q
  BY <1>2, <1>3 DEF SingleFlight
<1>4. ASSUME NEW r \in Runs, status'[r] = "completed", NEW k \in ParkedKeys(r)' PROVE FALSE
  <2>1. CASE status[r] = "completed"
    <3>1. k \notin ParkedKeys(r)
      BY <2>1 DEF ParkInv, CompletedHasNoParked
    <3>2. PICK p \in Procs : FinishNode(p) /\ at[p] = r
      BY <1>2, <1>4, <3>1, ParksOnlyFromExec
    <3>3. pc[p] \in Inside
      BY <3>2 DEF FinishNode, Inside, DrivePCs
    <3> QED
      BY <2>1, <3>2, <3>3 DEF ParkInv
  <2>2. CASE status[r] # "completed"
    <3>1. PICK p \in Procs : Settle(p) /\ at[p] = r /\ pc[p] = "complete"
      BY <1>2, <1>4, <2>2, CompletedFrom
    <3>2. ParkedKeys(r) = {} /\ frn' = frn
      BY <3>1 DEF ParkInv, Settle
    <3> QED
      BY <1>4, <3>2 DEF ParkedKeys
  <2> QED
    BY <2>1, <2>2
<1>5. ASSUME NEW p \in Procs, pc'[p] = "complete", NEW k \in ParkedKeys(at[p])', at'[p] = at[p]
      PROVE  FALSE
  <2>1. pc'[p] \in Inside
    BY <1>5 DEF Inside, DrivePCs
  <2>2. CASE Advance(p)
    BY <1>2, <1>5, <2>1, <2>2, InsideAdvance DEF ParkedKeys
  <2>3. CASE pc'[p] = pc[p]
    <3>1. ParkedKeys(at[p]) = {} /\ at[p] \in Runs
      BY <1>2, <1>5, <2>3 DEF ParkInv, TypeInv, HasRunInHand
    <3>2. PICK q \in Procs : FinishNode(q) /\ at[q] = at[p]
      BY <1>2, <1>5, <3>1, ParksOnlyFromExec
    <3>3. Driving(p) /\ Driving(q) /\ pc[q] = "exec"
      BY <1>5, <2>3, <3>2 DEF FinishNode, Driving, DrivePCs
    <3> QED
      BY <1>3, <1>5, <2>3, <3>2, <3>3
  <2> QED
    BY <1>2, <2>1, <2>2, <2>3, InsideSteps
<1>6. ASSUME NEW p \in Procs, pc'[p] \in Inside PROVE at'[p] = at[p] /\ status'[at[p]] # "completed"
  <2>1. at'[p] = at[p]
    BY <1>2, <1>6, InsideAdvance, InsideSteps
  <2>2. CASE Advance(p) /\ status[at[p]] = "running" /\ status' = status
    BY <2>1, <2>2
  <2>3. CASE pc[p] \in Inside
    <3>1. status[at[p]] # "completed" /\ at[p] \in Runs
      BY <1>2, <2>3 DEF ParkInv, Inside, DrivePCs, TypeInv, HasRunInHand
    <3>2. SUFFICES ASSUME status'[at[p]] = "completed" PROVE FALSE
      BY <2>1
    <3>3. PICK q \in Procs : Settle(q) /\ at[q] = at[p] /\ pc[q] = "complete"
      BY <1>2, <3>1, <3>2, CompletedFrom
    <3>4. p = q
      BY <1>3, <2>3, <3>3 DEF Driving, Inside, DrivePCs
    <3> QED
      BY <1>2, <1>6, <3>3, <3>4 DEF Settle, TypeInv, TypeOK, Inside
  <2> QED
    BY <1>2, <1>6, <2>1, <2>2, <2>3, InsideAdvance, InsideSteps
<1>7. CompletedHasNoParked'
  BY <1>4 DEF CompletedHasNoParked
<1>8. \A p \in Procs : pc'[p] = "complete" => ParkedKeys(at[p])' = {}
  BY <1>5, <1>6 DEF Inside, DrivePCs
<1>9. \A p \in Procs : pc'[p] \in Inside => status'[at'[p]] # "completed"
  BY <1>6
<1> QED
  BY <1>1, <1>7, <1>8, <1>9 DEF ParkInv

LEMMA ParkInit == Init => ParkInv
BY CarryInit DEF Init, ParkInv, CompletedHasNoParked, Inside, DrivePCs

\* A completed run has nothing parked in the approval inbox (advance.go
\* finalize): finalize's look at the table and its terminal mark are two steps,
\* and this holds whatever decides, kills, replays or crashes in between.
THEOREM CompletedHasNoParkedInvariant == Spec => []CompletedHasNoParked
<1>1. ParkInv => CompletedHasNoParked
  BY DEF ParkInv
<1> QED
  BY <1>1, ParkInit, ParkStep, PTL DEF Spec

-----------------------------------------------------------------------------
(***************************************************************************)
(* No wakeup is lost.  While the server is up, a running run that waits    *)
(* for no human is in somebody's hands.  The argument needs three things:  *)
(* what a driver on its last step leaves behind when the run was woken     *)
(* while it drove; that a cancelled context belongs to a run that is over; *)
(* and that boot lists every running run before anything else happens.     *)
(*                                                                         *)
(* A request whose client goes away drops the redrive mark, and a kill     *)
(* that meets a replay of its run cancels the driver of a run that goes    *)
(* on: both break the invariant, so a theorem about it excludes them.      *)
(***************************************************************************)
Early == phase \in {"down", "boot", "up"}
Serving == phase \in {"boot", "up"}

Ended == {r \in Runs : status[r] \notin {"none", "running"}}
Awake(r) == status[r] = "running" /\ ParkedKeys(r) = {}

\* p is about to drive r, to enqueue it or to fail it.
Carries(p, r) == at[p] = r /\ pc[p] \in {"drive", "enqueue", "tfail"}

\* Somebody will wake r again, whatever its driver does.
Woken(r) ==
    \/ r \in queued
    \/ r \in list[Drain] \cup list[Boot]
    \/ \E p \in Procs : Carries(p, r)

\* A process that is down has nothing in memory.
DownQuiet ==
    phase = "down" =>
        /\ \A p \in Procs : pc[p] = "idle" /\ list[p] = {}
        /\ queue = << >> /\ due = {}
        /\ baseDead = {} /\ childDead = {}

\* Nothing happens while the process is down, except a boot.
LEMMA DownSteps ==
    ASSUME TypeInv, DownQuiet, phase = "down", Next PROVE StartBoot
<1> USE DEF TypeInv, TypeOK, DownQuiet
<1>1. {Drain, Timer, Boot} \cup Callers \cup Workers \subseteq Procs
  BY DEF Procs
<1>2. ASSUME NEW p \in Procs, Continue(p) PROVE FALSE
  <2>1. CASE Drive(p) \/ Send(p) \/ TakeJob(p) \/ Feed(p)
    BY <2>1 DEF Drive, Send, TakeJob, Feed
  <2>2. CASE Advance(p)
    BY <2>2 DEF Advance, GetRun, Load, WalkTurn, BeginNode, FinishNode, FailNode, AbortNode,
                EndBatch, Finalize, Settle, EndAdvance
  <2>3. CASE \/ ReplayClear(p) \/ ReplayRead(p) \/ ReplayMark(p)
             \/ KillMark(p) \/ KillParked(p) \/ KillCancel(p)
    BY <2>3 DEF ReplayClear, ReplayRead, ReplayMark, KillMark, KillParked, KillCancel
  <2> QED
    BY <1>2, <2>1, <2>2, <2>3 DEF Continue
<1>3. ASSUME NEW p \in Callers, Request(p) PROVE FALSE
  BY <1>1, <1>3 DEF Request, StartRun, DecideApproval, Replay, KillWorkflow, Disconnect, Accept, Idle
<1>4. ASSUME \/ Ticks
             \/ \E late \in SUBSET TimedNodes : CheckTimeouts(late)
             \/ \E r \in Runs, n \in NodeIds(G) : ClaimFiring(r, n)
      PROVE  FALSE
  BY <1>1, <1>4 DEF Ticks, BeginFeed, EndFeed, SettleTimeout, TimeoutFail, TimeoutEnqueue,
                    CheckTimeouts, ClaimFiring, Idle
<1> QED
  BY <1>2, <1>3, <1>4 DEF Next, Lifecycle, EndBoot, CancelAll, StopPool, Exit, BeginShutdown, Crash

\* How the phase moves.
LEMMA PhaseSteps ==
    ASSUME [Next]_vars
    PROVE  \/ phase' = phase
           \/ Lifecycle \/ BeginShutdown \/ Crash
<1>1. ASSUME NEW p \in Procs, Continue(p) PROVE phase' = phase
  <2>1. CASE Drive(p) \/ Send(p) \/ TakeJob(p) \/ Feed(p)
    BY <2>1 DEF Drive, Send, TakeJob, Feed
  <2>2. CASE Advance(p)
    BY <2>2 DEF Advance, GetRun, Load, WalkTurn, BeginNode, FinishNode, FailNode, AbortNode,
                EndBatch, Finalize, Settle, EndAdvance
  <2>3. CASE \/ ReplayClear(p) \/ ReplayRead(p) \/ ReplayMark(p)
             \/ KillMark(p) \/ KillParked(p) \/ KillCancel(p)
    BY <2>3 DEF ReplayClear, ReplayRead, ReplayMark, KillMark, KillParked, KillCancel
  <2> QED
    BY <1>1, <2>1, <2>2, <2>3 DEF Continue
<1>2. ASSUME NEW p \in Callers, Request(p) PROVE phase' = phase
  BY <1>2 DEF Request, StartRun, DecideApproval, Replay, KillWorkflow, Disconnect
<1>3. ASSUME \/ Ticks
             \/ \E late \in SUBSET TimedNodes : CheckTimeouts(late)
             \/ \E r \in Runs, n \in NodeIds(G) : ClaimFiring(r, n)
      PROVE  phase' = phase
  BY <1>3 DEF Ticks, BeginFeed, EndFeed, SettleTimeout, TimeoutFail, TimeoutEnqueue,
              CheckTimeouts, ClaimFiring
<1> QED
  BY <1>1, <1>2, <1>3 DEF Next

LEMMA DownQuietStep == TypeInv /\ DownQuiet /\ [Next]_vars => DownQuiet'
<1> SUFFICES ASSUME TypeInv, DownQuiet, [Next]_vars, phase' = "down" PROVE DownQuiet'
  BY DEF DownQuiet
<1>1. CASE phase = "down"
  <2>1. ~StartBoot
    BY DEF StartBoot
  <2>2. UNCHANGED vars
    BY <1>1, <2>1, DownSteps
  <2> QED
    BY <2>2 DEF DownQuiet
<1>2. CASE phase # "down"
  <2>1. ResetMemory
    BY <1>2, PhaseSteps DEF Lifecycle, StartBoot, EndBoot, CancelAll, StopPool, Exit,
                            BeginShutdown, Crash
  <2> QED
    BY <2>1 DEF ResetMemory, DownQuiet
<1> QED
  BY <1>1, <1>2

\* How a run gets to be running: it is seeded, or a replay opens it again.
LEMMA RunningFrom ==
    ASSUME TypeInv, [Next]_vars, NEW r \in Runs, status'[r] = "running", status[r] # "running"
    PROVE  \/ /\ status[r] = "none"
              /\ r \in list'[Drain] \/ \E p \in Procs : Carries(p, r)'
           \/ \E p \in Procs : ReplayMark(p) /\ at[p] = r /\ Carries(p, r)'
<1> DEFINE Goal == \/ /\ status[r] = "none"
                      /\ r \in list'[Drain] \/ \E p \in Procs : Carries(p, r)'
                   \/ \E p \in Procs : ReplayMark(p) /\ at[p] = r /\ Carries(p, r)'
<1> USE DEF TypeInv, TypeOK, Carries
<1>1. status' # status
  OBVIOUS
<1>2. ASSUME NEW q, NEW s, MarkRunTerminal(q, s), s # "running" PROVE FALSE
  BY <1>2 DEF MarkRunTerminal
<1>3. ASSUME NEW q \in Runs, NEW n, SeedRun(q, n) PROVE q = r /\ status[r] = "none"
  BY <1>3 DEF SeedRun
<1>4. ASSUME NEW p \in Procs, Continue(p) PROVE Goal
  <2>1. CASE Settle(p)
    BY <1>1, <1>2, <2>1 DEF Settle
  <2>2. CASE KillMark(p)
    BY <1>1, <1>2, <2>2 DEF KillMark
  <2>3. CASE ReplayMark(p)
    <3>1. status' = [status EXCEPT ![at[p]] = "running"] /\ pc' = [pc EXCEPT ![p] = "drive"] /\ at' = at
      BY <1>1, <2>3 DEF ReplayMark
    <3> QED
      BY <2>3, <3>1
  <2>4. CASE Advance(p) /\ ~Settle(p)
    BY <1>1, <2>4 DEF Advance, GetRun, Load, WalkTurn, BeginNode, FinishNode, FailNode, AbortNode,
                      EndBatch, Finalize, EndAdvance
  <2>5. CASE \/ Drive(p) \/ Send(p) \/ TakeJob(p) \/ Feed(p)
             \/ ReplayClear(p) \/ ReplayRead(p) \/ KillParked(p) \/ KillCancel(p)
    BY <1>1, <2>5 DEF Drive, Send, TakeJob, Feed, ReplayClear, ReplayRead, KillParked, KillCancel
  <2> QED
    BY <1>4, <2>1, <2>2, <2>3, <2>4, <2>5 DEF Continue
<1>5. ASSUME NEW p \in Callers, Request(p) PROVE Goal
  <2>1. PICK n : StartRun(p, r, n)
    BY <1>1, <1>3, <1>5 DEF Request, StartRun, DecideApproval, Replay, KillWorkflow, Disconnect
  <2>2. p \in Procs
    BY DEF Procs
  <2> QED
    BY <1>3, <2>1, <2>2 DEF StartRun
<1>6. ASSUME NEW q \in Runs, NEW n \in NodeIds(G), ClaimFiring(q, n) PROVE Goal
  <2>1. q = r /\ status[r] = "none" /\ Drain \in Procs
    BY <1>3, <1>6 DEF ClaimFiring, Procs
  <2> QED
    BY <1>6, <2>1 DEF ClaimFiring
<1>7. CASE \/ \E late \in SUBSET TimedNodes : CheckTimeouts(late)
           \/ Ticks \/ Lifecycle \/ BeginShutdown \/ Crash
           \/ UNCHANGED vars
  BY <1>1, <1>2, <1>7 DEF CheckTimeouts, Ticks, BeginFeed, EndFeed, SettleTimeout, TimeoutFail,
                    TimeoutEnqueue, Lifecycle, StartBoot, EndBoot, CancelAll, StopPool, Exit,
                    BeginShutdown, Crash, ResetMemory
<1> QED
  BY <1>4, <1>5, <1>6, <1>7 DEF Next

\* How a run stops waiting for a human: somebody decided and will wake it, or it
\* is being killed.
LEMMA UnparkedFrom ==
    ASSUME BegunInv, [Next]_vars, NEW r \in Runs, ParkedKeys(r) # {}, ParkedKeys(r)' = {}
    PROVE  \/ \E p \in Procs : Carries(p, r)'
           \/ \E p \in Procs : KillParked(p) /\ at[p] = r
<1> DEFINE Goal == \/ \E p \in Procs : Carries(p, r)'
                   \/ \E p \in Procs : KillParked(p) /\ at[p] = r
<1> USE DEF BegunInv, TypeInv
<1>0. PICK k \in Keys(G) : frn[r][k].status = "parked" /\ frn'[r][k].status # "parked"
  BY DEF ParkedKeys
<1>1. frn' # frn
  BY <1>0
<1>2. ASSUME NEW q \in Runs, NEW S, NEW row, UpdateRows(q, S, row) PROVE q = r /\ k \in S
  BY <1>0, <1>2 DEF TypeOK, UpdateRows
<1>3. ASSUME NEW q \in Runs, NEW n, SeedRun(q, n) PROVE FALSE
  <2>1. q = r
    BY <1>0, <1>3 DEF TypeOK, SeedRun
  <2>2. frn[r] = NoRows
    BY <1>3, <2>1 DEF OnlyBegun, Begun, SeedRun
  <2> QED
    BY <1>0, <2>2 DEF NoRows, NoRow, Row
<1>4. ASSUME NEW p \in Procs, Continue(p) PROVE Goal
  <2>1. CASE FinishNode(p)
    <3> DEFINE l == First(G, todo[p])
    <3>1. PICK row : ~HasRow(frn[at[p]], l) /\ frn' = [frn EXCEPT ![at[p]][l] = row]
      BY <1>1, <2>1 DEF FinishNode
    <3> HIDE DEF l
    <3>2. at[p] = r /\ l = k
      BY <1>0, <3>1 DEF TypeOK
    <3> QED
      BY <1>0, <3>1, <3>2 DEF HasRow
  <2>2. CASE FailNode(p)
    <3> DEFINE l == First(G, todo[p])
    <3>1. PICK row : ~HasRow(frn[at[p]], l) /\ frn' = [frn EXCEPT ![at[p]][l] = row]
      BY <1>1, <2>2 DEF FailNode
    <3> HIDE DEF l
    <3>2. at[p] = r /\ l = k
      BY <1>0, <3>1 DEF TypeOK
    <3> QED
      BY <1>0, <3>1, <3>2 DEF HasRow
  <2>3. CASE ReplayClear(p)
    <3>1. at[p] \in Runs /\ UpdateRows(at[p], FailedKeys(at[p]), NoRow)
      BY <1>1, <2>3 DEF ReplayClear, HasRunInHand
    <3>2. k \in FailedKeys(r)
      BY <1>2, <3>1
    <3> QED
      BY <1>0, <3>2 DEF FailedKeys
  <2>4. CASE KillParked(p)
    <3>1. at[p] \in Runs /\ UpdateRows(at[p], ParkedKeys(at[p]), Row("failed", NoPort))
      BY <1>1, <2>4 DEF KillParked, HasRunInHand
    <3> QED
      BY <1>2, <2>4, <3>1
  <2>5. CASE Drive(p) \/ Send(p) \/ TakeJob(p) \/ Feed(p)
    BY <1>1, <2>5 DEF Drive, Send, TakeJob, Feed
  <2>6. CASE ReplayRead(p) \/ ReplayMark(p) \/ KillMark(p) \/ KillCancel(p)
    BY <1>1, <2>6 DEF ReplayRead, ReplayMark, KillMark, KillCancel
  <2>7. CASE Advance(p) /\ ~FinishNode(p) /\ ~FailNode(p)
    BY <1>1, <2>7 DEF Advance, GetRun, Load, WalkTurn, BeginNode, AbortNode, EndBatch, Finalize,
                      Settle, EndAdvance
  <2> QED
    BY <1>4, <2>1, <2>2, <2>3, <2>4, <2>5, <2>6, <2>7 DEF Continue
<1>5. ASSUME NEW p \in Callers, Request(p) PROVE Goal
  <2>1. PICK q \in Runs, n \in NodeIds(G), d \in Approvals : DecideApproval(p, q, n, d)
    BY <1>1, <1>3, <1>5 DEF Request, StartRun, Replay, KillWorkflow, Disconnect
  <2>2. q = r /\ p \in Procs
    BY <1>2, <2>1 DEF DecideApproval, Procs
  <2> QED
    BY <2>1, <2>2 DEF DecideApproval, Carries, TypeOK
<1>6. ASSUME NEW q \in Runs, NEW n \in NodeIds(G), ClaimFiring(q, n) PROVE FALSE
  BY <1>3, <1>6 DEF ClaimFiring
<1>7. CASE SettleTimeout
  <2>1. PICK x \in due :
          /\ UpdateRows(x[1], ParkedAt(x[1], x[2]), TimeoutRow(x[2]))
          /\ pc' = [pc EXCEPT ![Timer] = IF OnTimeout[x[2]] = "fail" THEN "tfail" ELSE "enqueue"]
          /\ at' = [at EXCEPT ![Timer] = x[1]]
    BY <1>1, <1>7 DEF SettleTimeout
  <2>2. x[1] = r /\ Timer \in Procs
    BY <1>2, <2>1 DEF TypeOK, Procs
  <2> QED
    BY <2>1, <2>2 DEF Carries, TypeOK
<1>8. CASE \/ \E late \in SUBSET TimedNodes : CheckTimeouts(late)
           \/ Ticks /\ ~SettleTimeout
           \/ Lifecycle \/ BeginShutdown \/ Crash
           \/ UNCHANGED vars
  BY <1>1, <1>8 DEF CheckTimeouts, Ticks, BeginFeed, EndFeed, TimeoutFail, TimeoutEnqueue,
                    Lifecycle, StartBoot, EndBoot, CancelAll, StopPool, Exit, BeginShutdown,
                    Crash, ResetMemory
<1> QED
  BY <1>4, <1>5, <1>6, <1>7, <1>8 DEF Next

-----------------------------------------------------------------------------
\* A registered cancel func is its run's driver's.
Registered == \A r \in Runs : inflight[r] # NoProc => Driving(inflight[r]) /\ at[inflight[r]] = r

\* While the server is up no client goes away before it has its answer.
ClientsStay == Early => baseDead = {}

\* No run is replayed between its mark by a kill and the end of that kill's work on it.
KillsApart ==
    \A p, q \in Procs : pc[p] \in ReplayPCs /\ pc[q] \in {"killpark", "killcancel"} => at[p] # at[q]

KillsAsked == \A p \in Procs : pc[p] \in KillPCs => p \in Callers

BootLists == list[Boot] # {} \/ pc[Boot] # "idle" => phase = "boot"

\* Who is cancelled is a driver; who is about to be works on a run that is over.
CancelledOver ==
    Serving =>
        /\ \A p \in childDead : Driving(p)
        /\ \A p \in Procs : pc[p] \in {"killpark", "killcancel"} => at[p] \in Ended

Contexts == Registered /\ KillsAsked /\ BootLists /\ CancelledOver

ContextInv == FlightInv /\ BegunInv /\ DownQuiet /\ Contexts

\* A step of one goroutine p that stops no driver but itself, and cancels none
\* but drivers of a run that is over.
LEMMA ContextFrame ==
    ASSUME ContextInv, NEW p \in Procs, phase' = phase, p = Boot => pc[p] # "idle",
           \A q \in Procs \ {p} : pc'[q] = pc[q] /\ at'[q] = at[q],
           childDead' \subseteq Procs, list'[Boot] \subseteq list[Boot],
           \A r \in Runs : \/ inflight'[r] \in {inflight[r], NoProc}
                           \/ inflight'[r] = p /\ pc'[p] \in DrivePCs /\ at'[p] = r,
           Driving(p) => \/ pc'[p] \in DrivePCs /\ at'[p] = at[p]
                         \/ inflight'[at[p]] = NoProc /\ p \notin childDead',
           \A q \in childDead' : q \in childDead \/ (Serving => Driving(q)),
           pc'[p] \in KillPCs => pc[p] \in KillPCs \/ p \in Callers,
           pc'[p] \in {"killpark", "killcancel"} =>
               \/ pc[p] \in {"killpark", "killcancel"} /\ at'[p] = at[p]
               \/ Serving => at'[p] \in Ended',
           \A q \in Procs : pc[q] \in {"killpark", "killcancel"} /\ at[q] \in Ended => at[q] \in Ended'
    PROVE  Contexts'
<1> USE DEF ContextInv, Contexts
<1>0. TypeOK /\ BegunInv /\ childDead \subseteq Procs /\ HasRunInHand /\ NoProc \notin Procs
  BY ProcsAssumption DEF FlightInv, TypeInv, TypeOK
<1>1. Registered'
  <2> SUFFICES ASSUME NEW r \in Runs, inflight'[r] # NoProc
               PROVE  pc'[inflight'[r]] \in DrivePCs /\ at'[inflight'[r]] = r
    BY DEF Registered, Driving
  <2>1. CASE inflight'[r] = p /\ pc'[p] \in DrivePCs /\ at'[p] = r
    BY <2>1
  <2>2. CASE inflight'[r] = inflight[r]
    <3>1. Driving(inflight[r]) /\ at[inflight[r]] = r /\ inflight[r] \in Procs
      BY <1>0, <2>2 DEF Registered, TypeOK
    <3>2. CASE inflight[r] = p
      BY <2>2, <3>1, <3>2
    <3>3. CASE inflight[r] # p
      BY <2>2, <3>1, <3>3 DEF Driving
    <3> QED
      BY <3>2, <3>3
  <2> QED
    BY <2>1, <2>2
<1>2. KillsAsked'
  BY DEF KillsAsked
<1>3. BootLists'
  <2>1. Boot \in Procs
    BY DEF Procs
  <2>2. CASE p = Boot
    BY <2>2 DEF BootLists
  <2>3. CASE p # Boot
    BY <2>1, <2>3 DEF BootLists
  <2> QED
    BY <2>2, <2>3
<1>4. CancelledOver'
  <2> SUFFICES ASSUME Serving
               PROVE  /\ \A q \in childDead' : pc'[q] \in DrivePCs
                      /\ \A q \in Procs : pc'[q] \in {"killpark", "killcancel"} => at'[q] \in Ended'
    BY DEF CancelledOver, Serving, Driving
  <2>1. ASSUME NEW q \in childDead' PROVE pc'[q] \in DrivePCs
    <3>1. Driving(q) /\ q \in Procs
      BY DEF CancelledOver
    <3>2. CASE q = p
      BY <2>1, <3>1, <3>2
    <3>3. CASE q # p
      BY <3>1, <3>3 DEF Driving
    <3> QED
      BY <3>2, <3>3
  <2>2. ASSUME NEW q \in Procs, pc'[q] \in {"killpark", "killcancel"} PROVE at'[q] \in Ended'
    <3>1. CASE pc[q] \in {"killpark", "killcancel"} /\ at'[q] = at[q]
      <4>1. at[q] \in Ended
        BY <3>1 DEF CancelledOver
      <4> QED
        BY <3>1, <4>1
    <3> QED
      BY <2>2, <3>1
  <2> QED
    BY <2>1, <2>2
<1> QED
  BY <1>1, <1>2, <1>3, <1>4

\* While no replay of it is under way, a run that is being killed stays over.
LEMMA KilledStays ==
    ASSUME TypeInv, [Next]_vars, KillsApart, NEW q \in Procs, pc[q] \in {"killpark", "killcancel"},
           at[q] \in Ended
    PROVE  at[q] \in Ended'
<1> PICK r : r = at[q]
  OBVIOUS
<1> SUFFICES ASSUME r \notin Ended' PROVE FALSE
  OBVIOUS
<1>1. r \in Begun'
  BY BegunGrows DEF Ended, Begun
<1>2. status'[r] = "running" /\ status[r] # "running" /\ r \in Runs /\ status[r] # "none"
  BY <1>1 DEF Ended, Begun
<1>3. PICK p \in Procs : ReplayMark(p) /\ at[p] = r
  BY <1>2, RunningFrom
<1> QED
  BY <1>3 DEF KillsApart, ReplayMark, ReplayPCs

\* While no kill meets a replay of its run, the steps of a goroutine keep the
\* contexts in order.
LEMMA ContextContinue ==
    ASSUME ContextInv, [Next]_vars, TypeInv', phase # "down", NEW p \in Procs, Continue(p),
           ClientsStay, KillsApart
    PROVE  Contexts'
<1> USE DEF DrivePCs, KillPCs, ReplayPCs
<1>0. /\ TypeInv /\ TypeOK /\ HasRunInHand /\ childDead' \subseteq Procs /\ Boot \notin Callers
      /\ Boot \notin Workers
  BY ProcsAssumption DEF ContextInv, FlightInv, TypeInv, TypeOK
<1>2. \A q \in Procs : pc[q] \in {"killpark", "killcancel"} /\ at[q] \in Ended => at[q] \in Ended'
  BY <1>0, KilledStays
<1>3. CASE Drive(p)
  BY <1>0, <1>2, <1>3, HomeTypes, ContextFrame DEF Drive, TypeOK, Driving
<1>4. CASE Advance(p)
  <2>1. CASE Load(p)
    BY <1>0, <1>2, <2>1, ContextFrame DEF Load, TypeOK, Driving
  <2>2. CASE EndAdvance(p)
    <3>1. /\ phase' = phase /\ baseDead' = baseDead /\ list' = list
          /\ inflight' = [inflight EXCEPT ![at[p]] = NoProc] /\ childDead' = childDead \ {p}
          /\ pc[p] = "end" /\ at[p] \in Runs
      BY <1>0, <2>2 DEF EndAdvance, HasRunInHand
    <3>2. /\ \A q \in Procs \ {p} : pc'[q] = pc[q] /\ at'[q] = at[q]
          /\ pc'[p] \in {"getrun", "idle", "feed"}
      BY <1>0, <2>2, HomeTypes DEF EndAdvance, TypeOK
    <3>3. inflight'[at[p]] = NoProc /\ \A r \in Runs : inflight'[r] \in {inflight[r], NoProc}
      BY <1>0, <3>1 DEF TypeOK
    <3> QED
      BY <1>0, <1>2, <3>1, <3>2, <3>3, ContextFrame DEF Driving
  <2>3. CASE WalkTurn(p)
    BY <1>0, <1>2, <2>3, ContextFrame DEF WalkTurn, TypeOK, Driving
  <2>4. CASE FinishNode(p)
    BY <1>0, <1>2, <2>4, ContextFrame DEF FinishNode, TypeOK, Driving
  <2>5. CASE GetRun(p) \/ BeginNode(p) \/ FailNode(p) \/ AbortNode(p)
    BY <1>0, <1>2, <2>5, ContextFrame DEF GetRun, BeginNode, FailNode, AbortNode, TypeOK, Driving
  <2>6. CASE EndBatch(p) \/ Finalize(p) \/ Settle(p)
    BY <1>0, <1>2, <2>6, ContextFrame DEF EndBatch, Finalize, Settle, TypeOK, Driving
  <2> QED
    BY <1>4, <2>1, <2>2, <2>3, <2>4, <2>5, <2>6 DEF Advance
<1>5. CASE Send(p)
  BY <1>0, <1>2, <1>5, HomeTypes, ContextFrame DEF Send, TypeOK, Driving
<1>6. CASE TakeJob(p)
  BY <1>0, <1>2, <1>6, ContextFrame DEF TakeJob, TypeOK, Driving
<1>7. CASE Feed(p)
  <2>1. /\ phase' = phase /\ baseDead' = baseDead /\ childDead' = childDead /\ inflight' = inflight
        /\ \A q \in Procs \ {p} : pc'[q] = pc[q] /\ at'[q] = at[q]
        /\ pc'[p] \in {"drive", "send", "idle", "feed"} /\ pc[p] = "feed"
        /\ list'[Boot] \subseteq list[Boot]
    <3>1. pc'[p] \in {"drive", "send", "idle", "feed"}
      BY <1>0, <1>7, HomeTypes DEF Feed, EnqueueAdvance, TypeOK
    <3>2. list'[Boot] \subseteq list[Boot]
      BY <1>0, <1>7 DEF Feed, TypeOK, Procs
    <3> QED
      BY <1>0, <1>7, <3>1, <3>2 DEF Feed, EnqueueAdvance, TypeOK
  <2> QED
    BY <1>0, <1>2, <2>1, ContextFrame DEF Driving
<1>8. CASE ReplayClear(p)
  BY <1>0, <1>2, <1>8, ContextFrame DEF ReplayClear, TypeOK, Driving
<1>9. CASE ReplayRead(p)
  BY <1>0, <1>2, <1>9, ContextFrame DEF ReplayRead, TypeOK, Driving
<1>10. CASE ReplayMark(p)
  BY <1>0, <1>2, <1>10, ContextFrame DEF ReplayMark, TypeOK, Driving
<1>11. CASE KillMark(p)
  <2>1. PICK r \in list[p] :
          /\ list' = [list EXCEPT ![p] = @ \ {r}]
          /\ at' = [at EXCEPT ![p] = r]
          /\ IF Alive(p) THEN MarkRunTerminal(r, "cancelled") ELSE UNCHANGED status
    BY <1>11 DEF KillMark
  <2>2. r \in Begun /\ list[p] \subseteq Runs
    BY <1>0 DEF ContextInv, BegunInv, OnlyBegun, TypeOK
  <2>3. Serving => at'[p] \in Ended'
    <3> SUFFICES ASSUME Serving PROVE r \in Ended'
      BY <1>0, <2>1 DEF TypeOK
    <3>1. p \notin baseDead /\ p \notin childDead
      BY <1>11 DEF ContextInv, Contexts, ClientsStay, CancelledOver, Early, Serving, KillMark, Driving
    <3>2. MarkRunTerminal(r, "cancelled")
      BY <2>1, <3>1 DEF Alive
    <3> QED
      BY <1>0, <2>2, <3>2 DEF MarkRunTerminal, Ended, Begun, TypeOK
  <2>4. list'[Boot] \subseteq list[Boot]
    BY <1>0, <2>1 DEF TypeOK, Procs
  <2> QED
    BY <1>0, <1>2, <1>11, <2>1, <2>3, <2>4, ContextFrame DEF KillMark, TypeOK, Driving
<1>12. CASE KillParked(p)
  BY <1>0, <1>2, <1>12, ContextFrame DEF KillParked, TypeOK, Driving
<1>13. CASE KillCancel(p)
  <2>1. at[p] \in Runs
    BY <1>0, <1>13 DEF KillCancel, HasRunInHand
  <2>2. ASSUME NEW q \in childDead', q \notin childDead, Serving
        PROVE  Driving(q)
    <3>1. q = inflight[at[p]] /\ q # NoProc
      BY <1>13, <2>2 DEF KillCancel
    <3> QED
      BY <2>1, <3>1 DEF ContextInv, Contexts, Registered
  <2> QED
    BY <1>0, <1>2, <1>13, <2>1, <2>2, ContextFrame DEF KillCancel, TypeOK, Driving
<1> QED
  BY <1>3, <1>4, <1>5, <1>6, <1>7, <1>8, <1>9, <1>10, <1>11, <1>12, <1>13 DEF Continue

LEMMA ContextRequest ==
    ASSUME ContextInv, TypeInv', NEW p \in Callers, Request(p)
    PROVE  Contexts'
<1> USE DEF DrivePCs, KillPCs, ReplayPCs
<1>0. /\ TypeOK /\ childDead' \subseteq Procs /\ p \in Procs /\ p # Boot
  BY ProcsAssumption DEF ContextInv, FlightInv, TypeInv, TypeOK, Procs
<1>2. ASSUME NEW r \in Runs, NEW n, SeedRun(r, n) PROVE Ended \subseteq Ended'
  BY <1>0, <1>2 DEF SeedRun, Ended, TypeOK
<1>3. ASSUME NEW r \in Runs, NEW n \in NodeIds(G), StartRun(p, r, n) PROVE Contexts'
  BY <1>0, <1>2, <1>3, ContextFrame DEF StartRun, Accept, Idle, TypeOK, Driving
<1>4. ASSUME NEW r \in Runs, NEW n \in NodeIds(G), NEW d \in Approvals,
             DecideApproval(p, r, n, d)
      PROVE  Contexts'
  BY <1>0, <1>4, ContextFrame DEF DecideApproval, Accept, Idle, TypeOK, Driving, Ended
<1>5. ASSUME NEW r \in Runs, Replay(p, r) PROVE Contexts'
  BY <1>0, <1>5, ContextFrame DEF Replay, Accept, Idle, TypeOK, Driving, Ended
<1>6. CASE KillWorkflow(p)
  <2>1. list'[Boot] = list[Boot]
    BY <1>0, <1>6 DEF KillWorkflow, TypeOK, Procs
  <2> QED
    BY <1>0, <1>6, <2>1, ContextFrame DEF KillWorkflow, Accept, Idle, TypeOK, Driving, Ended
<1>7. CASE Disconnect(p)
  BY <1>0, <1>7, ContextFrame DEF Disconnect, TypeOK, Driving, Ended
<1> QED
  BY <1>3, <1>4, <1>5, <1>6, <1>7 DEF Request

LEMMA ContextBackground ==
    ASSUME ContextInv, TypeInv',
           \/ Ticks
           \/ \E late \in SUBSET TimedNodes : CheckTimeouts(late)
           \/ \E r \in Runs, n \in NodeIds(G) : ClaimFiring(r, n)
    PROVE  Contexts'
<1> USE DEF DrivePCs, KillPCs, ReplayPCs
<1>0. /\ TypeOK /\ childDead' \subseteq Procs /\ {Drain, Timer, Boot} \subseteq Procs
      /\ Drain # Boot /\ Timer # Boot
  BY ProcsAssumption DEF ContextInv, FlightInv, TypeInv, TypeOK, Procs
<1>1. CASE BeginFeed \/ EndFeed
  BY <1>0, <1>1, ContextFrame DEF BeginFeed, EndFeed, TypeOK, Driving, Ended
<1>2. CASE SettleTimeout
  <2>1. /\ UNCHANGED <<status, phase, list, inflight, baseDead, childDead>> /\ pc[Timer] = "idle"
        /\ \A q \in Procs \ {Timer} : pc'[q] = pc[q] /\ at'[q] = at[q]
        /\ pc'[Timer] \in {"idle", "tfail", "enqueue"}
    BY <1>0, <1>2, ZenonT(60) DEF SettleTimeout, TypeOK
  <2> QED
    BY <1>0, <2>1, ContextFrame DEF Driving, Ended
<1>3. CASE TimeoutFail
  <2>1. Ended \subseteq Ended'
    BY <1>0, <1>3 DEF TimeoutFail, MarkRunTerminal, Ended, TypeOK
  <2> QED
    BY <1>0, <1>3, <2>1, ContextFrame DEF TimeoutFail, TypeOK, Driving
<1>4. CASE TimeoutEnqueue
  <2>1. /\ UNCHANGED <<status, phase, list, inflight, baseDead, childDead>> /\ pc[Timer] = "enqueue"
        /\ \A q \in Procs \ {Timer} : pc'[q] = pc[q] /\ at'[q] = at[q]
        /\ pc'[Timer] \in {"drive", "send", "idle", "feed"}
    BY <1>0, <1>4, HomeTypes DEF TimeoutEnqueue, EnqueueAdvance, TypeOK
  <2> QED
    BY <1>0, <2>1, ContextFrame DEF Driving, Ended
<1>5. CASE \E late \in SUBSET TimedNodes : CheckTimeouts(late)
  BY <1>0, <1>5, ContextFrame DEF CheckTimeouts, Idle, TypeOK, Driving, Ended
<1>6. ASSUME NEW r \in Runs, NEW n \in NodeIds(G), ClaimFiring(r, n) PROVE Contexts'
  <2>1. Ended \subseteq Ended'
    BY <1>0, <1>6 DEF ClaimFiring, SeedRun, Ended, TypeOK
  <2>2. list'[Boot] = list[Boot]
    BY <1>0, <1>6 DEF ClaimFiring, TypeOK
  <2> QED
    BY <1>0, <1>6, <2>1, <2>2, ContextFrame DEF ClaimFiring, Idle, TypeOK, Driving
<1> QED
  BY <1>1, <1>2, <1>3, <1>4, <1>5, <1>6 DEF Ticks

LEMMA ContextLifecycle ==
    ASSUME ContextInv, Lifecycle \/ BeginShutdown \/ Crash PROVE Contexts'
<1> USE DEF DrivePCs, KillPCs, ReplayPCs, ContextInv, Contexts
<1>0. /\ TypeOK /\ {Drain, Timer, Boot} \subseteq Procs /\ NoProc \notin Procs
  BY ProcsAssumption DEF FlightInv, TypeInv, Procs
<1>1. CASE StartBoot
  <2>1. /\ phase = "down" /\ phase' = "boot" /\ baseDead' = {} /\ childDead' = {}
        /\ UNCHANGED <<inflight, at>> /\ pc' = [pc EXCEPT ![Boot] = "feed"]
        /\ \A q \in Procs : pc[q] = "idle"
    BY <1>1 DEF StartBoot, DownQuiet
  <2>2. \A q \in Procs : pc'[q] \in {"idle", "feed"}
    BY <1>0, <2>1 DEF TypeOK
  <2>3. \A r \in Runs : inflight[r] = NoProc
    <3> SUFFICES ASSUME NEW r \in Runs, inflight[r] # NoProc PROVE FALSE
      OBVIOUS
    <3>1. inflight[r] \in Procs /\ pc[inflight[r]] \in DrivePCs
      BY <1>0 DEF Registered, Driving, TypeOK
    <3> QED
      BY <2>1, <3>1
  <2> QED
    BY <2>1, <2>2, <2>3 DEF Registered, KillsAsked, BootLists, CancelledOver
<1>2. CASE EndBoot
  <2>1. /\ phase = "boot" /\ phase' = "up" /\ UNCHANGED <<inflight, at, baseDead, childDead, list, status>>
        /\ pc' = [pc EXCEPT ![Boot] = "idle"] /\ pc[Boot] = "feed" /\ list[Boot] = {}
    BY <1>2 DEF EndBoot
  <2>2. pc'[Boot] = "idle" /\ \A q \in Procs \ {Boot} : pc'[q] = pc[q]
    BY <1>0, <2>1 DEF TypeOK
  <2>3. Registered'
    BY <1>0, <2>1, <2>2 DEF Registered, Driving, TypeOK
  <2>4. CancelledOver'
    BY <1>0, <2>1, <2>2 DEF CancelledOver, Serving, Driving, Ended, TypeOK
  <2>5. KillsAsked' /\ BootLists'
    BY <1>0, <2>1, <2>2 DEF KillsAsked, BootLists
  <2> QED
    BY <2>3, <2>4, <2>5
<1>3. CASE CancelAll \/ StopPool \/ BeginShutdown
  <2>1. /\ phase' \in {"grace", "cancelled", "closed"} /\ phase # "boot"
        /\ UNCHANGED <<pc, at, list>>
        /\ inflight' = inflight \/ inflight' = [r \in Runs |-> NoProc]
    BY <1>3 DEF CancelAll, StopPool, BeginShutdown
  <2> QED
    BY <2>1 DEF Registered, KillsAsked, BootLists, CancelledOver, Serving, Driving
<1>4. CASE Exit \/ Crash
  <2>1. ResetMemory
    BY <1>4 DEF Exit, Crash
  <2> QED
    BY <1>0, <2>1 DEF ResetMemory, Registered, KillsAsked, BootLists, CancelledOver, Serving
<1> QED
  BY <1>1, <1>2, <1>3, <1>4 DEF Lifecycle

LEMMA ContextInit == Init => ContextInv
<1> SUFFICES ASSUME Init PROVE ContextInv
  OBVIOUS
<1>1. FlightInv /\ BegunInv
  BY FlightInit, BegunInit
<1>2. Boot \in Procs
  BY DEF Procs
<1>3. DownQuiet /\ Contexts
  BY <1>2 DEF Init, DownQuiet, Contexts, Registered, KillsAsked, BootLists, CancelledOver,
              Serving, KillPCs
<1> QED
  BY <1>1, <1>3 DEF ContextInv

LEMMA ContextStep ==
    ASSUME ClientsStay, KillsApart, ContextInv, [Next]_vars
    PROVE  ContextInv'
<1>1. FlightInv' /\ BegunInv' /\ DownQuiet'
  BY FlightStep, BegunStep, DownQuietStep DEF ContextInv, FlightInv
<1>2. Contexts'
  <2>1. TypeInv' /\ TypeInv
    BY <1>1 DEF FlightInv, ContextInv
  <2>2. CASE UNCHANGED vars
    BY <2>2 DEF ContextInv, Contexts, Registered, KillsAsked, BootLists, CancelledOver,
                Serving, Driving, Ended
  <2>3. CASE Next /\ phase = "down"
    BY <2>1, <2>3, DownSteps, ContextLifecycle DEF ContextInv, Lifecycle
  <2>4. ASSUME phase # "down", NEW p \in Procs, Continue(p) PROVE Contexts'
    BY <2>1, <2>4, ContextContinue
  <2>5. ASSUME NEW p \in Callers, Request(p) PROVE Contexts'
    BY <2>1, <2>5, ContextRequest
  <2> QED
    BY <2>1, <2>2, <2>3, <2>4, <2>5, ContextBackground, ContextLifecycle DEF Next
<1> QED
  BY <1>1, <1>2 DEF ContextInv

-----------------------------------------------------------------------------
(***************************************************************************)
(* A run that is awake is pursued: marked as driven, or to be woken; and   *)
(* when its driver is on its last step, or is cancelled and cannot go on,  *)
(* it is to be woken after that.                                           *)
(***************************************************************************)
Pursued == Serving => \A r \in Runs : Awake(r) => r \in inProgress \/ Woken(r)

\* p gets its run no further.
Spent(p) == pc[p] = "end" \/ p \in childDead

Rewoken ==
    Serving => \A p \in Procs : Spent(p) /\ Awake(at[p]) => at[p] \in pending \/ Woken(at[p])

OwnerInv == ContextInv /\ Pursued /\ Rewoken

\* A run that wakes up has somebody who will drive it.
LEMMA AwakeFrom ==
    ASSUME ContextInv, [Next]_vars, Serving, NEW r \in Runs, Awake(r)', ~Awake(r)
    PROVE  r \in list'[Drain] \/ \E p \in Procs : Carries(p, r)'
<1> USE DEF ContextInv, FlightInv
<1>1. CASE status[r] # "running"
  BY <1>1, RunningFrom DEF Awake
<1>2. CASE status[r] = "running"
  <2>1. ParkedKeys(r) # {} /\ ParkedKeys(r)' = {}
    BY <1>2 DEF Awake
  <2>2. ASSUME NEW p \in Procs, KillParked(p), at[p] = r PROVE FALSE
    BY <1>2, <2>2 DEF Contexts, CancelledOver, KillParked, Ended
  <2> QED
    BY <2>1, <2>2, UnparkedFrom
<1> QED
  BY <1>1, <1>2

\* A goroutine gets to its last step on a run that is not awake.
LEMMA EndFrom ==
    ASSUME ContextInv, ClientsStay, Serving, NEW p \in Procs, p \notin childDead,
           Advance(p), pc'[p] = "end"
    PROVE  pc[p] # "end" /\ at' = at /\ ~Awake(at[p])'
<1> USE DEF ContextInv, FlightInv, TypeInv, TypeOK
<1>0. at[p] \in Runs /\ Alive(p)
  <2>1. pc[p] \notin {"idle", "feed", "kill"}
    BY DEF Advance, GetRun, Load, WalkTurn, BeginNode, FinishNode, FailNode, AbortNode,
           EndBatch, Finalize, Settle, EndAdvance
  <2> QED
    BY <2>1 DEF HasRunInHand, ClientsStay, Early, Serving, Alive
<1>1. CASE GetRun(p)
  <2>1. /\ pc[p] = "getrun" /\ at' = at /\ status' = status
        /\ pc' = [pc EXCEPT ![p] = IF status[at[p]] = "running" THEN "load" ELSE "end"]
    BY <1>0, <1>1 DEF GetRun, Goto, Alive
  <2> QED
    BY <1>0, <2>1 DEF Awake
<1>2. CASE Load(p)
  <2>1. pc' = [pc EXCEPT ![p] = "walk"]
    BY <1>0, <1>2 DEF Load, Goto, Alive
  <2> QED
    BY <2>1
<1>3. CASE WalkTurn(p)
  <2>1. pc[p] = "walk" /\ at' = at /\ status' = status /\ ~Alive(p)
    BY <1>3 DEF WalkTurn
  <2> QED
    BY <1>0, <2>1 DEF Awake
<1>4. CASE BeginNode(p) \/ AbortNode(p) \/ EndBatch(p)
  <2>1. pc[p] # "end" /\ at' = at /\ status' = status /\ ~Alive(p)
    BY <1>4 DEF BeginNode, AbortNode, EndBatch
  <2> QED
    BY <1>0, <2>1 DEF Awake
<1>5. CASE FinishNode(p) \/ FailNode(p)
  BY <1>5 DEF FinishNode, FailNode
<1>6. CASE Finalize(p)
  <2>1. /\ pc[p] = "final" /\ at' = at /\ status' = status /\ frn' = frn
        /\ ~Alive(p) \/ ParkedKeys(at[p]) # {}
    BY <1>6 DEF Finalize
  <2> QED
    BY <1>0, <2>1 DEF Awake, ParkedKeys
<1>7. CASE Settle(p)
  <2>1. /\ pc[p] \in {"complete", "fail"} /\ at' = at
        /\ \/ ~Alive(p) /\ status' = status
           \/ \E s \in {"completed", "failed"} : MarkRunTerminal(at[p], s)
    BY <1>7 DEF Settle
  <2> QED
    BY <1>0, <2>1 DEF Awake, MarkRunTerminal
<1>8. ~EndAdvance(p)
  BY HomeTypes DEF EndAdvance
<1> QED
  BY <1>1, <1>2, <1>3, <1>4, <1>5, <1>6, <1>7, <1>8 DEF Advance

\* What enqueueAdvance and drive do with the run they are given.
LEMMA EnqueueHolds ==
    ASSUME TypeInv, NEW p \in Procs, NEW r \in Runs, EnqueueAdvance(p, r)
    PROVE  /\ UNCHANGED inProgress /\ pending \subseteq pending' /\ queued \subseteq queued'
           /\ r \in inProgress => r \in pending' \/ Carries(p, r)'
           /\ r \in inProgress \/ r \in queued' \/ Carries(p, r)'
           /\ \A q \in Procs \ {p} : pc'[q] = pc[q] /\ at'[q] = at[q]
           /\ pc'[p] # "end"
<1> USE DEF TypeInv, TypeOK, Carries
<1>1. CASE phase = "closed"
  BY <1>1 DEF EnqueueAdvance
<1>2. CASE phase # "closed" /\ r \in inProgress \cup queued
  <2>1. /\ pending' = IF r \in inProgress THEN pending \cup {r} ELSE pending
        /\ UNCHANGED <<inProgress, queued>>
        /\ pc' = [pc EXCEPT ![p] = Home(p)] /\ at' = [at EXCEPT ![p] = NoRun]
    BY <1>2 DEF EnqueueAdvance
  <2> QED
    BY <1>2, <2>1, HomeTypes
<1>3. CASE phase # "closed" /\ r \notin inProgress \cup queued
  <2>1. /\ queued' = queued \cup {r}
        /\ UNCHANGED <<inProgress, pending>>
        /\ pc' = [pc EXCEPT ![p] = "send"] /\ at' = [at EXCEPT ![p] = r]
    BY <1>3 DEF EnqueueAdvance
  <2> QED
    BY <1>3, <2>1
<1> QED
  BY <1>1, <1>2, <1>3

LEMMA DriveHolds ==
    ASSUME FlightInv, NEW p \in Procs, Drive(p)
    PROVE  /\ at[p] \in Runs
           /\ inProgress' \subseteq Runs /\ inProgress \cup {at[p]} \subseteq inProgress'
           /\ pending \subseteq pending' /\ queued' = queued \ {at[p]}
           /\ at[p] \in inProgress => at[p] \in pending'
           /\ UNCHANGED list
           /\ \A q \in Procs \ {p} : pc'[q] = pc[q] /\ at'[q] = at[q]
           /\ pc'[p] # "end"
<1> USE DEF FlightInv, TypeInv, TypeOK
<1>1. at[p] \in Runs
  BY DEF HasRunInHand, Drive
<1>2. CASE at[p] \in inProgress
  <2>1. /\ pending' = pending \cup {at[p]} /\ UNCHANGED <<inProgress, list>>
        /\ queued' = queued \ {at[p]}
        /\ pc' = [pc EXCEPT ![p] = Home(p)] /\ at' = [at EXCEPT ![p] = NoRun]
    BY <1>2 DEF Drive
  <2> QED
    BY <1>1, <1>2, <2>1, HomeTypes
<1>3. CASE at[p] \notin inProgress
  BY <1>1, <1>3 DEF Drive
<1> QED
  BY <1>2, <1>3

\* A step of p that takes nobody's wakeup away.
Calm(p) ==
    /\ \A q \in Procs \ {p} : pc'[q] = pc[q] /\ at'[q] = at[q]
    /\ inProgress \subseteq inProgress' /\ pending \subseteq pending' /\ queued \subseteq queued'
    /\ list[Drain] \subseteq list'[Drain] /\ list[Boot] \subseteq list'[Boot]
    /\ pc[p] \in {"drive", "enqueue", "tfail"} => pc'[p] = pc[p] /\ at'[p] = at[p]

LEMMA CalmSteps ==
    ASSUME ContextInv, [Next]_vars, Serving, Serving'
    PROVE  \/ \E p \in Procs : Calm(p) \/ Drive(p) \/ Feed(p) \/ EndAdvance(p)
           \/ TimeoutFail \/ TimeoutEnqueue
<1> DEFINE Goal == \/ \E p \in Procs : Calm(p) \/ Drive(p) \/ Feed(p) \/ EndAdvance(p)
                   \/ TimeoutFail \/ TimeoutEnqueue
<1> USE DEF Calm
<1>0. /\ TypeOK /\ {Drain, Timer, Boot} \cup Callers \subseteq Procs
      /\ Drain \notin Callers /\ Boot \notin Callers /\ phase # "closed"
  BY ProcsAssumption DEF ContextInv, FlightInv, TypeInv, Procs, Serving
<1>1. ASSUME NEW p \in Procs, Continue(p) PROVE Goal
  <2>1. ASSUME Advance(p), ~EndAdvance(p) PROVE Calm(p)
    <3>1. UNCHANGED <<inProgress, pending, queued, list, at>> /\ pc[p] \in DrivePCs
      BY <2>1 DEF Advance, GetRun, Load, WalkTurn, BeginNode, FinishNode, FailNode, AbortNode,
                  EndBatch, Finalize, Settle, DrivePCs
    <3>2. \A q \in Procs \ {p} : pc'[q] = pc[q]
      BY <1>0, <2>1 DEF Advance, GetRun, Load, WalkTurn, BeginNode, FinishNode, FailNode, AbortNode,
                        EndBatch, Finalize, Settle, TypeOK
    <3> QED
      BY <3>1, <3>2 DEF DrivePCs
  <2>2. ASSUME Send(p) \/ TakeJob(p) PROVE Calm(p)
    BY <1>0, <2>2 DEF Send, TakeJob, TypeOK
  <2>3. ASSUME ReplayClear(p) \/ ReplayRead(p) \/ ReplayMark(p) PROVE Calm(p)
    BY <1>0, <2>3 DEF ReplayClear, ReplayRead, ReplayMark, TypeOK
  <2>4. ASSUME KillMark(p) PROVE Calm(p)
    <3>1. pc[p] = "kill" /\ \E r \in list[p] : list' = [list EXCEPT ![p] = @ \ {r}]
      BY <2>4 DEF KillMark
    <3>2. p \notin {Drain, Boot}
      BY <1>0, <2>4 DEF ContextInv, Contexts, KillsAsked, KillMark, KillPCs
    <3> QED
      BY <1>0, <2>4, <3>1, <3>2 DEF KillMark, TypeOK
  <2>5. ASSUME KillParked(p) \/ KillCancel(p) PROVE Calm(p)
    BY <1>0, <2>5 DEF KillParked, KillCancel, TypeOK
  <2> QED
    BY <1>1, <2>1, <2>2, <2>3, <2>4, <2>5 DEF Continue
<1>2. ASSUME NEW p \in Callers, Request(p) PROVE Calm(p)
  <2>1. ASSUME KillWorkflow(p) PROVE Calm(p)
    BY <1>0, <2>1 DEF KillWorkflow, Accept, Idle, TypeOK
  <2>2. ASSUME Disconnect(p) PROVE Calm(p)
    BY <2>2 DEF Disconnect
  <2>3. ASSUME NEW r \in Runs, Replay(p, r) PROVE Calm(p)
    BY <1>0, <2>3 DEF Replay, Accept, Idle, TypeOK
  <2>4. ASSUME NEW r \in Runs, NEW n \in NodeIds(G), StartRun(p, r, n) PROVE Calm(p)
    BY <1>0, <2>4 DEF StartRun, Accept, Idle, TypeOK
  <2>5. ASSUME NEW r \in Runs, NEW n \in NodeIds(G), NEW d \in Approvals, DecideApproval(p, r, n, d)
        PROVE  Calm(p)
    BY <1>0, <2>5 DEF DecideApproval, Accept, Idle, TypeOK
  <2> QED
    BY <1>2, <2>1, <2>2, <2>3, <2>4, <2>5 DEF Request
<1>3. ASSUME NEW r \in Runs, NEW n \in NodeIds(G), ClaimFiring(r, n) PROVE Calm(Drain)
  BY <1>0, <1>3 DEF ClaimFiring, TypeOK
<1>4. ASSUME NEW late \in SUBSET TimedNodes, CheckTimeouts(late) PROVE Calm(Timer)
  BY <1>0, <1>4 DEF CheckTimeouts, TypeOK
<1>5. ASSUME BeginFeed \/ EndFeed PROVE Calm(Drain)
  BY <1>0, <1>5 DEF BeginFeed, EndFeed, TypeOK
<1>6. ASSUME SettleTimeout PROVE Calm(Timer)
  <2>1. /\ UNCHANGED <<inProgress, pending, queued, list>> /\ pc[Timer] = "idle"
        /\ \A q \in Procs \ {Timer} : pc'[q] = pc[q] /\ at'[q] = at[q]
    BY <1>0, <1>6, ZenonT(60) DEF SettleTimeout, TypeOK
  <2> QED
    BY <2>1
<1>7. ASSUME EndBoot PROVE Calm(Boot)
  BY <1>0, <1>7 DEF EndBoot, TypeOK
<1>8. ~StartBoot /\ ~CancelAll /\ ~StopPool /\ ~Exit /\ ~BeginShutdown /\ ~Crash
  BY DEF Serving, StartBoot, CancelAll, StopPool, Exit, BeginShutdown, Crash, ResetMemory
<1>9. ASSUME UNCHANGED vars PROVE Calm(Boot)
  BY <1>0, <1>9
<1> QED
  BY <1>0, <1>1, <1>2, <1>3, <1>4, <1>5, <1>6, <1>7, <1>8, <1>9 DEF Next, Ticks, Lifecycle

\* A wakeup lasts until it is a redrive mark, or the run is driven.
LEMMA WokenStays ==
    ASSUME ContextInv, [Next]_vars, Serving, Serving', NEW r \in Runs, Awake(r)', Woken(r)
    PROVE  \/ Woken(r)'
           \/ r \in inProgress' /\ (r \in inProgress => r \in pending')
<1> DEFINE Goal == \/ Woken(r)'
                   \/ r \in inProgress' /\ (r \in inProgress => r \in pending')
<1>0. TypeInv /\ TypeOK /\ FlightInv /\ {Drain, Timer, Boot} \subseteq Procs
  BY DEF ContextInv, FlightInv, TypeInv, Procs
<1>1. ASSUME NEW p \in Procs, Calm(p) PROVE Goal
  BY <1>1 DEF Calm, Woken, Carries
<1>2. ASSUME NEW p \in Procs, Drive(p) PROVE Goal
  <2>1. CASE at[p] = r
    BY <1>0, <1>2, <2>1, DriveHolds
  <2>2. CASE at[p] # r
    BY <1>0, <1>2, <2>2, DriveHolds DEF Woken, Carries
  <2> QED
    BY <2>1, <2>2
<1>3. ASSUME NEW p \in Procs, Feed(p) PROVE Goal
  <2>1. PICK q \in list[p] : EnqueueAdvance(p, q) /\ list' = [list EXCEPT ![p] = @ \ {q}] /\ q \in Runs
    BY <1>0, <1>3 DEF Feed, TypeOK
  <2>2. pc[p] = "feed"
    BY <1>3 DEF Feed
  <2>3. CASE q = r
    BY <1>0, <2>1, <2>3, EnqueueHolds DEF Woken
  <2>4. CASE q # r
    <3>1. \A s \in Procs : r \in list[s] => r \in list'[s]
      BY <1>0, <2>1, <2>4 DEF TypeOK
    <3> QED
      BY <1>0, <2>1, <2>2, <3>1, EnqueueHolds DEF Woken, Carries
  <2> QED
    BY <2>3, <2>4
<1>4. ASSUME NEW p \in Procs, EndAdvance(p) PROVE Goal
  <2>1. UNCHANGED <<queued, list>> /\ pc[p] = "end" /\ \A q \in Procs \ {p} : pc'[q] = pc[q] /\ at'[q] = at[q]
    BY <1>0, <1>4 DEF EndAdvance, TypeOK
  <2> QED
    BY <2>1 DEF Woken, Carries
<1>5. CASE TimeoutFail
  <2>1. at[Timer] # r
    BY <1>0, <1>5 DEF TimeoutFail, MarkRunTerminal, Awake, TypeOK
  <2>2. UNCHANGED <<queued, list>> /\ \A q \in Procs \ {Timer} : pc'[q] = pc[q] /\ at'[q] = at[q]
    BY <1>0, <1>5 DEF TimeoutFail, TypeOK
  <2> QED
    BY <2>1, <2>2 DEF Woken, Carries
<1>6. CASE TimeoutEnqueue
  <2>1. EnqueueAdvance(Timer, at[Timer]) /\ UNCHANGED list /\ at[Timer] \in Runs
    BY <1>0, <1>6 DEF TimeoutEnqueue, TypeInv, HasRunInHand
  <2>2. CASE at[Timer] = r
    BY <1>0, <2>1, <2>2, EnqueueHolds DEF Woken
  <2>3. CASE at[Timer] # r
    BY <1>0, <2>1, <2>3, EnqueueHolds DEF Woken, Carries
  <2> QED
    BY <2>2, <2>3
<1> QED
  BY <1>1, <1>2, <1>3, <1>4, <1>5, <1>6, CalmSteps

\* Only the end of its Advance takes a run's marks.
LEMMA MarksStay ==
    ASSUME ContextInv, [Next]_vars, Serving, Serving', NEW r \in Runs,
           \A p \in Procs : ~(EndAdvance(p) /\ at[p] = r)
    PROVE  /\ r \in inProgress => r \in inProgress'
           /\ r \in pending => r \in pending'
<1> DEFINE Goal == (r \in inProgress => r \in inProgress') /\ (r \in pending => r \in pending')
<1>0. TypeInv /\ TypeOK /\ FlightInv /\ Timer \in Procs
  BY DEF ContextInv, FlightInv, TypeInv, Procs
<1>1. ASSUME NEW p \in Procs, Calm(p) \/ Drive(p) \/ Feed(p) PROVE Goal
  <2>1. CASE Feed(p)
    BY <1>0, <2>1, EnqueueHolds DEF Feed, TypeOK
  <2>2. CASE Drive(p)
    BY <1>0, <2>2, DriveHolds
  <2> QED
    BY <1>1, <2>1, <2>2 DEF Calm
<1>2. ASSUME NEW p \in Procs, EndAdvance(p) PROVE Goal
  BY <1>2 DEF EndAdvance
<1>3. CASE TimeoutFail
  BY <1>3 DEF TimeoutFail
<1>4. CASE TimeoutEnqueue
  <2>1. EnqueueAdvance(Timer, at[Timer]) /\ at[Timer] \in Runs
    BY <1>0, <1>4 DEF TimeoutEnqueue, TypeInv, HasRunInHand
  <2> QED
    BY <1>0, <2>1, EnqueueHolds
<1> QED
  BY <1>1, <1>2, <1>3, <1>4, CalmSteps

\* A cancelled driver keeps the run it drives.
LEMMA CancelledKeeps ==
    ASSUME TypeInv, [Next]_vars, Serving', NEW p \in childDead, Driving(p), p \in childDead'
    PROVE  at'[p] = at[p]
<1> USE DEF TypeInv, TypeOK, DrivePCs, Driving
<1>1. {Drain, Timer, Boot} \cup Callers \subseteq Procs /\ p \in Procs
  BY DEF Procs
<1>2. ASSUME NEW q \in Procs, Continue(q) PROVE at'[p] = at[p]
  <2>1. CASE EndAdvance(q)
    BY <1>1, <2>1 DEF EndAdvance
  <2>2. CASE Advance(q) /\ ~EndAdvance(q)
    BY <2>2 DEF Advance, GetRun, Load, WalkTurn, BeginNode, FinishNode, FailNode, AbortNode,
                EndBatch, Finalize, Settle
  <2>3. CASE Drive(q) \/ Send(q) \/ TakeJob(q) \/ Feed(q)
    BY <1>1, <2>3 DEF Drive, Send, TakeJob, Feed, EnqueueAdvance
  <2>4. CASE ReplayClear(q) \/ ReplayRead(q) \/ ReplayMark(q)
    BY <1>1, <2>4 DEF ReplayClear, ReplayRead, ReplayMark
  <2>5. CASE KillMark(q) \/ KillParked(q) \/ KillCancel(q)
    BY <1>1, <2>5 DEF KillMark, KillParked, KillCancel
  <2> QED
    BY <1>2, <2>1, <2>2, <2>3, <2>4, <2>5 DEF Continue
<1>3. ASSUME NEW q \in Callers, Request(q) PROVE at'[p] = at[p]
  BY <1>1, <1>3 DEF Request, StartRun, DecideApproval, Replay, KillWorkflow, Disconnect, Accept, Idle
<1>4. CASE Ticks
  BY <1>1, <1>4 DEF Ticks, BeginFeed, EndFeed, SettleTimeout, TimeoutFail, TimeoutEnqueue,
                    EnqueueAdvance
<1>5. ASSUME \/ \E late \in SUBSET TimedNodes : CheckTimeouts(late)
             \/ \E r \in Runs, n \in NodeIds(G) : ClaimFiring(r, n)
      PROVE  at'[p] = at[p]
  BY <1>1, <1>5 DEF CheckTimeouts, ClaimFiring, Idle
<1>6. CASE Lifecycle \/ BeginShutdown \/ Crash \/ UNCHANGED vars
  BY <1>6 DEF Lifecycle, StartBoot, EndBoot, CancelAll, StopPool, Exit, BeginShutdown, Crash,
              ResetMemory, Serving
<1> QED
  BY <1>2, <1>3, <1>4, <1>5, <1>6 DEF Next

\* Only a kill cancels a driver while the server is up, and its run is over.
LEMMA CancelledFrom ==
    ASSUME ContextInv, [Next]_vars, Serving, Serving', NEW p \in childDead', p \notin childDead,
           NEW r \in Runs, r = at'[p]
    PROVE  ~Awake(r)'
<1> USE DEF ContextInv, FlightInv
<1>1. childDead' # childDead
  OBVIOUS
<1>2. ASSUME NEW q \in Procs, Continue(q) PROVE KillCancel(q)
  <2>1. CASE Drive(q) \/ EndAdvance(q)
    BY <2>1 DEF Drive, EndAdvance
  <2>2. CASE Advance(q) /\ ~EndAdvance(q)
    BY <1>1, <2>2 DEF Advance, GetRun, Load, WalkTurn, BeginNode, FinishNode, FailNode, AbortNode,
                      EndBatch, Finalize, Settle
  <2>3. CASE \/ Send(q) \/ TakeJob(q) \/ Feed(q)
             \/ ReplayClear(q) \/ ReplayRead(q) \/ ReplayMark(q) \/ KillMark(q) \/ KillParked(q)
    BY <1>1, <2>3 DEF Send, TakeJob, Feed, ReplayClear, ReplayRead, ReplayMark, KillMark, KillParked
  <2> QED
    BY <1>2, <2>1, <2>2, <2>3 DEF Continue
<1>3. ASSUME NEW q \in Callers, Request(q) PROVE FALSE
  BY <1>1, <1>3 DEF Request, StartRun, DecideApproval, Replay, KillWorkflow, Disconnect
<1>4. ASSUME \/ Ticks
             \/ \E late \in SUBSET TimedNodes : CheckTimeouts(late)
             \/ \E o \in Runs, n \in NodeIds(G) : ClaimFiring(o, n)
             \/ Lifecycle \/ BeginShutdown \/ Crash \/ UNCHANGED vars
      PROVE  FALSE
  BY <1>1, <1>4 DEF Ticks, BeginFeed, EndFeed, SettleTimeout, TimeoutFail, TimeoutEnqueue,
                    CheckTimeouts, ClaimFiring, Lifecycle, StartBoot, EndBoot, CancelAll, StopPool,
                    Exit, BeginShutdown, Crash, ResetMemory, Serving
<1>5. PICK q \in Procs : KillCancel(q)
  BY <1>2, <1>3, <1>4 DEF Next
<1>6. p = inflight[at[q]] /\ p # NoProc /\ pc[q] = "killcancel" /\ status' = status /\ frn' = frn
      /\ at' = [at EXCEPT ![q] = NoRun]
  BY <1>5 DEF KillCancel
<1>7. at[q] \in Runs /\ at[q] \in Ended
  BY <1>6 DEF TypeInv, HasRunInHand, Contexts, CancelledOver
<1>8. at[p] = at[q] /\ pc[p] \in DrivePCs
  BY <1>6, <1>7 DEF Contexts, Registered, Driving
<1>9. p # q
  BY <1>6, <1>8 DEF DrivePCs
<1>10. at'[p] = at[p]
  BY <1>6, <1>9 DEF TypeInv, TypeOK
<1> QED
  BY <1>6, <1>7, <1>8, <1>10 DEF Ended, Awake

LEMMA OwnerStep ==
    ASSUME ClientsStay, KillsApart, OwnerInv, [Next]_vars
    PROVE  OwnerInv'
<1>1. ContextInv /\ ContextInv'
  BY ContextStep DEF OwnerInv
<1>2. TypeInv /\ TypeOK /\ FlightInv /\ Boot \in Procs
  BY <1>1 DEF ContextInv, FlightInv, TypeInv, Procs
<1>3. ASSUME NEW p \in Procs, EndAdvance(p), Serving, Awake(at[p])
      PROVE  at[p] \in inProgress' \/ Woken(at[p])
  <2>1. pc[p] = "end" /\ p \notin baseDead
    BY <1>3 DEF EndAdvance, ClientsStay, Early, Serving
  <2>2. at[p] \in pending \/ Woken(at[p])
    BY <1>3, <2>1 DEF OwnerInv, Rewoken, Spent
  <2>3. at[p] \in inProgress
    BY <1>2, <2>1 DEF FlightInv, Marked, Driving, DrivePCs
  <2> QED
    BY <1>3, <2>1, <2>2, <2>3 DEF EndAdvance
<1>4. CASE ~Serving
  <2> SUFFICES ASSUME Serving' PROVE Pursued' /\ Rewoken'
    BY <1>1 DEF OwnerInv, Pursued, Rewoken
  <2>1. StartBoot
    BY <1>4, PhaseSteps DEF Serving, Lifecycle, StartBoot, EndBoot, CancelAll, StopPool, Exit,
                            BeginShutdown, Crash, ResetMemory
  <2>2. /\ status' = status /\ frn' = frn /\ list' = [list EXCEPT ![Boot] = Running]
        /\ pc' = [pc EXCEPT ![Boot] = "feed"] /\ \A p \in Procs : pc[p] = "idle"
        /\ childDead' = {}
    BY <1>1, <2>1 DEF StartBoot, ContextInv, DownQuiet
  <2>3. \A p \in Procs : ~Spent(p)'
    BY <1>2, <2>2 DEF TypeOK, Spent
  <2>4. \A r \in Runs : Awake(r)' => r \in list'[Boot]
    BY <1>2, <2>2 DEF Awake, Running, TypeOK
  <2> QED
    BY <2>3, <2>4 DEF Pursued, Rewoken, Woken
<1>5. CASE Serving
  <2>1. ASSUME Serving', NEW r \in Runs, Awake(r)', r \notin inProgress' PROVE Woken(r)'
    <3>1. CASE ~Awake(r)
      BY <1>1, <1>5, <2>1, <3>1, AwakeFrom DEF Woken
    <3>2. CASE Awake(r) /\ Woken(r)
      BY <1>1, <1>5, <2>1, <3>2, WokenStays
    <3>3. CASE Awake(r) /\ ~Woken(r)
      <4>1. r \in inProgress
        BY <1>5, <3>3 DEF OwnerInv, Pursued
      <4>2. PICK p \in Procs : EndAdvance(p) /\ at[p] = r
        BY <1>1, <1>5, <2>1, <4>1, MarksStay
      <4> QED
        BY <1>3, <1>5, <2>1, <3>3, <4>2
    <3> QED
      BY <3>1, <3>2, <3>3
  <2>2. ASSUME Serving', NEW p \in Procs, NEW r, r = at'[p], Spent(p)', Awake(r)'
        PROVE  r \in pending' \/ Woken(r)'
    <3>0. r \in Runs
      <4>1. pc'[p] \in DrivePCs
        BY <1>1, <2>2 DEF Spent, DrivePCs, ContextInv, Contexts, CancelledOver, Driving
      <4> QED
        BY <1>1, <2>2, <4>1 DEF DrivePCs, ContextInv, FlightInv, TypeInv, HasRunInHand
    <3>1. CASE Spent(p) /\ at[p] = r
      <4>0. Driving(p)
        BY <1>1, <1>5, <3>1 DEF Spent, Driving, DrivePCs, ContextInv, Contexts, CancelledOver
      <4>1. r \in inProgress
        BY <1>2, <3>1, <4>0 DEF FlightInv, Marked
      <4>2. CASE ~Awake(r)
        BY <1>1, <1>5, <2>2, <3>0, <4>2, AwakeFrom DEF Woken
      <4>3. CASE Woken(r)
        BY <1>1, <1>5, <2>2, <3>0, <4>1, <4>3, WokenStays
      <4>4. CASE r \in pending
        <5>1. ASSUME NEW q \in Procs, EndAdvance(q), at[q] = r PROVE FALSE
          <6>1. q = p
            BY <1>2, <3>1, <4>0, <5>1 DEF EndAdvance, FlightInv, SingleFlight, Driving, DrivePCs
          <6>2. pc'[p] # "end" /\ p \notin childDead'
            BY <1>2, <5>1, <6>1, HomeTypes DEF EndAdvance, TypeOK
          <6> QED
            BY <2>2, <6>2 DEF Spent
        <5> QED
          BY <1>1, <1>5, <2>2, <3>0, <4>4, <5>1, MarksStay
      <4> QED
        BY <1>5, <3>1, <4>2, <4>3, <4>4 DEF OwnerInv, Rewoken
    <3>2. CASE ~(Spent(p) /\ at[p] = r) /\ p \in childDead'
      <4>1. p \notin childDead
        <5> SUFFICES ASSUME p \in childDead PROVE FALSE
          OBVIOUS
        <5>1. Driving(p)
          BY <1>1, <1>5 DEF ContextInv, Contexts, CancelledOver
        <5> QED
          BY <1>2, <2>2, <3>2, <5>1, CancelledKeeps DEF Spent
      <4> QED
        BY <1>1, <1>5, <2>2, <3>0, <3>2, <4>1, CancelledFrom
    <3>3. CASE ~(Spent(p) /\ at[p] = r) /\ p \notin childDead'
      <4>1. pc'[p] = "end"
        BY <2>2, <3>3 DEF Spent
      <4>2. Advance(p)
        BY <1>2, <2>2, <3>3, <4>1, InsideSteps DEF Spent
      <4>3. p \notin childDead
        <5>1. ~EndAdvance(p)
          BY <1>2, <4>1, HomeTypes DEF EndAdvance, TypeOK
        <5>2. ~Load(p)
          BY <1>2, <1>5, <4>1 DEF Load, Goto, TypeOK, ClientsStay, Early, Serving
        <5>3. childDead' = childDead
          BY <4>2, <5>1, <5>2 DEF Advance, GetRun, WalkTurn, BeginNode, FinishNode, FailNode,
                                  AbortNode, EndBatch, Finalize, Settle
        <5> QED
          BY <3>3, <5>3
      <4> QED
        BY <1>1, <1>5, <2>2, <4>1, <4>2, <4>3, EndFrom
    <3> QED
      BY <3>1, <3>2, <3>3
  <2> QED
    BY <1>1, <2>1, <2>2 DEF OwnerInv, Pursued, Rewoken
<1> QED
  BY <1>4, <1>5

LEMMA OwnerInit == Init => OwnerInv
<1> SUFFICES ASSUME Init PROVE OwnerInv
  OBVIOUS
<1>1. phase = "down"
  BY DEF Init
<1> QED
  BY <1>1, ContextInit DEF OwnerInv, Pursued, Rewoken, Serving

\* While the server is up, a running run that awaits no approval is in somebody's
\* hands, whatever crashes, shutdowns, timeouts and decisions come between the
\* steps of its driver (pool.go drive, run.go Recover). No client goes away while
\* the server is up, and no kill meets a replay of its run: with either the model
\* has a run nobody drives.
THEOREM RunningHasOwnerInvariant == Spec /\ []ClientsStay /\ []KillsApart => []RunningHasOwner
<1>1. OwnerInv => RunningHasOwner
  <2> SUFFICES ASSUME OwnerInv, phase = "up", NEW r \in Running, ParkedKeys(r) = {}
               PROVE  InHand(r)
    BY DEF RunningHasOwner
  <2>1. r \in inProgress \/ Woken(r)
    BY DEF OwnerInv, Pursued, Serving, Awake, Running
  <2>2. list[Boot] = {}
    BY DEF OwnerInv, ContextInv, Contexts, BootLists
  <2> QED
    BY <2>1, <2>2 DEF Woken, Carries, InHand
<1>2. ClientsStay /\ KillsApart /\ OwnerInv /\ [Next]_vars => OwnerInv'
  BY OwnerStep
<1> QED
  BY <1>1, <1>2, OwnerInit, PTL DEF Spec

-----------------------------------------------------------------------------
(***************************************************************************)
(* A loop: a recursive function that steps from state to state until a     *)
(* final one. It exists whether or not the loop ends; and when every step  *)
(* keeps to a set of states and makes a finite set smaller, it ends in a   *)
(* final state of that set.                                                *)
(***************************************************************************)
LEMMA LoopExists ==
    ASSUME NEW S, NEW T, NEW step \in [S -> S]
    PROVE  \E f : f = [s \in S |-> IF s \in T THEN s ELSE f[step[s]]]
<1> DEFINE Onward(X) == \A x \in X : x \notin T => step[x] \in X
           E == [s \in S |-> {t \in S : t \in T /\ \A X \in SUBSET S : s \in X /\ Onward(X) => t \in X}]
           End(A) == CHOOSE t : t \in A
           f == [s \in S |-> End(E[s])]
<1>1. ASSUME NEW s \in S, s \in T PROVE End(E[s]) = s
  <2>1. E[s] = {s}
    <3>1. ASSUME NEW t \in E[s] PROVE t = s
      <4>1. {s} \in SUBSET S /\ s \in {s} /\ Onward({s})
        BY <1>1
      <4>2. \A X \in SUBSET S : s \in X /\ Onward(X) => t \in X
        BY <3>1
      <4> QED
        BY <4>1, <4>2
    <3>2. s \in E[s]
      BY <1>1
    <3> QED
      BY <3>1, <3>2
  <2> QED
    BY <2>1
<1>2. ASSUME NEW s \in S, s \notin T PROVE E[s] = E[step[s]]
  <2> step[s] \in S
    OBVIOUS
  <2>1. ASSUME NEW t \in E[step[s]] PROVE t \in E[s]
    <3>1. ASSUME NEW X \in SUBSET S, s \in X, Onward(X) PROVE t \in X
      BY <1>2, <2>1, <3>1
    <3> QED
      BY <2>1, <3>1
  <2>2. ASSUME NEW t \in E[s] PROVE t \in E[step[s]]
    <3>1. ASSUME NEW X \in SUBSET S, step[s] \in X, Onward(X) PROVE t \in X
      <4>1. X \cup {s} \in SUBSET S /\ s \in X \cup {s} /\ Onward(X \cup {s})
        BY <3>1
      <4>2. t \in X \cup {s} /\ t \in T
        BY <2>2, <4>1
      <4> QED
        BY <1>2, <4>2
    <3> QED
      BY <2>2, <3>1
  <2> QED
    BY <2>1, <2>2
<1> HIDE DEF E, End
<1>3. ASSUME NEW s \in S PROVE f[s] = IF s \in T THEN s ELSE f[step[s]]
  <2>1. f[s] = End(E[s]) /\ f[step[s]] = End(E[step[s]])
    OBVIOUS
  <2> HIDE DEF f
  <2> QED
    BY <1>1, <1>2, <2>1
<1> HIDE DEF f
<1>4. f = [s \in S |-> f[s]]
  BY DEF f
<1>5. [s \in S |-> f[s]] = [s \in S |-> IF s \in T THEN s ELSE f[step[s]]]
  BY <1>3
<1> QED
  BY <1>4, <1>5

LEMMA LoopEnds ==
    ASSUME NEW S, NEW T, NEW step \in [S -> S],
           NEW f, f = [s \in S |-> IF s \in T THEN s ELSE f[step[s]]],
           NEW X \in SUBSET S, NEW U, IsFiniteSet(U), NEW left \in [X -> SUBSET U],
           \A x \in X : x \notin T =>
               step[x] \in X /\ left[step[x]] \subseteq left[x] /\ left[step[x]] # left[x],
           NEW start \in X
    PROVE  f[start] \in X /\ f[start] \in T
<1> DEFINE Y == {x \in X : f[x] = f[start]}
           L == {left[y] : y \in Y}
<1>1. ASSUME NEW A \in SUBSET U PROVE A \in FiniteSubsetsOf(U)
  BY FS_Subset DEF FiniteSubsetsOf
<1>2. L \subseteq FiniteSubsetsOf(U) /\ L # {}
  BY <1>1
<1>3. IsWellFoundedOn(StrictSubsetOrdering(U), FiniteSubsetsOf(U))
  BY FS_StrictSubsetOrderingWellFounded
<1>4. PICK A \in L : \A B \in L : <<B, A>> \notin StrictSubsetOrdering(U)
  <2> HIDE DEF L
  <2> QED
    BY <1>2, <1>3, WFMin
<1>5. PICK y \in Y : A = left[y]
  BY <1>4
<1>6. y \in X /\ y \in S /\ f[y] = f[start]
  BY <1>5
<1>7. f[y] = IF y \in T THEN y ELSE f[step[y]]
  BY <1>6
<1>8. CASE y \in T
  BY <1>6, <1>7, <1>8
<1>9. CASE y \notin T
  <2>1. step[y] \in Y
    BY <1>6, <1>7, <1>9
  <2>2. left[step[y]] \in L /\ left[step[y]] \in SUBSET U /\ left[y] \in SUBSET U
    BY <1>6, <2>1
  <2>3. <<left[step[y]], left[y]>> \in StrictSubsetOrdering(U)
    BY <1>6, <1>9, <2>2 DEF StrictSubsetOrdering
  <2> QED
    BY <1>4, <1>5, <2>2, <2>3
<1> QED
  BY <1>8, <1>9

LEMMA Least ==
    ASSUME NEW T \in SUBSET Nat, T # {}
    PROVE  \E x \in T : \A y \in T : x <= y
<1> DEFINE R == {r \in Nat \X Nat : r[1] < r[2]}
<1>1. IsWellFoundedOn(R, Nat)
  BY NatLessThanWellFounded DEF OpToRel
<1> HIDE DEF R
<1>2. PICK x \in T : \A y \in T : <<y, x>> \notin R
  BY <1>1, WFMin
<1>3. ASSUME NEW y \in T PROVE x <= y
  <2>1. x \in Nat /\ y \in Nat /\ <<y, x>> \notin R
    BY <1>2
  <2>2. ~ (y < x)
    BY <2>1 DEF R
  <2> QED
    BY <2>1, <2>2
<1> QED
  BY <1>3

-----------------------------------------------------------------------------
(***************************************************************************)
(* ReachFrom computes the least set that contains its start and is closed  *)
(* under the edges.                                                        *)
(***************************************************************************)
Closed(h, F, Z) ==
    \A e \in F : h.edges[e].from \in Z /\ h.edges[e].to \in NodeIds(h) => h.edges[e].to \in Z

LEMMA ReachIsClosure ==
    ASSUME NEW h, IsFiniteSet(NodeIds(h)), NEW F, NEW S \in SUBSET NodeIds(h)
    PROVE  /\ ReachFrom(h, F, S) \in SUBSET NodeIds(h)
           /\ S \subseteq ReachFrom(h, F, S)
           /\ Closed(h, F, ReachFrom(h, F, S))
           /\ \A Z : S \subseteq Z /\ Closed(h, F, Z) => ReachFrom(h, F, S) \subseteq Z
<1> DEFINE N == NodeIds(h)
           Next1(T) == T \cup (NodeIds(h) \cap {h.edges[e].to : e \in {d \in F : h.edges[d].from \in T}})
           step == [T \in SUBSET N |-> Next1(T)]
           Stops == {T \in SUBSET N : Next1(T) = T}
           grow[T \in SUBSET NodeIds(h)] ==
               LET U == T \cup (NodeIds(h) \cap {h.edges[e].to : e \in {d \in F : h.edges[d].from \in T}})
               IN  IF U = T THEN T ELSE grow[U]
           X == {T \in SUBSET N : S \subseteq T /\ \A Z : S \subseteq Z /\ Closed(h, F, Z) => T \subseteq Z}
           left == [T \in X |-> N \ T]
<1>1. ReachFrom(h, F, S) = grow[S]
  BY DEF ReachFrom
<1>2. step \in [SUBSET N -> SUBSET N]
  OBVIOUS
<1>3. grow = [T \in SUBSET N |-> IF T \in Stops THEN T ELSE grow[step[T]]]
  <2> DEFINE Body(f) == [T \in SUBSET N |-> IF Next1(T) = T THEN T ELSE f[Next1(T)]]
  <2>1. grow = CHOOSE f : f = Body(f)
    BY DEF grow
  <2>2. PICK f : f = [T \in SUBSET N |-> IF T \in Stops THEN T ELSE f[step[T]]]
    <3> HIDE DEF N, Stops, step
    <3> QED
      BY <1>2, LoopExists
  <2>3. \A f1 : Body(f1) = [T \in SUBSET N |-> IF T \in Stops THEN T ELSE f1[step[T]]]
    OBVIOUS
  <2> HIDE DEF Body, grow, Stops, step, N
  <2>4. f = Body(f)
    BY <2>2, <2>3
  <2>5. grow = Body(grow)
    BY <2>1, <2>4
  <2> QED
    BY <2>3, <2>5
<1>4. ASSUME NEW T \in X, T \notin Stops
      PROVE  step[T] \in X /\ left[step[T]] \subseteq left[T] /\ left[step[T]] # left[T]
  <2>1. T \in SUBSET N /\ S \subseteq T /\ step[T] = Next1(T) /\ Next1(T) \in SUBSET N
        /\ T \subseteq Next1(T) /\ Next1(T) # T
    BY <1>4
  <2>2. ASSUME NEW Z, S \subseteq Z, Closed(h, F, Z) PROVE Next1(T) \subseteq Z
    <3>1. T \subseteq Z
      BY <2>2
    <3> QED
      BY <2>2, <3>1 DEF Closed
  <2>3. step[T] \in X
    BY <2>1, <2>2
  <2>4. left[T] = N \ T /\ left[step[T]] = N \ Next1(T)
    BY <2>1, <2>3
  <2> HIDE DEF X, left, step, Next1, N
  <2> QED
    BY <2>1, <2>3, <2>4
<1>5. S \in X /\ X \in SUBSET SUBSET N /\ left \in [X -> SUBSET N] /\ IsFiniteSet(N)
  OBVIOUS
<1>6. grow[S] \in X /\ grow[S] \in Stops
  <2> HIDE DEF X, left, step, Stops, grow, N
  <2> QED
    BY <1>2, <1>3, <1>4, <1>5, LoopEnds, SMTT(30)
<1>7. Closed(h, F, grow[S])
  <2> PICK R : R = grow[S]
    OBVIOUS
  <2>1. R \in SUBSET NodeIds(h) /\ Next1(R) = R
    BY <1>6
  <2>2. Closed(h, F, R)
    BY <2>1 DEF Closed
  <2> QED
    BY <2>2
<1> HIDE DEF grow
<1> QED
  BY <1>1, <1>6, <1>7

-----------------------------------------------------------------------------
(***************************************************************************)
(* The steps of the depth-first search. A step backs out of a node, begins *)
(* at a root, or follows an edge.                                          *)
(***************************************************************************)
IsGraph(h) ==
    /\ h.nodes \in Seq(NodeIds(h))
    /\ \E n \in Nat : EdgeIds(h) = 1..n

Whole(h) == UNION {OutEdges(h, n) : n \in NodeIds(h)}
Frames(h) == [node : NodeIds(h), left : SUBSET Whole(h)]

LEMMA WholeIs ==
    ASSUME NEW h
    PROVE  /\ Whole(h) \subseteq EdgeIds(h)
           /\ \A e \in Whole(h) : /\ h.edges[e].from \in NodeIds(h) /\ h.edges[e].to \in NodeIds(h)
                                  /\ e \in OutEdges(h, h.edges[e].from)
           /\ \A e \in EdgeIds(h) :
                h.edges[e].from \in NodeIds(h) /\ h.edges[e].to \in NodeIds(h) => e \in Whole(h)
           /\ \A n \in NodeIds(h) : OutEdges(h, n) \subseteq Whole(h)
BY DEF Whole, OutEdges

LEMMA StateParts ==
    ASSUME NEW h, NEW s
    PROVE  s \in SearchStates(h) <=>
               /\ s = [next |-> s.next, stack |-> s.stack, color |-> s.color, back |-> s.back]
               /\ s.next \in Nat \ {0}
               /\ s.stack \in Seq(Frames(h))
               /\ s.color \in [NodeIds(h) -> {"white", "gray", "black"}]
               /\ s.back \in SUBSET EdgeIds(h)
BY DEF SearchStates, Frames, Whole

BacksOut(h, s, t) ==
    LET top == Len(s.stack)
    IN  /\ top > 0
        /\ s.stack[top].left = {}
        /\ t.next = s.next
        /\ t.back = s.back
        /\ t.color = [s.color EXCEPT ![s.stack[top].node] = "black"]
        /\ Len(t.stack) = top - 1
        /\ \A k \in 1..(top - 1) : t.stack[k] = s.stack[k]

Begins(h, s, t) ==
    LET n == h.nodes[s.next]
    IN  /\ Len(s.stack) = 0
        /\ s.next <= Len(h.nodes)
        /\ t.next = s.next + 1
        /\ t.back = s.back
        /\ \/ s.color[n] # "white" /\ t.color = s.color /\ Len(t.stack) = 0
           \/ /\ s.color[n] = "white"
              /\ t.color = [s.color EXCEPT ![n] = "gray"]
              /\ Len(t.stack) = 1
              /\ t.stack[1] = [node |-> n, left |-> OutEdges(h, n)]

\* What the ways to follow edge e have in common.
Follows(h, s, t, e) ==
    LET top == Len(s.stack)
    IN  /\ top > 0
        /\ e \in s.stack[top].left
        /\ t.next = s.next
        /\ top <= Len(t.stack)
        /\ \A k \in 1..(top - 1) : t.stack[k] = s.stack[k]
        /\ t.stack[top] = [node |-> s.stack[top].node, left |-> s.stack[top].left \ {e}]

Turns(h, s, t, e) ==
    /\ Follows(h, s, t, e)
    /\ s.color[h.edges[e].to] = "gray"
    /\ t.back = s.back \cup {e}
    /\ t.color = s.color
    /\ Len(t.stack) = Len(s.stack)

Passes(h, s, t, e) ==
    /\ Follows(h, s, t, e)
    /\ s.color[h.edges[e].to] = "black"
    /\ t.back = s.back
    /\ t.color = s.color
    /\ Len(t.stack) = Len(s.stack)

Enters(h, s, t, e) ==
    LET n == h.edges[e].to
    IN  /\ Follows(h, s, t, e)
        /\ s.color[n] = "white"
        /\ t.back = s.back
        /\ t.color = [s.color EXCEPT ![n] = "gray"]
        /\ Len(t.stack) = Len(s.stack) + 1
        /\ t.stack[Len(s.stack) + 1] = [node |-> n, left |-> OutEdges(h, n)]

LEMMA FirstIs ==
    ASSUME NEW h, IsGraph(h), NEW E \in SUBSET EdgeIds(h), E # {}
    PROVE  FirstEdge(E) \in E
<1>1. E \in SUBSET Nat
  BY DEF IsGraph
<1>2. \E e \in E : \A d \in E : e <= d
  BY <1>1, Least
<1> QED
  BY <1>2 DEF FirstEdge

LEMMA TopIs ==
    ASSUME NEW h, NEW s \in SearchStates(h), s.stack # << >>
    PROVE  /\ s.stack \in Seq(Frames(h)) /\ Len(s.stack) \in 1..Len(s.stack) /\ Len(s.stack) \in Nat
           /\ s.stack[Len(s.stack)] \in Frames(h)
<1>1. s.stack \in Seq(Frames(h)) /\ Len(s.stack) \in Nat
  BY StateParts
<1>2. Len(s.stack) # 0
  <2> PICK q : q = s.stack
    OBVIOUS
  <2> q \in Seq(Frames(h)) /\ q # << >>
    BY <1>1
  <2> QED
    OBVIOUS
<1> QED
  BY <1>1, <1>2

LEMMA BeginsStep ==
    ASSUME NEW h, IsGraph(h), NEW s \in SearchStates(h), ~Searched(h, s), s.stack = << >>
    PROVE  SearchStep(h, s) \in SearchStates(h) /\ Begins(h, s, SearchStep(h, s))
<1> DEFINE n == h.nodes[s.next]
<1>1. s.next \in 1..Len(h.nodes) /\ h.nodes \in Seq(NodeIds(h)) /\ n \in NodeIds(h)
  BY StateParts DEF Searched, IsGraph
<1> PICK t : t = SearchStep(h, s)
  OBVIOUS
<1>2. t = NextRoot(h, s)
  BY DEF SearchStep
<1>3. CASE s.color[n] = "white"
  <2>1. t = [next |-> s.next + 1, stack |-> Append(s.stack, [node |-> n, left |-> OutEdges(h, n)]),
             color |-> [s.color EXCEPT ![n] = "gray"], back |-> s.back]
    <3>1. t = Visit(h, [s EXCEPT !.next = @ + 1], n)
      BY <1>2, <1>3 DEF NextRoot
    <3>2. s = [next |-> s.next, stack |-> s.stack, color |-> s.color, back |-> s.back]
      BY StateParts
    <3>3. [s EXCEPT !.next = @ + 1] = [next |-> s.next + 1, stack |-> s.stack, color |-> s.color, back |-> s.back]
      BY <3>2
    <3> QED
      BY <3>1, <3>3 DEF Visit
  <2>2. [node |-> n, left |-> OutEdges(h, n)] \in Frames(h)
    BY <1>1, WholeIs DEF Frames
  <2>3. Len(t.stack) = 1 /\ t.stack[1] = [node |-> n, left |-> OutEdges(h, n)] /\ t.stack \in Seq(Frames(h))
    BY <2>1, <2>2
  <2>4. t.color \in [NodeIds(h) -> {"white", "gray", "black"}] /\ t.next \in Nat \ {0} /\ t.back \in SUBSET EdgeIds(h)
    BY <1>1, <2>1, StateParts
  <2>5. t \in SearchStates(h)
    BY <2>1, <2>3, <2>4, StateParts
  <2> QED
    BY <1>1, <1>3, <2>1, <2>3, <2>5 DEF Begins
<1>4. CASE s.color[n] # "white"
  <2>1. t = [next |-> s.next + 1, stack |-> s.stack, color |-> s.color, back |-> s.back]
    BY <1>2, <1>4, StateParts DEF NextRoot
  <2>2. t \in SearchStates(h)
    BY <2>1, StateParts
  <2> QED
    BY <1>1, <1>4, <2>1, <2>2 DEF Begins
<1> QED
  BY <1>3, <1>4

LEMMA BacksOutStep ==
    ASSUME NEW h, IsGraph(h), NEW s \in SearchStates(h), s.stack # << >>, s.stack[Len(s.stack)].left = {}
    PROVE  SearchStep(h, s) \in SearchStates(h) /\ BacksOut(h, s, SearchStep(h, s))
<1> DEFINE top == Len(s.stack)
           n == s.stack[top].node
<1>1. s.stack \in Seq(Frames(h)) /\ top \in 1..Len(s.stack) /\ top \in Nat /\ n \in NodeIds(h)
  BY TopIs DEF Frames
<1> PICK t : t = SearchStep(h, s)
  OBVIOUS
<1>2. t = [next |-> s.next, stack |-> SubSeq(s.stack, 1, top - 1),
           color |-> [s.color EXCEPT ![n] = "black"], back |-> s.back]
  <2>1. t = [s EXCEPT !.color[n] = "black", !.stack = SubSeq(@, 1, top - 1)]
    BY DEF SearchStep, FollowEdge
  <2>2. s = [next |-> s.next, stack |-> s.stack, color |-> s.color, back |-> s.back]
    BY StateParts
  <2> QED
    BY <2>1, <2>2
<1>3. /\ t.stack \in Seq(Frames(h)) /\ Len(t.stack) = top - 1
      /\ \A k \in 1..(top - 1) : t.stack[k] = s.stack[k]
  BY <1>1, <1>2
<1>4. t.color \in [NodeIds(h) -> {"white", "gray", "black"}]
  BY <1>1, <1>2, StateParts
<1>5. t \in SearchStates(h)
  BY <1>2, <1>3, <1>4, StateParts
<1> QED
  BY <1>1, <1>2, <1>3, <1>5 DEF BacksOut

LEMMA FrameWithout ==
    ASSUME NEW N, NEW L, NEW f \in [node : N, left : SUBSET L], NEW e
    PROVE  [f EXCEPT !.left = f.left \ {e}] = [node |-> f.node, left |-> f.left \ {e}]
OBVIOUS

LEMMA FollowsStep ==
    ASSUME NEW h, IsGraph(h), NEW s \in SearchStates(h), s.stack # << >>, s.stack[Len(s.stack)].left # {}
    PROVE  /\ SearchStep(h, s) \in SearchStates(h)
           /\ \E e \in s.stack[Len(s.stack)].left :
                \/ Turns(h, s, SearchStep(h, s), e)
                \/ Passes(h, s, SearchStep(h, s), e)
                \/ Enters(h, s, SearchStep(h, s), e)
<1> DEFINE top == Len(s.stack)
           f == s.stack[top]
           e == FirstEdge(f.left)
           to == h.edges[e].to
           rest == [s.stack EXCEPT ![top] = [node |-> f.node, left |-> f.left \ {e}]]
<1>1. /\ s.stack \in Seq(Frames(h)) /\ top \in 1..Len(s.stack) /\ top \in Nat
      /\ f = [node |-> f.node, left |-> f.left] /\ f.node \in NodeIds(h) /\ f.left \in SUBSET Whole(h)
  BY TopIs DEF Frames
<1>2. e \in f.left /\ e \in Whole(h) /\ e \in EdgeIds(h)
  BY <1>1, FirstIs, WholeIs
<1>3. to \in NodeIds(h) /\ s.color[to] \in {"white", "gray", "black"}
  <2>1. to \in NodeIds(h)
    BY <1>2, WholeIs
  <2>2. s.color \in [NodeIds(h) -> {"white", "gray", "black"}]
    BY StateParts
  <2> HIDE DEF to
  <2> QED
    BY <2>1, <2>2
<1>4. rest \in Seq(Frames(h)) /\ Len(rest) = top /\ rest[top] = [node |-> f.node, left |-> f.left \ {e}]
      /\ \A k \in 1..(top - 1) : rest[k] = s.stack[k]
  <2>1. [node |-> f.node, left |-> f.left \ {e}] \in Frames(h)
    BY <1>1 DEF Frames
  <2> QED
    BY <1>1, <2>1
<1> PICK t : t = SearchStep(h, s)
  OBVIOUS
<1> DEFINE u == [next |-> s.next, stack |-> rest, color |-> s.color, back |-> s.back]
<1>5. [s EXCEPT !.stack[top].left = @ \ {e}] = u
  <2>1. [s.stack EXCEPT ![top] = [s.stack[top] EXCEPT !.left = @ \ {e}]] = rest
    <3> PICK q : q = s.stack[top]
      OBVIOUS
    <3>1. q \in [node : NodeIds(h), left : SUBSET Whole(h)]
      BY TopIs DEF Frames
    <3>2. [q EXCEPT !.left = q.left \ {e}] = [node |-> q.node, left |-> q.left \ {e}]
      <4> HIDE DEF e, f
      <4> QED
        BY <3>1, FrameWithout
    <3> QED
      BY <3>2
  <2>2. [s EXCEPT !.stack[top].left = @ \ {e}]
        = [s EXCEPT !.stack = [s.stack EXCEPT ![top] = [s.stack[top] EXCEPT !.left = @ \ {e}]]]
    OBVIOUS
  <2>3. s = [next |-> s.next, stack |-> s.stack, color |-> s.color, back |-> s.back]
    BY StateParts
  <2>4. [s EXCEPT !.stack = rest] = u
    <3> HIDE DEF rest
    <3> QED
      BY <2>3
  <2> QED
    BY <2>1, <2>2, <2>4
<1>6. t = CASE s.color[to] = "gray"  -> [u EXCEPT !.back = @ \cup {e}]
            [] s.color[to] = "white" -> Visit(h, u, to)
            [] OTHER                 -> u
  BY <1>5 DEF SearchStep, FollowEdge
<1> HIDE DEF rest
<1>7. CASE s.color[to] = "gray"
  <2>1. t = [next |-> s.next, stack |-> rest, color |-> s.color, back |-> s.back \cup {e}]
    BY <1>6, <1>7
  <2>2. t \in SearchStates(h)
    BY <1>2, <1>4, <2>1, StateParts
  <2>3. Turns(h, s, t, e)
    BY <1>1, <1>2, <1>4, <1>7, <2>1 DEF Turns, Follows
  <2> QED
    BY <1>2, <2>2, <2>3
<1>8. CASE s.color[to] = "black"
  <2>1. t = [next |-> s.next, stack |-> rest, color |-> s.color, back |-> s.back]
    BY <1>6, <1>8
  <2>2. t \in SearchStates(h)
    BY <1>4, <2>1, StateParts
  <2>3. Passes(h, s, t, e)
    BY <1>1, <1>2, <1>4, <1>8, <2>1 DEF Passes, Follows
  <2> QED
    BY <1>2, <2>2, <2>3
<1>9. CASE s.color[to] = "white"
  <2>1. t = [next |-> s.next, stack |-> Append(rest, [node |-> to, left |-> OutEdges(h, to)]),
             color |-> [s.color EXCEPT ![to] = "gray"], back |-> s.back]
    BY <1>6, <1>9 DEF Visit
  <2>2. [node |-> to, left |-> OutEdges(h, to)] \in Frames(h)
    BY <1>3, WholeIs DEF Frames
  <2>3. /\ t.stack \in Seq(Frames(h)) /\ Len(t.stack) = top + 1
        /\ t.stack[top + 1] = [node |-> to, left |-> OutEdges(h, to)]
        /\ \A k \in 1..top : t.stack[k] = rest[k]
    <3> HIDE DEF to, e, f, u
    <3>1. t.stack = Append(rest, [node |-> to, left |-> OutEdges(h, to)])
      BY <2>1, SMTT(30)
    <3> QED
      BY <1>1, <1>4, <2>2, <3>1
  <2>4. t.color \in [NodeIds(h) -> {"white", "gray", "black"}]
    <3> HIDE DEF to
    <3>1. t.color = [s.color EXCEPT ![to] = "gray"]
      BY <2>1
    <3>2. s.color \in [NodeIds(h) -> {"white", "gray", "black"}]
      BY StateParts
    <3> QED
      BY <1>3, <3>1, <3>2
  <2>5. t \in SearchStates(h)
    BY <2>1, <2>3, <2>4, StateParts
  <2>6. Enters(h, s, t, e)
    <3>1. t.next = s.next /\ t.back = s.back /\ t.color = [s.color EXCEPT ![to] = "gray"]
      BY ONLY <2>1
    <3>2. Follows(h, s, t, e)
      <4> HIDE DEF e, u
      <4> QED
        BY <1>1, <1>2, <1>4, <2>3, <3>1 DEF Follows
    <3> HIDE DEF e, u
    <3> QED
      BY <1>9, <2>3, <3>1, <3>2 DEF Enters
  <2> QED
    BY <1>2, <2>5, <2>6
<1> QED
  BY <1>3, <1>7, <1>8, <1>9

LEMMA StepIs ==
    ASSUME NEW h, IsGraph(h), NEW s \in SearchStates(h), ~Searched(h, s), NEW t, t = SearchStep(h, s)
    PROVE  /\ t \in SearchStates(h)
           /\ \/ BacksOut(h, s, t)
              \/ Begins(h, s, t)
              \/ \E e \in s.stack[Len(s.stack)].left :
                    Turns(h, s, t, e) \/ Passes(h, s, t, e) \/ Enters(h, s, t, e)
BY BeginsStep, BacksOutStep, FollowsStep

-----------------------------------------------------------------------------
(***************************************************************************)
(* The shape of the search: the stack holds the gray nodes, each once,     *)
(* with edges that leave them; the roots passed have been visited.         *)
(***************************************************************************)
Stacked(s) == 1..Len(s.stack)

PathShape(h, s) ==
    /\ s \in SearchStates(h)
    /\ \A n \in NodeIds(h) : s.color[n] = "gray" <=> \E k \in Stacked(s) : s.stack[k].node = n
    /\ \A j, k \in Stacked(s) : s.stack[j].node = s.stack[k].node => j = k
    /\ \A k \in Stacked(s) : s.stack[k].left \subseteq OutEdges(h, s.stack[k].node)
    /\ \A i \in 1..Len(h.nodes) : i < s.next => s.color[h.nodes[i]] # "white"

\* The edges that have been followed, those of them that are no back edges, and
\* the nodes that are done with.
Followed(h, s) ==
    {e \in Whole(h) : /\ s.color[h.edges[e].from] # "white"
                      /\ \A k \in Stacked(s) : e \notin s.stack[k].left}
Ahead(h, s) == Followed(h, s) \ s.back
Done(h, s) == {n \in NodeIds(h) : s.color[n] = "black"}

LEMMA StackTyped ==
    ASSUME NEW h, NEW s \in SearchStates(h)
    PROVE  /\ Len(s.stack) \in Nat
           /\ \A k \in Stacked(s) : s.stack[k] \in Frames(h) /\ s.stack[k].node \in NodeIds(h)
                                    /\ s.stack[k].left \in SUBSET Whole(h)
           /\ s.color \in [NodeIds(h) -> {"white", "gray", "black"}]
           /\ s.next \in Nat \ {0}
           /\ s.back \in SUBSET EdgeIds(h)
<1>1. s.stack \in Seq(Frames(h)) /\ s.color \in [NodeIds(h) -> {"white", "gray", "black"}]
      /\ s.next \in Nat \ {0} /\ s.back \in SUBSET EdgeIds(h)
  BY StateParts
<1>2. ASSUME NEW k \in Stacked(s) PROVE s.stack[k] \in Frames(h)
  BY <1>1 DEF Stacked
<1> QED
  BY <1>1, <1>2 DEF Frames

LEMMA BacksOutShape ==
    ASSUME NEW h, IsGraph(h), NEW s, NEW t, PathShape(h, s), t \in SearchStates(h), BacksOut(h, s, t)
    PROVE  /\ PathShape(h, t)
           /\ Followed(h, t) = Followed(h, s)
           /\ Done(h, t) = Done(h, s) \cup {s.stack[Len(s.stack)].node}
           /\ s.stack[Len(s.stack)].node \in NodeIds(h) \ Done(h, s)
<1> DEFINE top == Len(s.stack)
           u == s.stack[top].node
<1>0. s \in SearchStates(h) /\ t \in SearchStates(h)
  BY DEF PathShape
<1>1. /\ top \in Nat /\ top > 0 /\ Len(t.stack) = top - 1 /\ \A k \in 1..(top - 1) : t.stack[k] = s.stack[k]
      /\ t.color = [s.color EXCEPT ![u] = "black"] /\ t.next = s.next /\ s.stack[top].left = {}
  BY <1>0, StackTyped DEF BacksOut
<1>2. Stacked(t) \subseteq Stacked(s) /\ top \in Stacked(s) /\ Stacked(t) = Stacked(s) \ {top}
      /\ \A k \in Stacked(t) : t.stack[k] = s.stack[k]
  BY <1>1 DEF Stacked
<1>3. u \in NodeIds(h) /\ s.color \in [NodeIds(h) -> {"white", "gray", "black"}] /\ s.color[u] = "gray"
  BY <1>0, <1>2, StackTyped DEF PathShape
<1> HIDE DEF top
<1>4. \A n \in NodeIds(h) : t.color[n] = IF n = u THEN "black" ELSE s.color[n]
  <2> HIDE DEF u
  <2> QED
    BY <1>1, <1>3
<1>5. \A n \in NodeIds(h) : t.color[n] = "gray" <=> \E k \in Stacked(t) : t.stack[k].node = n
  <2>1. ASSUME NEW n \in NodeIds(h), t.color[n] = "gray" PROVE \E k \in Stacked(t) : t.stack[k].node = n
    <3>1. n # u /\ s.color[n] = "gray"
      BY <1>4, <2>1
    <3>2. PICK k \in Stacked(s) : s.stack[k].node = n
      BY <3>1 DEF PathShape
    <3> QED
      BY <1>2, <3>1, <3>2
  <2>2. ASSUME NEW n \in NodeIds(h), NEW k \in Stacked(t), t.stack[k].node = n PROVE t.color[n] = "gray"
    <3>1. k \in Stacked(s) /\ k # top /\ s.stack[k].node = n
      BY <1>2, <2>2
    <3>2. s.color[n] = "gray" /\ n # u
      BY <1>2, <3>1 DEF PathShape
    <3> QED
      BY <1>4, <3>2
  <2> QED
    BY <2>1, <2>2
<1>6. /\ \A j, k \in Stacked(t) : t.stack[j].node = t.stack[k].node => j = k
      /\ \A k \in Stacked(t) : t.stack[k].left \subseteq OutEdges(h, t.stack[k].node)
  BY <1>2 DEF PathShape
<1>7. \A i \in 1..Len(h.nodes) : i < t.next => t.color[h.nodes[i]] # "white"
  <2>1. \A i \in 1..Len(h.nodes) : h.nodes[i] \in NodeIds(h)
    BY DEF IsGraph
  <2> QED
    BY <1>1, <1>4, <2>1 DEF PathShape
<1>8. Followed(h, t) = Followed(h, s)
  <2>1. ASSUME NEW e \in Whole(h)
        PROVE  /\ t.color[h.edges[e].from] # "white" <=> s.color[h.edges[e].from] # "white"
               /\ (\A k \in Stacked(t) : e \notin t.stack[k].left) <=> (\A k \in Stacked(s) : e \notin s.stack[k].left)
    <3>1. h.edges[e].from \in NodeIds(h)
      BY WholeIs
    <3> QED
      BY <1>1, <1>2, <1>3, <1>4, <3>1
  <2> QED
    BY <2>1 DEF Followed
<1>9. Done(h, t) = Done(h, s) \cup {u} /\ u \notin Done(h, s)
  <2> HIDE DEF u
  <2> QED
    BY <1>3, <1>4 DEF Done
<1> QED
  BY <1>0, <1>3, <1>5, <1>6, <1>7, <1>8, <1>9 DEF PathShape, top

LEMMA BeginsShape ==
    ASSUME NEW h, IsGraph(h), NEW s, NEW t, PathShape(h, s), t \in SearchStates(h), Begins(h, s, t)
    PROVE  /\ PathShape(h, t)
           /\ Followed(h, t) = Followed(h, s)
           /\ Done(h, t) = Done(h, s)
<1> DEFINE u == h.nodes[s.next]
<1>0. s \in SearchStates(h) /\ t \in SearchStates(h)
  BY DEF PathShape
<1>1. /\ Len(s.stack) = 0 /\ s.next \in 1..Len(h.nodes) /\ t.next = s.next + 1 /\ Len(h.nodes) \in Nat
      /\ \A i \in 1..Len(h.nodes) : h.nodes[i] \in NodeIds(h)
  BY <1>0, StackTyped DEF Begins, IsGraph
<1>2. u \in NodeIds(h) /\ s.color \in [NodeIds(h) -> {"white", "gray", "black"}] /\ Stacked(s) = {}
  BY <1>0, <1>1, StackTyped DEF Stacked
<1>3. CASE s.color[u] # "white"
  <2>1. t.color = s.color /\ Stacked(t) = {}
    BY <1>3 DEF Begins, Stacked
  <2>2. \A i \in 1..Len(h.nodes) : i < t.next => t.color[h.nodes[i]] # "white"
    <3>1. \A i \in 1..Len(h.nodes) : i < t.next => i < s.next \/ i = s.next
      BY <1>1
    <3> QED
      BY <1>3, <2>1, <3>1 DEF PathShape
  <2>3. PathShape(h, t)
    BY <1>0, <1>2, <2>1, <2>2 DEF PathShape
  <2> QED
    BY <1>2, <2>1, <2>3 DEF Followed, Done
<1>4. CASE s.color[u] = "white"
  <2>1. /\ t.color = [s.color EXCEPT ![u] = "gray"] /\ Stacked(t) = {1}
        /\ t.stack[1].node = u /\ t.stack[1].left = OutEdges(h, u)
    <3>1. t.color = [s.color EXCEPT ![u] = "gray"] /\ Len(t.stack) = 1
          /\ t.stack[1] = [node |-> u, left |-> OutEdges(h, u)]
      BY <1>4 DEF Begins
    <3> HIDE DEF u
    <3> QED
      BY <3>1 DEF Stacked
  <2>2. \A n \in NodeIds(h) : t.color[n] = IF n = u THEN "gray" ELSE s.color[n]
    <3> HIDE DEF u
    <3> QED
      BY <1>2, <2>1
  <2>3. \A n \in NodeIds(h) : s.color[n] # "gray"
    BY <1>2 DEF PathShape
  <2>4. \A i \in 1..Len(h.nodes) : i < t.next => t.color[h.nodes[i]] # "white"
    <3>1. \A i \in 1..Len(h.nodes) : i < t.next => i < s.next \/ i = s.next
      BY <1>1
    <3> QED
      BY <1>1, <2>2, <3>1 DEF PathShape
  <2>5. PathShape(h, t)
    BY <1>0, <2>1, <2>2, <2>3, <2>4 DEF PathShape
  <2>6. Followed(h, t) = Followed(h, s)
    <3>1. ASSUME NEW e \in Whole(h) PROVE e \in Followed(h, t) <=> e \in Followed(h, s)
      <4>1. h.edges[e].from \in NodeIds(h) /\ (e \in OutEdges(h, u) <=> h.edges[e].from = u)
        BY WholeIs DEF OutEdges
      <4> QED
        BY <1>2, <1>4, <2>1, <2>2, <4>1 DEF Followed
    <3> QED
      BY <3>1 DEF Followed
  <2>7. Done(h, t) = Done(h, s)
    BY <1>4, <2>2 DEF Done
  <2> QED
    BY <2>5, <2>6, <2>7
<1> QED
  BY <1>3, <1>4

\* Following an edge: the frame on top loses it; a new node comes on top of that.
LEMMA FollowsParts ==
    ASSUME NEW h, NEW s, NEW t, NEW e, PathShape(h, s), t \in SearchStates(h), Follows(h, s, t, e)
    PROVE  LET top == Len(s.stack)
           IN  /\ top \in Stacked(s) /\ top \in Nat /\ top > 0
               /\ e \in Whole(h) /\ h.edges[e].from = s.stack[top].node
               /\ h.edges[e].from \in NodeIds(h) /\ h.edges[e].to \in NodeIds(h)
               /\ Stacked(s) \subseteq Stacked(t)
               /\ \A k \in Stacked(s) : /\ t.stack[k].node = s.stack[k].node
                                        /\ t.stack[k].left = s.stack[k].left \ {e}
               /\ s.color[h.edges[e].from] = "gray"
               /\ e \notin Followed(h, s)
<1> DEFINE top == Len(s.stack)
<1>0. s \in SearchStates(h) /\ t \in SearchStates(h)
  BY DEF PathShape
<1>1. /\ top \in Nat /\ top > 0 /\ Len(t.stack) \in Nat /\ top <= Len(t.stack) /\ e \in s.stack[top].left
      /\ \A k \in 1..(top - 1) : t.stack[k] = s.stack[k]
      /\ t.stack[top] = [node |-> s.stack[top].node, left |-> s.stack[top].left \ {e}]
  BY <1>0, StackTyped DEF Follows
<1>2. top \in Stacked(s) /\ Stacked(s) \subseteq Stacked(t)
  BY <1>1 DEF Stacked
<1>3. e \in OutEdges(h, s.stack[top].node) /\ e \in Whole(h) /\ s.stack[top].node \in NodeIds(h)
  BY <1>0, <1>1, <1>2, StackTyped DEF PathShape
<1>4. h.edges[e].from = s.stack[top].node /\ h.edges[e].to \in NodeIds(h)
  BY <1>3, WholeIs DEF OutEdges
<1>5. s.color[h.edges[e].from] = "gray"
  BY <1>2, <1>3, <1>4 DEF PathShape
<1>6. ASSUME NEW k \in Stacked(s)
      PROVE  t.stack[k].node = s.stack[k].node /\ t.stack[k].left = s.stack[k].left \ {e}
  <2>1. CASE k = top
    <3> HIDE DEF top
    <3> QED
      BY <1>1, <2>1
  <2>2. CASE k # top
    <3>1. k \in 1..(top - 1) /\ t.stack[k] = s.stack[k]
      BY <1>1, <2>2 DEF Stacked
    <3>2. s.stack[k].node # s.stack[top].node /\ s.stack[k].left \subseteq OutEdges(h, s.stack[k].node)
      BY <1>2, <2>2 DEF PathShape
    <3>3. e \notin s.stack[k].left
      BY <1>4, <3>2 DEF OutEdges
    <3> QED
      BY <3>1, <3>3
  <2> QED
    BY <2>1, <2>2
<1>7. e \notin Followed(h, s)
  BY <1>1, <1>2 DEF Followed
<1> QED
  BY <1>1, <1>2, <1>3, <1>4, <1>5, <1>6, <1>7

LEMMA FollowedAt ==
    ASSUME NEW h, NEW s, NEW e \in Whole(h)
    PROVE  e \in Followed(h, s) <=> /\ s.color[h.edges[e].from] # "white"
                                    /\ \A k \in Stacked(s) : e \notin s.stack[k].left
BY DEF Followed

LEMMA StaysShape ==
    ASSUME NEW h, NEW s, NEW t, NEW e, PathShape(h, s), t \in SearchStates(h),
           Turns(h, s, t, e) \/ Passes(h, s, t, e)
    PROVE  /\ PathShape(h, t)
           /\ Followed(h, t) = Followed(h, s) \cup {e}
           /\ Done(h, t) = Done(h, s)
<1>1. Follows(h, s, t, e) /\ t.color = s.color /\ Len(t.stack) = Len(s.stack) /\ t.next = s.next
  BY DEF Turns, Passes, Follows
<1>2. Stacked(t) = Stacked(s)
  BY <1>1 DEF Stacked
<1>3. /\ e \in Whole(h) /\ s.color[h.edges[e].from] = "gray"
      /\ \A k \in Stacked(s) : /\ t.stack[k].node = s.stack[k].node
                               /\ t.stack[k].left = s.stack[k].left \ {e}
      /\ e \notin Followed(h, s)
  BY <1>1, FollowsParts
<1>4. PathShape(h, t)
  <2>1. \A n \in NodeIds(h) : t.color[n] = "gray" <=> \E k \in Stacked(t) : t.stack[k].node = n
    BY <1>1, <1>2, <1>3 DEF PathShape
  <2>2. \A j, k \in Stacked(t) : t.stack[j].node = t.stack[k].node => j = k
    BY <1>1, <1>2, <1>3 DEF PathShape
  <2>3. \A k \in Stacked(t) : t.stack[k].left \subseteq OutEdges(h, t.stack[k].node)
    BY <1>1, <1>2, <1>3 DEF PathShape
  <2> QED
    BY <1>1, <2>1, <2>2, <2>3 DEF PathShape
<1>5. ASSUME NEW d \in Whole(h) PROVE d \in Followed(h, t) <=> d \in Followed(h, s) \cup {e}
  BY <1>1, <1>2, <1>3, FollowedAt
<1>6. Followed(h, t) = Followed(h, s) \cup {e}
  <2>1. Followed(h, t) \subseteq Whole(h) /\ Followed(h, s) \subseteq Whole(h)
    BY DEF Followed
  <2> QED
    BY <1>3, <1>5, <2>1
<1> QED
  BY <1>1, <1>4, <1>6 DEF Done

LEMMA EntersShape ==
    ASSUME NEW h, IsGraph(h), NEW s, NEW t, NEW e, PathShape(h, s), t \in SearchStates(h), Enters(h, s, t, e)
    PROVE  /\ PathShape(h, t)
           /\ Followed(h, t) = Followed(h, s) \cup {e}
           /\ Done(h, t) = Done(h, s)
           /\ Stacked(t) = Stacked(s) \cup {Len(s.stack) + 1}
           /\ t.stack[Len(s.stack) + 1].node = h.edges[e].to
           /\ \A k \in Stacked(s) : t.stack[k].node = s.stack[k].node
<1> DEFINE top == Len(s.stack)
           u == h.edges[e].to
<1>1. /\ Follows(h, s, t, e) /\ t.color = [s.color EXCEPT ![u] = "gray"] /\ Len(t.stack) = top + 1
      /\ t.next = s.next /\ s.color[u] = "white"
      /\ t.stack[top + 1] = [node |-> u, left |-> OutEdges(h, u)]
  BY DEF Enters, Follows
<1>2. /\ e \in Whole(h) /\ s.color[h.edges[e].from] = "gray" /\ u \in NodeIds(h) /\ top \in Nat
      /\ \A k \in Stacked(s) : /\ t.stack[k].node = s.stack[k].node
                               /\ t.stack[k].left = s.stack[k].left \ {e}
      /\ e \notin Followed(h, s)
  BY <1>1, FollowsParts
<1> HIDE DEF top
<1>3. Stacked(t) = Stacked(s) \cup {top + 1} /\ top + 1 \notin Stacked(s)
  BY <1>1, <1>2 DEF Stacked, top
<1>4. t.stack[top + 1].node = u /\ t.stack[top + 1].left = OutEdges(h, u)
  <2> HIDE DEF u
  <2> QED
    BY <1>1
<1>5. \A n \in NodeIds(h) : t.color[n] = IF n = u THEN "gray" ELSE s.color[n]
  <2>1. s.color \in [NodeIds(h) -> {"white", "gray", "black"}]
    BY StackTyped DEF PathShape
  <2> HIDE DEF u
  <2> QED
    BY <1>1, <1>2, <2>1
<1>6. \A k \in Stacked(s) : s.stack[k].node # u
  BY <1>1, <1>2 DEF PathShape
<1> HIDE DEF u
<1>7. \A n \in NodeIds(h) : t.color[n] = "gray" <=> \E k \in Stacked(t) : t.stack[k].node = n
  <2>1. ASSUME NEW n \in NodeIds(h), t.color[n] = "gray" PROVE \E k \in Stacked(t) : t.stack[k].node = n
    BY <1>2, <1>3, <1>4, <1>5, <2>1 DEF PathShape
  <2>2. ASSUME NEW n \in NodeIds(h), NEW k \in Stacked(t), t.stack[k].node = n PROVE t.color[n] = "gray"
    BY <1>2, <1>3, <1>4, <1>5, <2>2 DEF PathShape
  <2> QED
    BY <2>1, <2>2
<1>8. \A j, k \in Stacked(t) : t.stack[j].node = t.stack[k].node => j = k
  BY <1>2, <1>3, <1>4, <1>6 DEF PathShape
<1>9. \A k \in Stacked(t) : t.stack[k].left \subseteq OutEdges(h, t.stack[k].node)
  BY <1>2, <1>3, <1>4 DEF PathShape
<1>10. \A i \in 1..Len(h.nodes) : i < t.next => t.color[h.nodes[i]] # "white"
  <2>1. \A i \in 1..Len(h.nodes) : h.nodes[i] \in NodeIds(h)
    BY DEF IsGraph
  <2> QED
    BY <1>1, <1>5, <2>1 DEF PathShape
<1>11. PathShape(h, t)
  BY <1>7, <1>8, <1>9, <1>10 DEF PathShape
<1>12. ASSUME NEW d \in Whole(h) PROVE d \in Followed(h, t) <=> d \in Followed(h, s) \cup {e}
  <2>1. h.edges[d].from \in NodeIds(h) /\ (d \in OutEdges(h, u) <=> h.edges[d].from = u)
    BY WholeIs DEF OutEdges
  <2>2. h.edges[e].from # u /\ s.color[u] = "white"
    BY <1>1, <1>2 DEF u
  <2>3. CASE h.edges[d].from = u
    <3>1. d \notin Followed(h, t)
      BY <1>3, <1>4, <2>1, <2>3, FollowedAt
    <3>2. d \notin Followed(h, s) /\ d # e
      BY <2>2, <2>3, FollowedAt
    <3> QED
      BY <3>1, <3>2
  <2>4. CASE h.edges[d].from # u
    <3>1. t.color[h.edges[d].from] = s.color[h.edges[d].from] /\ d \notin OutEdges(h, u)
      BY <1>5, <2>1, <2>4
    <3>2. (\A k \in Stacked(t) : d \notin t.stack[k].left) <=> (\A k \in Stacked(s) : d \notin s.stack[k].left \ {e})
      BY <1>2, <1>3, <1>4, <3>1
    <3> QED
      BY <1>2, <3>1, <3>2, FollowedAt
  <2> QED
    BY <2>3, <2>4
<1>13. Followed(h, t) = Followed(h, s) \cup {e}
  <2>1. Followed(h, t) \subseteq Whole(h) /\ Followed(h, s) \subseteq Whole(h)
    BY DEF Followed
  <2> QED
    BY <1>2, <1>12, <2>1
<1>14. Done(h, t) = Done(h, s)
  <2>1. s.color[u] = "white"
    BY <1>1 DEF u
  <2> QED
    BY <1>5, <2>1 DEF Done
<1> QED
  BY <1>2, <1>3, <1>4, <1>11, <1>13, <1>14 DEF top, u

-----------------------------------------------------------------------------
(***************************************************************************)
(* What the search knows. The stack is a path of edges that are no back    *)
(* edges; any other such edge leads to a node that is done with. Whatever  *)
(* a done node leads to without back edges is done too and leaves it out.  *)
(* From where a back edge leads there is a path to where it came from.     *)
(***************************************************************************)
Linked(h, s) ==
    \A k \in Stacked(s) : k + 1 \in Stacked(s) =>
        \E e \in Ahead(h, s) : h.edges[e].from = s.stack[k].node /\ h.edges[e].to = s.stack[k + 1].node

LeadsOn(h, s) ==
    \A e \in Ahead(h, s) :
        \/ h.edges[e].to \in Done(h, s)
        \/ \E k \in Stacked(s) : /\ k + 1 \in Stacked(s)
                                 /\ h.edges[e].from = s.stack[k].node
                                 /\ h.edges[e].to = s.stack[k + 1].node

Sunk(h, s) ==
    \A u \in Done(h, s) : \E C \in SUBSET (Done(h, s) \ {u}) :
        \A e \in Whole(h) \ s.back : h.edges[e].from \in C \cup {u} => h.edges[e].to \in C

Leads(h, A, Z) == \A d \in A : h.edges[d].from \in Z => h.edges[d].to \in Z

Closing(h, s) ==
    \A e \in s.back :
        /\ e \in Followed(h, s)
        /\ s.color[h.edges[e].to] # "white"
        /\ \A Z : h.edges[e].to \in Z /\ Leads(h, Ahead(h, s), Z) => h.edges[e].from \in Z

SearchInv(h, s) == PathShape(h, s) /\ Linked(h, s) /\ LeadsOn(h, s) /\ Sunk(h, s) /\ Closing(h, s)

\* What holds of a node of the stack, and passes on from each node to the next,
\* holds of all those above it.
LEMMA StackClimb ==
    ASSUME NEW h, NEW s \in SearchStates(h), NEW Z,
           \A k \in Stacked(s) : k + 1 \in Stacked(s) /\ s.stack[k].node \in Z => s.stack[k + 1].node \in Z,
           NEW j \in Stacked(s), s.stack[j].node \in Z, NEW k \in Stacked(s), j <= k
    PROVE  s.stack[k].node \in Z
<1> DEFINE Out == {i \in Stacked(s) : j <= i /\ s.stack[i].node \notin Z}
<1>0. Stacked(s) \in SUBSET Nat
  BY StackTyped DEF Stacked
<1> SUFFICES ASSUME s.stack[k].node \notin Z PROVE FALSE
  OBVIOUS
<1>1. Out \in SUBSET Nat /\ Out # {}
  BY <1>0
<1>2. PICK i \in Out : \A y \in Out : i <= y
  BY <1>1, Least
<1>3. i # j /\ i > j /\ i \in Nat /\ j \in Nat
  BY <1>0, <1>2
<1>4. i - 1 \in Stacked(s) /\ i \in Stacked(s) /\ (i - 1) + 1 = i /\ j <= i - 1 /\ ~ (i <= i - 1)
  BY <1>2, <1>3, StackTyped DEF Stacked
<1>5. i - 1 \notin Out
  BY <1>2, <1>4
<1>6. s.stack[i - 1].node \in Z
  BY <1>4, <1>5
<1> QED
  BY <1>2, <1>4, <1>6

LEMMA DoneLeadsToDone ==
    ASSUME NEW h, NEW s, PathShape(h, s), LeadsOn(h, s),
           NEW e \in Whole(h) \ s.back, h.edges[e].from \in Done(h, s)
    PROVE  h.edges[e].to \in Done(h, s)
<1>1. h.edges[e].from \in NodeIds(h) /\ s.color[h.edges[e].from] = "black"
  BY DEF Done
<1>2. \A k \in Stacked(s) : s.stack[k].node # h.edges[e].from
  BY <1>1 DEF PathShape
<1>3. \A k \in Stacked(s) : e \notin s.stack[k].left
  BY <1>2 DEF PathShape, OutEdges
<1>4. e \in Ahead(h, s)
  BY <1>1, <1>3 DEF Ahead, Followed
<1> QED
  BY <1>2, <1>4 DEF LeadsOn

\* The parts that only grow: more edges followed, none of the back edges taken back.
LEMMA ClosingGrows ==
    ASSUME NEW h, NEW s, NEW t, Closing(h, s),
           Followed(h, s) \subseteq Followed(h, t), Ahead(h, s) \subseteq Ahead(h, t),
           \A n \in NodeIds(h) : s.color[n] # "white" => t.color[n] # "white",
           NEW e \in s.back
    PROVE  /\ e \in Followed(h, t)
           /\ t.color[h.edges[e].to] # "white"
           /\ \A Z : h.edges[e].to \in Z /\ Leads(h, Ahead(h, t), Z) => h.edges[e].from \in Z
<1>1. /\ e \in Followed(h, s) /\ s.color[h.edges[e].to] # "white"
      /\ \A Z : h.edges[e].to \in Z /\ Leads(h, Ahead(h, s), Z) => h.edges[e].from \in Z
  BY DEF Closing
<1>2. e \in Whole(h)
  BY <1>1 DEF Followed
<1>3. h.edges[e].to \in NodeIds(h)
  BY <1>2, WholeIs
<1>4. \A Z : Leads(h, Ahead(h, t), Z) => Leads(h, Ahead(h, s), Z)
  BY DEF Leads
<1> QED
  BY <1>1, <1>3, <1>4

LEMMA BacksOutInv ==
    ASSUME NEW h, IsGraph(h), NEW s, NEW t, SearchInv(h, s), t \in SearchStates(h), BacksOut(h, s, t)
    PROVE  SearchInv(h, t)
<1> DEFINE top == Len(s.stack)
           u == s.stack[top].node
<1>0. PathShape(h, s) /\ Linked(h, s) /\ LeadsOn(h, s) /\ Sunk(h, s) /\ Closing(h, s)
  BY DEF SearchInv
<1>1. /\ PathShape(h, t) /\ Followed(h, t) = Followed(h, s) /\ Done(h, t) = Done(h, s) \cup {u}
      /\ u \in NodeIds(h) \ Done(h, s)
  BY <1>0, BacksOutShape
<1>2. /\ top \in Nat /\ top > 0 /\ t.back = s.back /\ s.stack[top].left = {}
      /\ Len(t.stack) = top - 1 /\ \A k \in 1..(top - 1) : t.stack[k] = s.stack[k]
      /\ t.color = [s.color EXCEPT ![u] = "black"]
  BY <1>0, StackTyped DEF BacksOut, PathShape
<1>3. /\ top \in Stacked(s) /\ Stacked(t) = Stacked(s) \ {top} /\ Stacked(s) = 1..top
      /\ \A k \in Stacked(t) : t.stack[k] = s.stack[k]
  BY <1>2 DEF Stacked
<1>4. Ahead(h, t) = Ahead(h, s)
  BY <1>1, <1>2 DEF Ahead
<1> HIDE DEF top
<1>5. Linked(h, t)
  BY <1>0, <1>3, <1>4 DEF Linked
<1>6. LeadsOn(h, t)
  <2>1. ASSUME NEW e \in Ahead(h, s), NEW k \in Stacked(s), k + 1 \in Stacked(s),
               h.edges[e].from = s.stack[k].node, h.edges[e].to = s.stack[k + 1].node
        PROVE  \/ h.edges[e].to \in Done(h, t)
               \/ k \in Stacked(t) /\ k + 1 \in Stacked(t)
    <3>1. CASE k + 1 = top
      BY <1>1, <2>1, <3>1
    <3>2. CASE k + 1 # top
      BY <1>2, <1>3, <2>1, <3>2
    <3> QED
      BY <3>1, <3>2
  <2> QED
    BY <1>0, <1>1, <1>3, <1>4, <2>1 DEF LeadsOn
<1>7. Sunk(h, t)
  <2>1. ASSUME NEW e \in Whole(h) \ s.back, h.edges[e].from \in Done(h, s) \cup {u}
        PROVE  h.edges[e].to \in Done(h, s)
    <3>1. CASE h.edges[e].from \in Done(h, s)
      BY <1>0, <2>1, <3>1, DoneLeadsToDone
    <3>2. CASE h.edges[e].from = u
      <4>1. \A k \in Stacked(s) : e \notin s.stack[k].left
        BY <1>0, <1>2, <1>3, <3>2 DEF PathShape, OutEdges
      <4>2. s.color[u] = "gray"
        BY <1>0, <1>1, <1>3 DEF PathShape
      <4>3. e \in Ahead(h, s)
        BY <2>1, <3>2, <4>1, <4>2 DEF Ahead, Followed
      <4>4. ASSUME NEW k \in Stacked(s), k + 1 \in Stacked(s), s.stack[k].node = u PROVE FALSE
        <5>1. k = top
          BY <1>0, <1>3, <4>4 DEF PathShape
        <5> QED
          BY <1>2, <1>3, <4>4, <5>1
      <4> QED
        BY <1>0, <3>2, <4>3, <4>4 DEF LeadsOn
    <3> QED
      BY <2>1, <3>1, <3>2
  <2>2. ASSUME NEW v \in Done(h, t)
        PROVE  \E C \in SUBSET (Done(h, t) \ {v}) :
                  \A e \in Whole(h) \ t.back : h.edges[e].from \in C \cup {v} => h.edges[e].to \in C
    <3>1. CASE v = u
      <4> DEFINE C == Done(h, s)
      <4>1. C \in SUBSET (Done(h, t) \ {v}) /\ t.back = s.back
        BY <1>1, <1>2, <3>1
      <4>2. \A e \in Whole(h) \ t.back : h.edges[e].from \in C \cup {v} => h.edges[e].to \in C
        BY <1>2, <2>1, <3>1
      <4> HIDE DEF C
      <4> QED
        BY <4>1, <4>2
    <3>2. CASE v # u
      <4>1. v \in Done(h, s)
        BY <1>1, <2>2, <3>2
      <4>2. PICK C \in SUBSET (Done(h, s) \ {v}) :
                \A e \in Whole(h) \ s.back : h.edges[e].from \in C \cup {v} => h.edges[e].to \in C
        BY <1>0, <4>1 DEF Sunk
      <4> QED
        BY <1>1, <1>2, <4>2
    <3> QED
      BY <3>1, <3>2
  <2> QED
    BY <2>2 DEF Sunk
<1>8. Closing(h, t)
  <2>1. \A n \in NodeIds(h) : s.color[n] # "white" => t.color[n] # "white"
    <3>1. s.color \in [NodeIds(h) -> {"white", "gray", "black"}]
      BY <1>0, StackTyped DEF PathShape
    <3> HIDE DEF u
    <3> QED
      BY <1>1, <1>2, <3>1
  <2>2. \A e \in s.back : /\ e \in Followed(h, t) /\ t.color[h.edges[e].to] # "white"
                          /\ \A Z : h.edges[e].to \in Z /\ Leads(h, Ahead(h, t), Z) => h.edges[e].from \in Z
    BY <1>0, <1>1, <1>4, <2>1, ClosingGrows
  <2> QED
    BY <1>2, <2>2 DEF Closing
<1> QED
  BY <1>1, <1>5, <1>6, <1>7, <1>8 DEF SearchInv

LEMMA BeginsInv ==
    ASSUME NEW h, IsGraph(h), NEW s, NEW t, SearchInv(h, s), t \in SearchStates(h), Begins(h, s, t)
    PROVE  SearchInv(h, t)
<1>0. PathShape(h, s) /\ Linked(h, s) /\ LeadsOn(h, s) /\ Sunk(h, s) /\ Closing(h, s)
  BY DEF SearchInv
<1>1. PathShape(h, t) /\ Followed(h, t) = Followed(h, s) /\ Done(h, t) = Done(h, s)
  BY <1>0, BeginsShape
<1>2. /\ Stacked(s) = {} /\ t.back = s.back
      /\ \A k \in Stacked(t) : k = 1
      /\ \/ t.color = s.color
         \/ t.color = [s.color EXCEPT ![h.nodes[s.next]] = "gray"]
  <2>1. /\ Len(s.stack) = 0 /\ t.back = s.back /\ (Len(t.stack) = 0 \/ Len(t.stack) = 1)
        /\ \/ t.color = s.color
           \/ t.color = [s.color EXCEPT ![h.nodes[s.next]] = "gray"]
    BY DEF Begins
  <2>2. Stacked(s) = {} /\ \A k \in Stacked(t) : k = 1
    <3>1. Stacked(s) = 1..0 /\ (Stacked(t) = 1..0 \/ Stacked(t) = 1..1)
      BY <2>1 DEF Stacked
    <3> QED
      BY <3>1
  <2> QED
    BY <2>1, <2>2
<1>3. Ahead(h, t) = Ahead(h, s)
  BY <1>1, <1>2 DEF Ahead
<1>4. Linked(h, t) /\ LeadsOn(h, t) /\ Sunk(h, t)
  <2>1. \A k \in Stacked(t) : k + 1 \notin Stacked(t)
    BY <1>2
  <2> QED
    BY <1>0, <1>1, <1>2, <1>3, <2>1 DEF Linked, LeadsOn, Sunk
<1>5. Closing(h, t)
  <2>1. \A n \in NodeIds(h) : s.color[n] # "white" => t.color[n] # "white"
    <3>1. s.color \in [NodeIds(h) -> {"white", "gray", "black"}]
      BY <1>0, StackTyped DEF PathShape
    <3> QED
      BY <1>2, <3>1
  <2>2. \A e \in s.back : /\ e \in Followed(h, t) /\ t.color[h.edges[e].to] # "white"
                          /\ \A Z : h.edges[e].to \in Z /\ Leads(h, Ahead(h, t), Z) => h.edges[e].from \in Z
    BY <1>0, <1>1, <1>3, <2>1, ClosingGrows
  <2> QED
    BY <1>2, <2>2 DEF Closing
<1> QED
  BY <1>1, <1>4, <1>5 DEF SearchInv

\* What the three ways to follow an edge have in common.
LEMMA ColorsStay ==
    ASSUME NEW h, NEW s \in SearchStates(h), NEW t, NEW u,
           t.color = s.color \/ t.color = [s.color EXCEPT ![u] = "gray"]
    PROVE  \A n \in NodeIds(h) : s.color[n] # "white" => t.color[n] # "white"
<1>1. s.color \in [NodeIds(h) -> {"white", "gray", "black"}]
  BY StackTyped
<1> QED
  BY <1>1

LEMMA TurnsInv ==
    ASSUME NEW h, IsGraph(h), NEW s, NEW t, NEW e, SearchInv(h, s), t \in SearchStates(h), Turns(h, s, t, e)
    PROVE  SearchInv(h, t)
<1>0. PathShape(h, s) /\ Linked(h, s) /\ LeadsOn(h, s) /\ Sunk(h, s) /\ Closing(h, s)
  BY DEF SearchInv
<1>1. PathShape(h, t) /\ Followed(h, t) = Followed(h, s) \cup {e} /\ Done(h, t) = Done(h, s)
  BY <1>0, StaysShape
<1>2. /\ Follows(h, s, t, e) /\ t.back = s.back \cup {e} /\ t.color = s.color
      /\ Stacked(t) = Stacked(s) /\ s.color[h.edges[e].to] = "gray"
  BY DEF Turns, Stacked
<1>3. /\ Len(s.stack) \in Stacked(s) /\ h.edges[e].from = s.stack[Len(s.stack)].node
      /\ h.edges[e].to \in NodeIds(h) /\ e \notin Followed(h, s) /\ e \in Whole(h)
      /\ \A k \in Stacked(s) : t.stack[k].node = s.stack[k].node
  BY <1>0, <1>2, FollowsParts
<1>4. Ahead(h, t) = Ahead(h, s)
  BY <1>1, <1>2, <1>3 DEF Ahead
<1>5. Linked(h, t) /\ LeadsOn(h, t)
  BY <1>0, <1>1, <1>2, <1>3, <1>4 DEF Linked, LeadsOn
<1>6. Sunk(h, t)
  <2>1. ASSUME NEW v \in Done(h, t)
        PROVE  \E C \in SUBSET (Done(h, t) \ {v}) :
                  \A d \in Whole(h) \ t.back : h.edges[d].from \in C \cup {v} => h.edges[d].to \in C
    <3>1. PICK C \in SUBSET (Done(h, s) \ {v}) :
              \A d \in Whole(h) \ s.back : h.edges[d].from \in C \cup {v} => h.edges[d].to \in C
      BY <1>0, <1>1 DEF Sunk
    <3> QED
      BY <1>1, <1>2, <3>1
  <2> QED
    BY <2>1 DEF Sunk
<1>7. ASSUME NEW Z, h.edges[e].to \in Z, Leads(h, Ahead(h, s), Z) PROVE h.edges[e].from \in Z
  <2>1. PICK j \in Stacked(s) : s.stack[j].node = h.edges[e].to
    BY <1>0, <1>2, <1>3 DEF PathShape
  <2>2. ASSUME NEW k \in Stacked(s), k + 1 \in Stacked(s), s.stack[k].node \in Z
        PROVE  s.stack[k + 1].node \in Z
    BY <1>0, <1>7, <2>2 DEF Linked, Leads
  <2>3. s \in SearchStates(h) /\ j <= Len(s.stack)
    BY <1>0, <2>1, StackTyped DEF PathShape, Stacked
  <2> QED
    BY <1>3, <1>7, <2>1, <2>2, <2>3, StackClimb
<1>8. Closing(h, t)
  <2>1. \A n \in NodeIds(h) : s.color[n] # "white" => t.color[n] # "white"
    BY <1>2
  <2>2. \A d \in s.back : /\ d \in Followed(h, t) /\ t.color[h.edges[d].to] # "white"
                          /\ \A Z : h.edges[d].to \in Z /\ Leads(h, Ahead(h, t), Z) => h.edges[d].from \in Z
    BY <1>0, <1>1, <1>4, <2>1, ClosingGrows
  <2>3. /\ e \in Followed(h, t) /\ t.color[h.edges[e].to] # "white"
        /\ \A Z : h.edges[e].to \in Z /\ Leads(h, Ahead(h, t), Z) => h.edges[e].from \in Z
    BY <1>1, <1>2, <1>4, <1>7
  <2> QED
    BY <1>2, <2>2, <2>3 DEF Closing
<1> QED
  BY <1>1, <1>5, <1>6, <1>8 DEF SearchInv

LEMMA PassesInv ==
    ASSUME NEW h, IsGraph(h), NEW s, NEW t, NEW e, SearchInv(h, s), t \in SearchStates(h), Passes(h, s, t, e)
    PROVE  SearchInv(h, t) /\ Ahead(h, t) = Ahead(h, s) \cup {e}
<1>0. PathShape(h, s) /\ Linked(h, s) /\ LeadsOn(h, s) /\ Sunk(h, s) /\ Closing(h, s)
  BY DEF SearchInv
<1>1. PathShape(h, t) /\ Followed(h, t) = Followed(h, s) \cup {e} /\ Done(h, t) = Done(h, s)
  BY <1>0, StaysShape
<1>2. /\ Follows(h, s, t, e) /\ t.back = s.back /\ t.color = s.color
      /\ Stacked(t) = Stacked(s) /\ s.color[h.edges[e].to] = "black"
  BY DEF Passes, Stacked
<1>3. /\ h.edges[e].to \in NodeIds(h) /\ e \notin Followed(h, s) /\ e \in Whole(h)
      /\ \A k \in Stacked(s) : t.stack[k].node = s.stack[k].node
  BY <1>0, <1>2, FollowsParts
<1>4. Ahead(h, t) = Ahead(h, s) \cup {e}
  <2>1. e \notin s.back
    BY <1>0, <1>3 DEF Closing
  <2> QED
    BY <1>1, <1>2, <2>1 DEF Ahead
<1>5. Linked(h, t)
  BY <1>0, <1>1, <1>2, <1>3, <1>4 DEF Linked
<1>6. LeadsOn(h, t)
  <2>1. h.edges[e].to \in Done(h, t)
    BY <1>2, <1>3 DEF Done
  <2> QED
    BY <1>0, <1>1, <1>2, <1>3, <1>4, <2>1 DEF LeadsOn
<1>7. Sunk(h, t)
  BY <1>0, <1>1, <1>2 DEF Sunk
<1>8. Closing(h, t)
  <2>1. \A n \in NodeIds(h) : s.color[n] # "white" => t.color[n] # "white"
    BY <1>2
  <2>2. \A d \in s.back : /\ d \in Followed(h, t) /\ t.color[h.edges[d].to] # "white"
                          /\ \A Z : h.edges[d].to \in Z /\ Leads(h, Ahead(h, t), Z) => h.edges[d].from \in Z
    BY <1>0, <1>1, <1>4, <2>1, ClosingGrows
  <2> QED
    BY <1>2, <2>2 DEF Closing
<1> QED
  BY <1>1, <1>4, <1>5, <1>6, <1>7, <1>8 DEF SearchInv

LEMMA EntersInv ==
    ASSUME NEW h, IsGraph(h), NEW s, NEW t, NEW e, SearchInv(h, s), t \in SearchStates(h), Enters(h, s, t, e)
    PROVE  SearchInv(h, t) /\ Ahead(h, t) = Ahead(h, s) \cup {e}
<1> DEFINE top == Len(s.stack)
           u == h.edges[e].to
<1>0. PathShape(h, s) /\ Linked(h, s) /\ LeadsOn(h, s) /\ Sunk(h, s) /\ Closing(h, s)
  BY DEF SearchInv
<1>1. /\ PathShape(h, t) /\ Followed(h, t) = Followed(h, s) \cup {e} /\ Done(h, t) = Done(h, s)
      /\ Stacked(t) = Stacked(s) \cup {top + 1} /\ t.stack[top + 1].node = u
      /\ \A k \in Stacked(s) : t.stack[k].node = s.stack[k].node
  BY <1>0, EntersShape
<1>2. Follows(h, s, t, e) /\ t.back = s.back /\ t.color = [s.color EXCEPT ![u] = "gray"]
  BY DEF Enters
<1>3. /\ top \in Stacked(s) /\ top \in Nat /\ Stacked(s) = 1..top /\ h.edges[e].from = s.stack[top].node
      /\ u \in NodeIds(h) /\ e \notin Followed(h, s) /\ e \in Whole(h)
  BY <1>0, <1>2, FollowsParts DEF Stacked
<1> HIDE DEF top, u
<1>4. Ahead(h, t) = Ahead(h, s) \cup {e}
  <2>1. e \notin s.back
    BY <1>0, <1>3 DEF Closing
  <2> QED
    BY <1>1, <1>2, <2>1 DEF Ahead
<1>5. /\ \A k \in Stacked(t) : k + 1 \in Stacked(t) => k \in Stacked(s) /\ (k + 1 \in Stacked(s) \/ k = top)
      /\ \A k \in Stacked(s) : k \in Stacked(t)
      /\ top \in Stacked(t) /\ top + 1 \in Stacked(t) /\ t.stack[top].node = h.edges[e].from
  BY <1>1, <1>3
<1>6. Linked(h, t)
  <2>1. ASSUME NEW k \in Stacked(t), k + 1 \in Stacked(t)
        PROVE  \E d \in Ahead(h, t) : h.edges[d].from = t.stack[k].node /\ h.edges[d].to = t.stack[k + 1].node
    <3>1. CASE k = top
      BY <1>1, <1>4, <1>5, <3>1 DEF u
    <3>2. CASE k # top
      <4>1. k \in Stacked(s) /\ k + 1 \in Stacked(s)
        BY <1>5, <2>1, <3>2
      <4> QED
        BY <1>0, <1>1, <1>4, <4>1 DEF Linked
    <3> QED
      BY <3>1, <3>2
  <2> QED
    BY <2>1 DEF Linked
<1>7. LeadsOn(h, t)
  <2>1. ASSUME NEW d \in Ahead(h, s)
        PROVE  \/ h.edges[d].to \in Done(h, t)
               \/ \E k \in Stacked(t) : /\ k + 1 \in Stacked(t)
                                        /\ h.edges[d].from = t.stack[k].node
                                        /\ h.edges[d].to = t.stack[k + 1].node
    BY <1>0, <1>1, <1>5 DEF LeadsOn
  <2>2. h.edges[e].from = t.stack[top].node /\ h.edges[e].to = t.stack[top + 1].node
    BY <1>1, <1>5 DEF u
  <2> QED
    BY <1>4, <1>5, <2>1, <2>2 DEF LeadsOn
<1>8. Sunk(h, t)
  BY <1>0, <1>1, <1>2 DEF Sunk
<1>9. Closing(h, t)
  <2>1. \A n \in NodeIds(h) : s.color[n] # "white" => t.color[n] # "white"
    BY <1>0, <1>2, ColorsStay DEF PathShape
  <2>2. \A d \in s.back : /\ d \in Followed(h, t) /\ t.color[h.edges[d].to] # "white"
                          /\ \A Z : h.edges[d].to \in Z /\ Leads(h, Ahead(h, t), Z) => h.edges[d].from \in Z
    BY <1>0, <1>1, <1>4, <2>1, ClosingGrows
  <2> QED
    BY <1>2, <2>2 DEF Closing
<1> QED
  BY <1>1, <1>4, <1>6, <1>7, <1>8, <1>9 DEF SearchInv

LEMMA StartInv ==
    ASSUME NEW h, IsGraph(h)
    PROVE  SearchStart(h) \in SearchStates(h) /\ SearchInv(h, SearchStart(h))
<1> PICK s : s = SearchStart(h)
  OBVIOUS
<1>1. s = [next |-> 1, stack |-> << >>, color |-> [n \in NodeIds(h) |-> "white"], back |-> {}]
  BY DEF SearchStart
<1>2. /\ s.next = 1 /\ s.stack = << >> /\ s.color = [n \in NodeIds(h) |-> "white"] /\ s.back = {}
      /\ s = [next |-> s.next, stack |-> s.stack, color |-> s.color, back |-> s.back]
  BY <1>1
<1>3. s \in SearchStates(h)
  <2>1. s.color \in [NodeIds(h) -> {"white", "gray", "black"}]
    BY <1>2
  <2>2. s.next \in Nat \ {0} /\ s.stack \in Seq(Frames(h)) /\ s.back \in SUBSET EdgeIds(h)
    BY <1>2
  <2> QED
    BY <1>2, <2>1, <2>2, StateParts
<1>4. Stacked(s) = {} /\ \A n \in NodeIds(h) : s.color[n] = "white"
  BY <1>2 DEF Stacked
<1>5. Followed(h, s) = {} /\ Done(h, s) = {} /\ Ahead(h, s) = {}
  <2>1. \A e \in Whole(h) : s.color[h.edges[e].from] = "white"
    BY <1>4, WholeIs
  <2> QED
    BY <1>4, <2>1 DEF Followed, Done, Ahead
<1>6. PathShape(h, s)
  BY <1>2, <1>3, <1>4 DEF PathShape, IsGraph
<1>7. Linked(h, s) /\ LeadsOn(h, s) /\ Sunk(h, s) /\ Closing(h, s)
  BY <1>2, <1>4, <1>5 DEF Linked, LeadsOn, Sunk, Closing
<1> QED
  BY <1>3, <1>6, <1>7 DEF SearchInv

-----------------------------------------------------------------------------
(***************************************************************************)
(* The search ends, with all nodes done and all edges followed: each step  *)
(* follows one edge more, is done with one node more, or passes one root.  *)
(***************************************************************************)
Work(h, s) ==
    ((Whole(h) \ Followed(h, s)) \X {"edge"})
    \cup ((NodeIds(h) \ Done(h, s)) \X {"node"})
    \cup ((s.next .. Len(h.nodes)) \X {"root"})
AllWork(h) == (Whole(h) \X {"edge"}) \cup (NodeIds(h) \X {"node"}) \cup ((1 .. Len(h.nodes)) \X {"root"})

LEMMA GraphFinite ==
    ASSUME NEW h, IsGraph(h)
    PROVE  IsFiniteSet(NodeIds(h)) /\ IsFiniteSet(EdgeIds(h)) /\ IsFiniteSet(Whole(h)) /\ IsFiniteSet(AllWork(h))
<1>1. Len(h.nodes) \in Nat /\ DOMAIN h.nodes = 1..Len(h.nodes) /\ h.nodes \in [1..Len(h.nodes) -> NodeIds(h)]
  BY DEF IsGraph
<1>2. IsFiniteSet(1..Len(h.nodes))
  BY <1>1, FS_Interval
<1>3. h.nodes \in Surjection(1..Len(h.nodes), NodeIds(h))
  BY <1>1 DEF Surjection, NodeIds
<1>4. IsFiniteSet(NodeIds(h))
  BY <1>2, <1>3, FS_Surjection
<1>5. IsFiniteSet(EdgeIds(h))
  <2>1. PICK n \in Nat : EdgeIds(h) = 1..n
    BY DEF IsGraph
  <2> QED
    BY <2>1, FS_Interval
<1>6. IsFiniteSet(Whole(h))
  BY <1>5, WholeIs, FS_Subset
<1>7. IsFiniteSet(Whole(h) \X {"edge"}) /\ IsFiniteSet(NodeIds(h) \X {"node"})
      /\ IsFiniteSet((1..Len(h.nodes)) \X {"root"})
  BY <1>2, <1>4, <1>6, FS_Singleton, FS_Product
<1>8. IsFiniteSet(AllWork(h))
  BY <1>7, FS_Union DEF AllWork
<1> QED
  BY <1>4, <1>5, <1>6, <1>8

LEMMA StepKeepsInv ==
    ASSUME NEW h, IsGraph(h), NEW s, SearchInv(h, s), ~Searched(h, s), NEW t, t = SearchStep(h, s)
    PROVE  /\ t \in SearchStates(h)
           /\ SearchInv(h, t)
           /\ Work(h, t) \subseteq Work(h, s)
           /\ Work(h, t) # Work(h, s)
<1>0. s \in SearchStates(h) /\ PathShape(h, s) /\ s.next \in Nat
  BY StackTyped DEF SearchInv, PathShape
<1>1. /\ t \in SearchStates(h)
      /\ \/ BacksOut(h, s, t)
         \/ Begins(h, s, t)
         \/ \E e \in s.stack[Len(s.stack)].left :
               Turns(h, s, t, e) \/ Passes(h, s, t, e) \/ Enters(h, s, t, e)
  BY <1>0, StepIs
<1>2. CASE BacksOut(h, s, t)
  <2>1. SearchInv(h, t)
    BY <1>1, <1>2, BacksOutInv
  <2> DEFINE u == s.stack[Len(s.stack)].node
  <2>2. /\ Followed(h, t) = Followed(h, s) /\ Done(h, t) = Done(h, s) \cup {u}
        /\ u \in NodeIds(h) \ Done(h, s) /\ t.next = s.next
    <3>1. t.next = s.next
      BY <1>2 DEF BacksOut
    <3>2. /\ Followed(h, t) = Followed(h, s) /\ Done(h, t) = Done(h, s) \cup {u}
          /\ u \in NodeIds(h) \ Done(h, s)
      BY <1>0, <1>1, <1>2, BacksOutShape
    <3> QED
      BY <3>1, <3>2
  <2> HIDE DEF u
  <2>3. <<u, "node">> \in Work(h, s) /\ <<u, "node">> \notin Work(h, t)
    BY <2>2 DEF Work
  <2>4. Work(h, t) \subseteq Work(h, s)
    BY <2>2 DEF Work
  <2> QED
    BY <1>1, <2>1, <2>3, <2>4
<1>3. CASE Begins(h, s, t)
  <2>1. SearchInv(h, t)
    BY <1>1, <1>3, BeginsInv
  <2>2. /\ Followed(h, t) = Followed(h, s) /\ Done(h, t) = Done(h, s)
        /\ t.next = s.next + 1 /\ s.next <= Len(h.nodes) /\ Len(h.nodes) \in Nat
    <3>1. Followed(h, t) = Followed(h, s) /\ Done(h, t) = Done(h, s)
      BY <1>0, <1>1, <1>3, BeginsShape
    <3>2. t.next = s.next + 1 /\ s.next <= Len(h.nodes)
      BY <1>3 DEF Begins
    <3>3. Len(h.nodes) \in Nat
      BY DEF IsGraph
    <3> QED
      BY <3>1, <3>2, <3>3
  <2>3. s.next \in s.next .. Len(h.nodes) /\ s.next \notin t.next .. Len(h.nodes)
        /\ (t.next .. Len(h.nodes)) \subseteq (s.next .. Len(h.nodes))
    BY <1>0, <2>2
  <2>4. <<s.next, "root">> \in Work(h, s) /\ <<s.next, "root">> \notin Work(h, t)
    BY <2>2, <2>3 DEF Work
  <2>5. Work(h, t) \subseteq Work(h, s)
    BY <2>2, <2>3 DEF Work
  <2> QED
    BY <1>1, <2>1, <2>4, <2>5
<1>4. ASSUME NEW e, Turns(h, s, t, e) \/ Passes(h, s, t, e) \/ Enters(h, s, t, e)
      PROVE  SearchInv(h, t) /\ Work(h, t) \subseteq Work(h, s) /\ Work(h, t) # Work(h, s)
  <2>1. SearchInv(h, t)
    BY <1>1, <1>4, TurnsInv, PassesInv, EntersInv
  <2>2. Follows(h, s, t, e)
    BY <1>4 DEF Turns, Passes, Enters
  <2>3. e \in Whole(h) /\ e \notin Followed(h, s) /\ t.next = s.next
    BY <1>0, <1>1, <2>2, FollowsParts DEF Follows
  <2>4. Followed(h, t) = Followed(h, s) \cup {e} /\ Done(h, t) = Done(h, s)
    BY <1>0, <1>1, <1>4, StaysShape, EntersShape
  <2>5. <<e, "edge">> \in Work(h, s) /\ <<e, "edge">> \notin Work(h, t)
    BY <2>3, <2>4 DEF Work
  <2>6. Work(h, t) \subseteq Work(h, s)
    BY <2>3, <2>4 DEF Work
  <2> QED
    BY <2>1, <2>5, <2>6
<1> QED
  BY <1>1, <1>2, <1>3, <1>4

\* The loop of BackEdges, and a set of states that every step keeps to: the search
\* ends in one of them.
LEMMA SearchEnds ==
    ASSUME NEW h, IsGraph(h), NEW X \in SUBSET SearchStates(h),
           \A s \in X : SearchInv(h, s) /\ (~Searched(h, s) => SearchStep(h, s) \in X),
           SearchStart(h) \in X
    PROVE  \E s \in X : Searched(h, s) /\ BackEdges(h) = s.back
<1> DEFINE S == SearchStates(h)
           Final == {s \in S : Searched(h, s)}
           step == [s \in S |-> IF Searched(h, s) THEN s ELSE SearchStep(h, s)]
           left == [s \in X |-> Work(h, s)]
           search[s \in SearchStates(h)] ==
               IF Searched(h, s) THEN s ELSE search[SearchStep(h, s)]
<1>1. BackEdges(h) = search[SearchStart(h)].back
  BY DEF BackEdges
<1>2. step \in [S -> S]
  BY StepIs
<1>3. search = [s \in S |-> IF s \in Final THEN s ELSE search[step[s]]]
  <2> DEFINE Body(f) == [s \in S |-> IF Searched(h, s) THEN s ELSE f[SearchStep(h, s)]]
  <2>1. search = CHOOSE f : f = Body(f)
    BY DEF search
  <2>2. PICK f : f = [s \in S |-> IF s \in Final THEN s ELSE f[step[s]]]
    <3> HIDE DEF S, Final, step
    <3> QED
      BY <1>2, LoopExists
  <2>3. \A f1 : Body(f1) = [s \in S |-> IF s \in Final THEN s ELSE f1[step[s]]]
    OBVIOUS
  <2> HIDE DEF Body, search, Final, step, S
  <2>4. f = Body(f)
    BY <2>2, <2>3
  <2>5. search = Body(search)
    BY <2>1, <2>4
  <2> QED
    BY <2>3, <2>5
<1>4. ASSUME NEW s \in X, s \notin Final
      PROVE  step[s] \in X /\ left[step[s]] \subseteq left[s] /\ left[step[s]] # left[s]
  <2>1. s \in S /\ ~Searched(h, s) /\ step[s] = SearchStep(h, s) /\ SearchStep(h, s) \in X /\ SearchInv(h, s)
    BY <1>4
  <2>2. Work(h, SearchStep(h, s)) \subseteq Work(h, s) /\ Work(h, SearchStep(h, s)) # Work(h, s)
    BY <2>1, StepKeepsInv
  <2>3. left[s] = Work(h, s) /\ left[step[s]] = Work(h, SearchStep(h, s))
    BY <2>1
  <2> HIDE DEF left, step
  <2> QED
    BY <2>1, <2>2, <2>3
<1>5. left \in [X -> SUBSET AllWork(h)] /\ IsFiniteSet(AllWork(h))
  <2>1. ASSUME NEW s \in X PROVE Work(h, s) \subseteq AllWork(h)
    <3>1. s.next \in Nat \ {0} /\ Len(h.nodes) \in Nat
      BY StackTyped DEF IsGraph
    <3>2. (s.next .. Len(h.nodes)) \subseteq 1..Len(h.nodes)
      BY <3>1
    <3> QED
      BY <3>2 DEF Work, AllWork
  <2> QED
    BY <2>1, GraphFinite
<1>6. search[SearchStart(h)] \in X /\ search[SearchStart(h)] \in Final
  <2> HIDE DEF left, step, Final, search, S
  <2>1. X \in SUBSET S
    BY DEF S
  <2>2. \A x \in X : x \notin Final =>
            step[x] \in X /\ left[step[x]] \subseteq left[x] /\ left[step[x]] # left[x]
    BY <1>4
  <2>3. PICK U, f, a : U = AllWork(h) /\ f = search /\ a = SearchStart(h)
    OBVIOUS
  <2>4. f = [s \in S |-> IF s \in Final THEN s ELSE f[step[s]]] /\ a \in X
        /\ left \in [X -> SUBSET U] /\ IsFiniteSet(U)
    BY <1>3, <1>5, <2>3
  <2>5. f[a] \in X /\ f[a] \in Final
    BY <1>2, <2>1, <2>2, <2>4, LoopEnds, SMTT(30)
  <2> QED
    BY <2>3, <2>5
<1> HIDE DEF search
<1> QED
  BY <1>1, <1>6

\* When the search has ended, every node is done and every edge followed.
LEMMA SearchedAll ==
    ASSUME NEW h, IsGraph(h), NEW s, SearchInv(h, s), Searched(h, s)
    PROVE  Done(h, s) = NodeIds(h) /\ Ahead(h, s) = Whole(h) \ s.back
<1>1. PathShape(h, s) /\ s.stack = << >> /\ s.next > Len(h.nodes) /\ Len(h.nodes) \in Nat
  BY DEF SearchInv, Searched, IsGraph
<1>2. s.color \in [NodeIds(h) -> {"white", "gray", "black"}] /\ Stacked(s) = {} /\ s.next \in Nat
  BY <1>1, StackTyped DEF PathShape, Stacked
<1>3. ASSUME NEW n \in NodeIds(h) PROVE s.color[n] = "black"
  <2>1. PICK i \in 1..Len(h.nodes) : h.nodes[i] = n
    BY DEF IsGraph, NodeIds
  <2>2. i < s.next
    BY <1>1, <1>2, <2>1
  <2>3. s.color[n] # "white" /\ s.color[n] # "gray"
    BY <1>1, <1>2, <2>1, <2>2 DEF PathShape
  <2> QED
    BY <1>2, <2>3
<1>4. \A e \in Whole(h) : e \in Followed(h, s)
  BY <1>2, <1>3, WholeIs, FollowedAt
<1> QED
  BY <1>3, <1>4 DEF Done, Ahead, Followed

\* The three things to know of the back edges: they are edges of the graph, every
\* node is left out by what it leads to without them, and each closes a loop.
LEMMA BackEdgesFacts ==
    ASSUME NEW h, IsGraph(h)
    PROVE  LET closing == BackEdges(h)
           IN  /\ closing \subseteq Whole(h)
               /\ \A u \in NodeIds(h) : \E C \in SUBSET (NodeIds(h) \ {u}) :
                     \A e \in Whole(h) \ closing : h.edges[e].from \in C \cup {u} => h.edges[e].to \in C
               /\ \A e \in closing : \A Z :
                     h.edges[e].to \in Z /\ Leads(h, Whole(h) \ closing, Z) => h.edges[e].from \in Z
<1> DEFINE X == {s \in SearchStates(h) : SearchInv(h, s)}
<1>1. \A s \in X : SearchInv(h, s) /\ (~Searched(h, s) => SearchStep(h, s) \in X)
  BY StepKeepsInv
<1>2. SearchStart(h) \in X
  BY StartInv
<1>3. PICK s \in X : Searched(h, s) /\ BackEdges(h) = s.back
  <2> HIDE DEF X
  <2>1. X \in SUBSET SearchStates(h)
    BY DEF X
  <2> QED
    BY <1>1, <1>2, <2>1, SearchEnds
<1>4. SearchInv(h, s) /\ Done(h, s) = NodeIds(h) /\ Ahead(h, s) = Whole(h) \ s.back
  BY <1>3, SearchedAll
<1>5. Sunk(h, s) /\ Closing(h, s)
  BY <1>4 DEF SearchInv
<1>6. s.back \subseteq Whole(h)
  BY <1>5 DEF Closing, Followed
<1>7. \A u \in NodeIds(h) : \E C \in SUBSET (NodeIds(h) \ {u}) :
        \A e \in Whole(h) \ s.back : h.edges[e].from \in C \cup {u} => h.edges[e].to \in C
  BY <1>4, <1>5 DEF Sunk
<1>8. \A e \in s.back : \A Z :
        h.edges[e].to \in Z /\ Leads(h, Whole(h) \ s.back, Z) => h.edges[e].from \in Z
  BY <1>4, <1>5 DEF Closing
<1> QED
  BY <1>3, <1>6, <1>7, <1>8

-----------------------------------------------------------------------------
(***************************************************************************)
(* The graphs of GraphWalk, whatever edges its author adds.                *)
(***************************************************************************)
GraphTyped ==
    /\ g = [nodes |-> g.nodes, kind |-> g.kind, edges |-> g.edges]
    /\ g.nodes \in Orders
    /\ g.kind \in Kind
    /\ g.edges \in Seq(Choices[g.kind])

LEMMA TypedIsGraph == GraphTyped => IsGraph(g)
<1> SUFFICES ASSUME GraphTyped PROVE IsGraph(g)
  OBVIOUS
<1>1. g.nodes \in Seq(NodeIds(g))
  <2> PICK order : order = g.nodes
    OBVIOUS
  <2>1. order \in Seq({order[i] : i \in DOMAIN order})
    BY GraphsAssumption DEF GraphTyped
  <2> QED
    BY <2>1 DEF NodeIds
<1>2. EdgeIds(g) = 1..Len(g.edges) /\ Len(g.edges) \in Nat
  BY DEF GraphTyped, EdgeIds
<1> QED
  BY <1>1, <1>2 DEF IsGraph

LEMMA GraphTypedHolds == GraphSpec => []GraphTyped
<1>1. GraphInit => GraphTyped
  <2> SUFFICES ASSUME GraphInit PROVE GraphTyped
    OBVIOUS
  <2>1. PICK d \in Orders, k \in Kind : g = [nodes |-> d, kind |-> k, edges |-> << >>]
    BY DEF GraphInit
  <2> QED
    BY <2>1 DEF GraphTyped
<1>2. GraphTyped /\ [GraphNext]_graphVars => GraphTyped'
  <2> SUFFICES ASSUME GraphTyped, [GraphNext]_graphVars PROVE GraphTyped'
    OBVIOUS
  <2>1. ASSUME NEW e \in Choices[g.kind], AddEdge(e) PROVE GraphTyped'
    <3>1. g' = [g EXCEPT !.edges = Append(@, e)]
      BY <2>1 DEF AddEdge
    <3>2. g' = [nodes |-> g.nodes, kind |-> g.kind, edges |-> Append(g.edges, e)]
      BY <3>1 DEF GraphTyped
    <3>3. Append(g.edges, e) \in Seq(Choices[g.kind])
      BY DEF GraphTyped
    <3> QED
      BY <3>2, <3>3 DEF GraphTyped
  <2>2. CASE UNCHANGED g
    BY <2>2 DEF GraphTyped
  <2>3. (\E e \in Choices[g.kind] : AddEdge(e)) \/ UNCHANGED g
    BY DEF GraphNext, graphVars, BeginRun, Turn, RunNode, Answer, Redrive
  <2> QED
    BY <2>1, <2>2, <2>3
<1> QED
  BY <1>1, <1>2, PTL DEF GraphSpec

\* A set that keeps to what F leads to from n leaves n out: n is on no cycle of F.
LEMMA LeftOut ==
    ASSUME IsGraph(g), NEW F, NEW n, NEW C \in SUBSET (NodeIds(g) \ {n}),
           \A e \in F : g.edges[e].from \in C \cup {n} /\ g.edges[e].to \in NodeIds(g) => g.edges[e].to \in C
    PROVE  n \notin After(F, n)
<1> DEFINE S == NodeIds(g) \cap {g.edges[e].to : e \in {d \in F : g.edges[d].from = n}}
<1>1. S \subseteq C /\ S \in SUBSET NodeIds(g) /\ Closed(g, F, C)
  BY DEF Closed
<1>2. IsFiniteSet(NodeIds(g))
  BY GraphFinite
<1> HIDE DEF S
<1>3. ReachFrom(g, F, S) \subseteq C
  BY <1>1, <1>2, ReachIsClosure
<1> QED
  BY <1>3 DEF After, S

LEMMA LoopsAreCut == GraphTyped => BackEdgesCutLoops
<1> SUFFICES ASSUME GraphTyped PROVE BackEdgesCutLoops
  OBVIOUS
<1> DEFINE forward == EdgeIds(g) \ back
<1>0. IsGraph(g) /\ IsFiniteSet(NodeIds(g))
  BY TypedIsGraph, GraphFinite
<1>1. /\ back \subseteq Whole(g)
      /\ \A u \in NodeIds(g) : \E C \in SUBSET (NodeIds(g) \ {u}) :
            \A e \in Whole(g) \ back : g.edges[e].from \in C \cup {u} => g.edges[e].to \in C
      /\ \A e \in back : \A Z :
            g.edges[e].to \in Z /\ Leads(g, Whole(g) \ back, Z) => g.edges[e].from \in Z
  BY <1>0, BackEdgesFacts DEF back
<1> HIDE DEF back
<1>2. ASSUME NEW F \in SUBSET forward, NEW n \in NodeIds(g) PROVE n \notin After(F, n)
  <2>1. PICK C \in SUBSET (NodeIds(g) \ {n}) :
            \A e \in Whole(g) \ back : g.edges[e].from \in C \cup {n} => g.edges[e].to \in C
    BY <1>1
  <2>2. ASSUME NEW e \in F, g.edges[e].from \in C \cup {n}, g.edges[e].to \in NodeIds(g)
        PROVE  g.edges[e].to \in C
    <3>1. e \in Whole(g) \ back
      BY <2>2, WholeIs
    <3> QED
      BY <2>1, <2>2, <3>1
  <2> QED
    BY <1>0, <2>2, LeftOut
<1>3. ASSUME NEW e \in back PROVE g.edges[e].from \in ReachFrom(g, forward, {g.edges[e].to})
  <2>1. {g.edges[e].to} \in SUBSET NodeIds(g)
    BY <1>1, WholeIs
  <2> PICK R : R = ReachFrom(g, forward, {g.edges[e].to})
    OBVIOUS
  <2>2. g.edges[e].to \in R /\ Closed(g, forward, R)
    BY <1>0, <2>1, ReachIsClosure
  <2>3. Leads(g, Whole(g) \ back, R)
    BY <2>2, WholeIs DEF Closed, Leads
  <2> QED
    BY <1>1, <2>2, <2>3
<1>4. ASSUME ValidateGraph(g)
      PROVE  {e \in EdgeIds(g) : g.kind[g.edges[e].from] \notin Routing} \in SUBSET forward
  BY <1>4 DEF ValidateGraph, LoopsCloseOnRouting, back
<1> QED
  BY <1>2, <1>3, <1>4 DEF BackEdgesCutLoops

\* The back edges cut the loops of a graph and nothing else, whatever graph is
\* edited: the edges are taken in any order, the nodes are declared in any, ids may
\* be declared twice and edges may lead nowhere (graph.go BackEdges, ValidateGraph).
THEOREM LoopsAreCutWhereClosed == GraphSpec => []BackEdgesCutLoops
BY GraphTypedHolds, LoopsAreCut, PTL

-----------------------------------------------------------------------------
(***************************************************************************)
(* The walk. What it has reached is the least set that contains the seeded *)
(* triggers and is closed under the steps along edges not pruned.          *)
(***************************************************************************)
Seeds(h, rw) == {k \in Keys(h) : k[2] = 0 /\ h.kind[k[1]] = "trigger" /\ HasRow(rw, k)}
Onto(h, b, rw, T) == Keys(h) \cap UNION {Successors(h, b, rw, k) : k \in T}

LEMMA ReachedIsLeast ==
    ASSUME NEW h, IsGraph(h), NEW b, NEW rw
    PROVE  /\ Reached(h, b, rw) \in SUBSET Keys(h)
           /\ Seeds(h, rw) \subseteq Reached(h, b, rw)
           /\ Onto(h, b, rw, Reached(h, b, rw)) \subseteq Reached(h, b, rw)
           /\ \A Z : Seeds(h, rw) \subseteq Z /\ Onto(h, b, rw, Z) \subseteq Z => Reached(h, b, rw) \subseteq Z
<1> DEFINE N == Keys(h)
           S == Seeds(h, rw)
           Next1(T) == T \cup Onto(h, b, rw, T)
           step == [T \in SUBSET N |-> Next1(T)]
           Stops == {T \in SUBSET N : Next1(T) = T}
           grow[T \in SUBSET Keys(h)] ==
               LET U == T \cup (Keys(h) \cap UNION {Successors(h, b, rw, k) : k \in T})
               IN  IF U = T THEN T ELSE grow[U]
           X == {T \in SUBSET N : S \subseteq T /\ \A Z : S \subseteq Z /\ Onto(h, b, rw, Z) \subseteq Z => T \subseteq Z}
           left == [T \in X |-> N \ T]
<1>1. Reached(h, b, rw) = grow[S]
  BY DEF Reached, Seeds
<1>2. step \in [SUBSET N -> SUBSET N]
  BY DEF Onto
<1>3. grow = [T \in SUBSET N |-> IF T \in Stops THEN T ELSE grow[step[T]]]
  <2> DEFINE Body(f) == [T \in SUBSET N |-> IF Next1(T) = T THEN T ELSE f[Next1(T)]]
  <2>1. grow = CHOOSE f : f = Body(f)
    BY DEF grow, Onto
  <2>2. PICK f : f = [T \in SUBSET N |-> IF T \in Stops THEN T ELSE f[step[T]]]
    <3> HIDE DEF N, Stops, step
    <3> QED
      BY <1>2, LoopExists
  <2>3. \A f1 : Body(f1) = [T \in SUBSET N |-> IF T \in Stops THEN T ELSE f1[step[T]]]
    <3> \A T \in SUBSET N : Next1(T) \in SUBSET N
      BY DEF Onto
    <3> QED
      OBVIOUS
  <2> HIDE DEF Body, grow, Stops, step, N
  <2>4. f = Body(f)
    BY <2>2, <2>3
  <2>5. grow = Body(grow)
    BY <2>1, <2>4
  <2> QED
    BY <2>3, <2>5
<1>4. ASSUME NEW T \in X, T \notin Stops
      PROVE  step[T] \in X /\ left[step[T]] \subseteq left[T] /\ left[step[T]] # left[T]
  <2>1. T \in SUBSET N /\ S \subseteq T /\ step[T] = Next1(T) /\ Next1(T) \in SUBSET N /\ T \subseteq Next1(T) /\ Next1(T) # T
    BY <1>4 DEF Onto
  <2>2. ASSUME NEW Z, S \subseteq Z, Onto(h, b, rw, Z) \subseteq Z PROVE Next1(T) \subseteq Z
    <3>1. T \subseteq Z
      BY <2>2
    <3> QED
      BY <2>2, <3>1 DEF Onto
  <2>3. step[T] \in X
    BY <2>1, <2>2
  <2>4. left[T] = N \ T /\ left[step[T]] = N \ Next1(T)
    BY <2>1, <2>3
  <2> HIDE DEF X, left, step, Next1, N
  <2> QED
    BY <2>1, <2>3, <2>4
<1>5. S \in X /\ X \in SUBSET SUBSET N /\ left \in [X -> SUBSET N] /\ IsFiniteSet(N)
  <2>1. IsFiniteSet(N)
    <3>1. IsFiniteSet(NodeIds(h)) /\ IsFiniteSet(Iterations)
      BY GraphFinite, FS_Interval, MaxIterationsAssumption DEF Iterations
    <3> QED
      BY <3>1, FS_Product DEF Keys
  <2>2. S \in SUBSET N
    BY DEF Seeds
  <2> QED
    BY <2>1, <2>2
<1>6. grow[S] \in X /\ grow[S] \in Stops
  <2> HIDE DEF X, left, step, Stops, grow, N, S
  <2> QED
    BY <1>2, <1>3, <1>4, <1>5, LoopEnds
<1>7. Onto(h, b, rw, grow[S]) \subseteq grow[S]
  <2> PICK R : R = grow[S]
    OBVIOUS
  <2>1. Next1(R) = R
    BY <1>6
  <2> QED
    BY <2>1
<1> HIDE DEF grow
<1> QED
  BY <1>1, <1>6, <1>7

\* What the walk has reached and is no seed, it reached from something it had
\* reached before: along a back edge from the iteration before, along any other
\* within the iteration.
LEMMA ReachedFrom ==
    ASSUME NEW h, IsGraph(h), NEW b, NEW rw, NEW k \in Reached(h, b, rw), k \notin Seeds(h, rw)
    PROVE  \E j \in Reached(h, b, rw) : k \in Successors(h, b, rw, j)
<1> DEFINE T == Reached(h, b, rw)
           Z == T \ {k}
<1> SUFFICES ASSUME \A j \in T : k \notin Successors(h, b, rw, j) PROVE FALSE
  OBVIOUS
<1>1. /\ T \in SUBSET Keys(h) /\ Seeds(h, rw) \subseteq T /\ Onto(h, b, rw, T) \subseteq T
      /\ \A U : Seeds(h, rw) \subseteq U /\ Onto(h, b, rw, U) \subseteq U => T \subseteq U
  BY ReachedIsLeast
<1> HIDE DEF T
<1>2. Seeds(h, rw) \subseteq Z
  BY <1>1
<1>3. Onto(h, b, rw, Z) \subseteq Z
  <2>1. ASSUME NEW x \in Onto(h, b, rw, Z) PROVE x \in T /\ x # k
    BY <1>1, <2>1 DEF Onto
  <2> QED
    BY <2>1
<1>4. T \subseteq Z
  <2> HIDE DEF Z
  <2> QED
    BY <1>1, <1>2, <1>3
<1> QED
  BY <1>4 DEF T

\* Where the walk has been, row by row.
RowsTyped ==
    /\ DOMAIN rows = Keys(g)
    /\ \A k \in Keys(g) : rows[k].status \in {"none", "completed", "parked"}
    /\ stage = "run" => ValidateGraph(g)

LEMMA RowsTypedHolds == GraphSpec => []RowsTyped
<1>1. GraphInit => RowsTyped
  BY DEF GraphInit, RowsTyped, NoRowsOf, NoRow, Row
<1>2. RowsTyped /\ [GraphNext]_graphVars => RowsTyped'
  <2> SUFFICES ASSUME RowsTyped, [GraphNext]_graphVars PROVE RowsTyped'
    OBVIOUS
  <2>1. ASSUME NEW e \in Choices[g.kind], AddEdge(e) PROVE RowsTyped'
    <3>1. g' = [g EXCEPT !.edges = Append(@, e)] /\ stage = "edit" /\ rows' = rows /\ stage' = stage
      BY <2>1 DEF AddEdge
    <3>2. g'.nodes = g.nodes
      BY <3>1
    <3>3. Keys(g)' = Keys(g)
      BY <3>2 DEF Keys, NodeIds
    <3> QED
      BY <3>1, <3>3 DEF RowsTyped
  <2>2. ASSUME NEW k, NEW row, row.status \in {"completed", "parked"},
               rows' = [rows EXCEPT ![k] = row], g' = g, stage' = "run" => ValidateGraph(g)
        PROVE  RowsTyped'
    BY <2>2 DEF RowsTyped
  <2>3. \A port : /\ Row("completed", port).status \in {"completed", "parked"}
                  /\ Row("parked", port).status \in {"completed", "parked"}
    BY DEF Row
  <2>4. ASSUME NEW n \in NodeIds(g), BeginRun(n) PROVE RowsTyped'
    <3>1. rows' = [rows EXCEPT ![<<n, 0>>] = Row("completed", NoPort)] /\ g' = g /\ ValidateGraph(g)
      BY <2>4 DEF BeginRun
    <3> PICK k, row : k = <<n, 0>> /\ row = Row("completed", NoPort)
      OBVIOUS
    <3>2. row.status \in {"completed", "parked"} /\ rows' = [rows EXCEPT ![k] = row]
      BY <2>3, <3>1
    <3> QED
      BY <3>1, <3>2 DEF RowsTyped
  <2>5. CASE RunNode
    <3>1. PICK row \in DispatchRows(g, First(g, batch)[1]) : rows' = [rows EXCEPT ![First(g, batch)] = row]
      BY <2>5 DEF RunNode
    <3>2. row.status \in {"completed", "parked"}
      BY <2>3, <3>1 DEF DispatchRows
    <3>3. g' = g /\ stage' = stage
      BY <2>5 DEF RunNode
    <3> QED
      BY <2>2, <3>1, <3>2, <3>3 DEF RowsTyped
  <2>6. ASSUME NEW k \in Keys(g), NEW d \in Approvals, Answer(k, d) PROVE RowsTyped'
    BY <2>2, <2>3, <2>6 DEF Answer, RowsTyped
  <2>7. CASE UNCHANGED <<g, rows, stage>>
    BY <2>7 DEF RowsTyped
  <2> QED
    BY <2>1, <2>4, <2>5, <2>6, <2>7 DEF GraphNext, graphVars, Turn, Redrive
<1> QED
  BY <1>1, <1>2, PTL DEF GraphSpec

LEMMA TargetIsNoTrigger ==
    ASSUME NoEdgeToTrigger, GraphTyped, NEW e \in EdgeIds(g), g.edges[e].to \in NodeIds(g)
    PROVE  g.kind[g.edges[e].to] # "trigger"
<1>1. g.edges[e] \in Choices[g.kind] /\ g.kind \in Kind /\ g.nodes \in Orders
  BY DEF GraphTyped, EdgeIds
<1>2. NodeIds(g) \subseteq DOMAIN g.kind
  BY <1>1, GraphsAssumption DEF NodeIds
<1> QED
  BY <1>1, <1>2 DEF NoEdgeToTrigger

\* Without back edges no path leads from a node to itself.
LEMMA NoForwardCycle ==
    ASSUME GraphTyped, NEW n \in NodeIds(g)
    PROVE  n \notin After(EdgeIds(g) \ back, n)
BY LoopsAreCut DEF BackEdgesCutLoops

\* What comes after the end of an edge comes after its start, and so does the end.
LEMMA AfterGrows ==
    ASSUME IsGraph(g), NEW F, NEW e \in F, g.edges[e].from \in NodeIds(g), g.edges[e].to \in NodeIds(g)
    PROVE  /\ After(F, g.edges[e].from) \in SUBSET NodeIds(g)
           /\ g.edges[e].to \in After(F, g.edges[e].from)
           /\ After(F, g.edges[e].to) \subseteq After(F, g.edges[e].from)
           /\ Closed(g, F, After(F, g.edges[e].from))
<1> DEFINE Ends(n) == NodeIds(g) \cap {g.edges[d].to : d \in {c \in F : g.edges[c].from = n}}
<1> PICK u, v : u = g.edges[e].from /\ v = g.edges[e].to
  OBVIOUS
<1>1. IsFiniteSet(NodeIds(g)) /\ Ends(u) \in SUBSET NodeIds(g) /\ Ends(v) \in SUBSET NodeIds(g)
  BY GraphFinite
<1>2. After(F, u) = ReachFrom(g, F, Ends(u)) /\ After(F, v) = ReachFrom(g, F, Ends(v)) /\ v \in Ends(u)
  BY DEF After
<1> HIDE DEF Ends
<1> PICK R : R = ReachFrom(g, F, Ends(u))
  OBVIOUS
<1>3. R \in SUBSET NodeIds(g) /\ Ends(u) \subseteq R /\ Closed(g, F, R)
  BY <1>1, ReachIsClosure
<1>4. Ends(v) \subseteq R
  BY <1>2, <1>3 DEF Ends, Closed
<1>5. ReachFrom(g, F, Ends(v)) \subseteq R
  BY <1>1, <1>3, <1>4, ReachIsClosure
<1> QED
  BY <1>2, <1>3, <1>5

\* So a set of nodes, each of which has a forward edge into it from the set, is empty.
LEMMA NoBottomlessSet ==
    ASSUME GraphTyped, NEW N \in SUBSET NodeIds(g),
           \A n \in N : \E e \in EdgeIds(g) \ back : g.edges[e].to = n /\ g.edges[e].from \in N
    PROVE  N = {}
<1> SUFFICES ASSUME N # {} PROVE FALSE
  OBVIOUS
<1> DEFINE F == EdgeIds(g) \ back
           Rest(n) == NodeIds(g) \ After(F, n)
           L == {Rest(n) : n \in N}
<1>0. IsGraph(g) /\ IsFiniteSet(NodeIds(g))
  BY TypedIsGraph, GraphFinite
<1>1. L \subseteq FiniteSubsetsOf(NodeIds(g)) /\ L # {}
  <2>1. \A A \in SUBSET NodeIds(g) : A \in FiniteSubsetsOf(NodeIds(g))
    BY <1>0, FS_Subset DEF FiniteSubsetsOf
  <2>2. \A n \in N : Rest(n) \in SUBSET NodeIds(g)
    OBVIOUS
  <2> HIDE DEF Rest
  <2> QED
    BY <2>1, <2>2
<1>2. PICK A \in L : \A B \in L : <<B, A>> \notin StrictSubsetOrdering(NodeIds(g))
  <2> HIDE DEF L
  <2>1. IsWellFoundedOn(StrictSubsetOrdering(NodeIds(g)), FiniteSubsetsOf(NodeIds(g)))
    BY FS_StrictSubsetOrderingWellFounded
  <2> QED
    BY <1>1, <2>1, WFMin
<1>3. PICK n \in N : A = Rest(n)
  BY <1>2
<1>4. PICK e \in F : g.edges[e].to = n /\ g.edges[e].from \in N
  OBVIOUS
<1> PICK m : m = g.edges[e].from
  OBVIOUS
<1>5. /\ m \in N /\ After(F, m) \in SUBSET NodeIds(g) /\ n \in After(F, m)
      /\ After(F, n) \subseteq After(F, m) /\ n \notin After(F, n)
  BY <1>0, <1>4, AfterGrows, NoForwardCycle
<1>6. Rest(m) \in L /\ Rest(m) \subseteq Rest(n) /\ Rest(m) # Rest(n)
  BY <1>5
<1>7. Rest(m) \in SUBSET NodeIds(g) /\ Rest(n) \in SUBSET NodeIds(g)
  OBVIOUS
<1> HIDE DEF Rest, L
<1>8. <<Rest(m), A>> \in StrictSubsetOrdering(NodeIds(g))
  BY <1>3, <1>6, <1>7 DEF StrictSubsetOrdering
<1> QED
  BY <1>2, <1>6, <1>8

\* A reached node without a row waits for one that has none either.
LEMMA WaitsForAnother ==
    ASSUME GraphTyped, RowsTyped, Quiet, NoEdgeToTrigger,
           NEW k \in Reached(g, back, rows), ~HasRow(rows, k)
    PROVE  \E e \in EdgeIds(g), s \in Reached(g, back, rows) :
               /\ ~HasRow(rows, s)
               /\ g.edges[e].to = k[1] /\ g.edges[e].from = s[1]
               /\ s[2] = IF e \in back THEN k[2] - 1 ELSE k[2]
<1> DEFINE T == Reached(g, back, rows)
           srcIter(e) == IF e \in back THEN k[2] - 1 ELSE k[2]
<1>0. IsGraph(g)
  BY TypedIsGraph
<1>1. T \in SUBSET Keys(g) /\ k \in Keys(g) /\ k = <<k[1], k[2]>> /\ k[1] \in NodeIds(g) /\ k[2] \in Nat
  BY <1>0, ReachedIsLeast, MaxIterationsAssumption DEF Keys, Iterations
<1>2. PICK j \in T : k \in Successors(g, back, rows, j)
  <2>1. k \notin Seeds(g, rows)
    BY DEF Seeds
  <2> QED
    BY <1>0, <2>1, ReachedFrom
<1>3. j = <<j[1], j[2]>> /\ j[1] \in NodeIds(g) /\ j[2] \in Nat
  BY <1>1, <1>2, MaxIterationsAssumption DEF Keys, Iterations
<1>4. PICK e \in EdgeIds(g) : /\ g.edges[e].from = j[1] /\ g.edges[e].to = k[1]
                              /\ ~EdgePruned(g, rows, e, j[2])
                              /\ j[2] = srcIter(e)
  <2>1. \/ \E e \in EdgeIds(g) : /\ g.edges[e].from = j[1] /\ e \in back /\ BackEdgeTaken(g, rows, e, j[2])
                                /\ k = <<g.edges[e].to, j[2] + 1>>
        \/ \E e \in EdgeIds(g) : /\ g.edges[e].from = j[1] /\ e \notin back /\ ~EdgePruned(g, rows, e, j[2])
                                /\ k = <<g.edges[e].to, j[2]>>
    BY <1>2 DEF Successors
  <2>2. CASE \E e \in EdgeIds(g) : /\ g.edges[e].from = j[1] /\ e \in back /\ BackEdgeTaken(g, rows, e, j[2])
                                 /\ k = <<g.edges[e].to, j[2] + 1>>
    BY <1>3, <2>2 DEF BackEdgeTaken
  <2>3. CASE \E e \in EdgeIds(g) : /\ g.edges[e].from = j[1] /\ e \notin back /\ ~EdgePruned(g, rows, e, j[2])
                                 /\ k = <<g.edges[e].to, j[2]>>
    BY <1>3, <2>3
  <2> QED
    BY <2>1, <2>2, <2>3
<1>5. g.kind[k[1]] # "trigger"
  BY <1>1, <1>4, TargetIsNoTrigger
<1>6. j \in LiveIncoming(g, back, rows, T, k)
  BY <1>2, <1>3, <1>4 DEF LiveIncoming
<1>7. PICK s \in LiveIncoming(g, back, rows, T, k) : ~Completed(rows, s)
  <2>1. k \notin Ready(g, back, rows)
    BY DEF Quiet
  <2>2. ~PredecessorsSatisfied(g, back, rows, T, k)
    BY <1>1, <1>5, <2>1 DEF Ready
  <2> QED
    BY <1>6, <2>2 DEF PredecessorsSatisfied
<1>8. PICK d \in EdgeIds(g) : /\ g.edges[d].to = k[1] /\ s = <<g.edges[d].from, srcIter(d)>> /\ s \in T
  BY <1>7 DEF LiveIncoming
<1>9. ~HasRow(rows, s)
  BY <1>1, <1>7, <1>8 DEF Quiet, RowsTyped, Completed, HasRow
<1> QED
  BY <1>8, <1>9

LEMMA NoneStranded == GraphTyped /\ RowsTyped /\ NoEdgeToTrigger => NothingStranded
<1> SUFFICES ASSUME GraphTyped, RowsTyped, NoEdgeToTrigger, Quiet,
                    NEW k0 \in Reached(g, back, rows), ~HasRow(rows, k0)
             PROVE  FALSE
  BY DEF NothingStranded
<1> DEFINE Z == {k \in Reached(g, back, rows) : ~HasRow(rows, k)}
           I == {k[2] : k \in Z}
<1>0. \A k \in Z : k \in Keys(g) /\ k = <<k[1], k[2]>> /\ k[1] \in NodeIds(g) /\ k[2] \in Nat
  BY TypedIsGraph, ReachedIsLeast, MaxIterationsAssumption DEF Keys, Iterations
<1>1. \A k \in Z : \E e \in EdgeIds(g), s \in Z :
           /\ g.edges[e].to = k[1] /\ g.edges[e].from = s[1]
           /\ s[2] = IF e \in back THEN k[2] - 1 ELSE k[2]
  BY WaitsForAnother
<1>2. k0 \in Z
  OBVIOUS
<1> HIDE DEF Z
<1>3. I \in SUBSET Nat /\ I # {}
  BY <1>0, <1>2
<1>4. PICK i \in I : \A x \in I : i <= x
  <2> HIDE DEF I
  <2> QED
    BY <1>3, Least
<1> DEFINE N == {k[1] : k \in {x \in Z : x[2] = i}}
<1>5. N # {} /\ N \in SUBSET NodeIds(g)
  BY <1>0, <1>4
<1>6. ASSUME NEW n \in N
      PROVE  \E e \in EdgeIds(g) \ back : g.edges[e].to = n /\ g.edges[e].from \in N
  <2>1. PICK k \in Z : k[1] = n /\ k[2] = i
    OBVIOUS
  <2>2. PICK e \in EdgeIds(g), s \in Z : /\ g.edges[e].to = k[1] /\ g.edges[e].from = s[1]
                                         /\ s[2] = IF e \in back THEN k[2] - 1 ELSE k[2]
    BY <1>1, <2>1
  <2>3. s[2] \in I /\ s[2] \in Nat /\ i <= s[2] /\ i \in Nat
    BY <1>0, <1>3, <1>4
  <2>4. e \notin back
    BY <2>1, <2>2, <2>3
  <2> QED
    BY <2>1, <2>2, <2>4
<1> HIDE DEF N
<1> QED
  BY <1>5, <1>6, NoBottomlessSet

\* When nothing is ready and nothing is parked, every node the walk has reached has
\* run, in any valid graph with any number of loops and iterations: no join waits for
\* a branch that was not taken (walk.go computeReady, predecessorsSatisfied). No edge
\* leads into a trigger: such an edge ends the walk silently.
THEOREM NothingStrandedInvariant ==
    ASSUME NoEdgeToTrigger
    PROVE  GraphSpec => []NothingStranded
<1>1. GraphTyped /\ RowsTyped => NothingStranded
  BY NoneStranded
<1> QED
  BY <1>1, GraphTypedHolds, RowsTypedHolds, PTL

-----------------------------------------------------------------------------
(***************************************************************************)
(* Structured loops. Where the triggers are declared first, the search     *)
(* begins at triggers only, so its stack is a path from a trigger, which   *)
(* passes the head of a loop before it comes to the branch that closes it. *)
(***************************************************************************)
Entries(h) == {n \in NodeIds(h) : h.kind[n] = "trigger"}

\* The triggers are declared first, and every node is reachable from them.
WellOrdered(h) ==
    /\ \A i, j \in DOMAIN h.nodes :
          i < j /\ h.kind[h.nodes[j]] = "trigger" => h.kind[h.nodes[i]] = "trigger"
    /\ \A Z \in SUBSET NodeIds(h) : Entries(h) \subseteq Z /\ Leads(h, Whole(h), Z) => Z = NodeIds(h)

\* Every set that contains the triggers and is closed under the edges that do not
\* lead to m contains n: there is a path to n that does not pass m.
Bypasses(h, m, n) ==
    \A Z \in SUBSET NodeIds(h) :
        Entries(h) \subseteq Z /\ Leads(h, {d \in Whole(h) : h.edges[d].to # m}, Z) => n \in Z

FromEntries(h, s) ==
    /\ 1 \in Stacked(s) => s.stack[1].node \in Entries(h)
    /\ \A e \in Ahead(h, s) : h.edges[e].to \notin Entries(h) => Bypasses(h, h.edges[e].to, h.edges[e].from)

\* When a search begins at a new root, that root is a trigger.
LEMMA RootIsEntry ==
    ASSUME NEW h, IsGraph(h), WellOrdered(h), NEW s, SearchInv(h, s), Stacked(s) = {},
           s.next \in 1..Len(h.nodes), s.color[h.nodes[s.next]] = "white"
    PROVE  h.nodes[s.next] \in Entries(h)
<1> DEFINE u == h.nodes[s.next]
<1>1. PathShape(h, s) /\ LeadsOn(h, s) /\ Closing(h, s)
  BY DEF SearchInv
<1>2. /\ DOMAIN h.nodes = 1..Len(h.nodes) /\ \A i \in 1..Len(h.nodes) : h.nodes[i] \in NodeIds(h)
      /\ Len(h.nodes) \in Nat
  BY DEF IsGraph
<1>3. \A n \in NodeIds(h) : s.color[n] = "white" \/ n \in Done(h, s)
  <2>1. s.color \in [NodeIds(h) -> {"white", "gray", "black"}]
    BY <1>1, StackTyped DEF PathShape
  <2>2. \A n \in NodeIds(h) : s.color[n] # "gray"
    BY <1>1 DEF PathShape
  <2> QED
    BY <2>1, <2>2 DEF Done
<1>4. Leads(h, Whole(h), Done(h, s))
  <2>1. ASSUME NEW e \in Whole(h), h.edges[e].from \in Done(h, s) PROVE h.edges[e].to \in Done(h, s)
    <3>1. CASE e \in s.back
      BY <1>1, <1>3, <3>1, WholeIs DEF Closing
    <3>2. CASE e \notin s.back
      BY <1>1, <2>1, <3>2, DoneLeadsToDone
    <3> QED
      BY <3>1, <3>2
  <2> QED
    BY <2>1 DEF Leads
<1> SUFFICES ASSUME u \notin Entries(h) PROVE FALSE
  OBVIOUS
<1>5. ASSUME NEW n \in Entries(h) PROVE n \in Done(h, s)
  <2>1. PICK i \in 1..Len(h.nodes) : h.nodes[i] = n
    BY <1>2, <1>5 DEF Entries, NodeIds
  <2>2. u \in NodeIds(h) /\ h.kind[u] # "trigger" /\ h.kind[n] = "trigger" /\ n \in NodeIds(h)
    BY <1>2 DEF Entries
  <2>3. ~ (s.next < i) /\ s.next # i
    BY <1>2, <2>1, <2>2 DEF WellOrdered
  <2>4. i < s.next
    BY <1>2, <2>1, <2>3
  <2>5. s.color[n] # "white"
    BY <1>1, <2>1, <2>4 DEF PathShape
  <2> QED
    BY <1>3, <2>2, <2>5
<1>6. Done(h, s) = NodeIds(h)
  <2>1. Done(h, s) \in SUBSET NodeIds(h) /\ Entries(h) \subseteq Done(h, s)
    BY <1>5 DEF Done
  <2> QED
    BY <1>4, <2>1 DEF WellOrdered
<1>7. u \in Done(h, s) /\ s.color[u] = "white"
  BY <1>2, <1>6
<1> QED
  BY <1>7 DEF Done

\* An edge is taken for no back edge only where a path leads round its end.
LEMMA StackBypasses ==
    ASSUME NEW h, NEW s, SearchInv(h, s), FromEntries(h, s), NEW m \in NodeIds(h), s.color[m] # "gray",
           NEW k \in Stacked(s)
    PROVE  Bypasses(h, m, s.stack[k].node)
<1>1. PathShape(h, s) /\ Linked(h, s) /\ s \in SearchStates(h)
  BY DEF SearchInv, PathShape
<1>2. \A j \in Stacked(s) : s.stack[j].node # m
  BY <1>1 DEF PathShape
<1>3. 1 \in Stacked(s) /\ 1 <= k
  BY <1>1, StackTyped DEF Stacked
<1> SUFFICES ASSUME NEW Z \in SUBSET NodeIds(h), Entries(h) \subseteq Z,
                    Leads(h, {d \in Whole(h) : h.edges[d].to # m}, Z)
             PROVE  s.stack[k].node \in Z
  BY DEF Bypasses
<1>4. s.stack[1].node \in Z
  BY <1>3 DEF FromEntries
<1>5. ASSUME NEW j \in Stacked(s), j + 1 \in Stacked(s), s.stack[j].node \in Z
      PROVE  s.stack[j + 1].node \in Z
  <2>1. PICK e \in Ahead(h, s) : h.edges[e].from = s.stack[j].node /\ h.edges[e].to = s.stack[j + 1].node
    BY <1>1, <1>5 DEF Linked
  <2>2. e \in Whole(h) /\ h.edges[e].to # m
    BY <1>2, <1>5, <2>1 DEF Ahead, Followed
  <2> QED
    BY <1>5, <2>1, <2>2 DEF Leads
<1> QED
  BY <1>1, <1>3, <1>4, <1>5, StackClimb

LEMMA FromEntriesStart ==
    ASSUME NEW h
    PROVE  FromEntries(h, SearchStart(h))
<1> PICK s : s = SearchStart(h)
  OBVIOUS
<1>1. s.stack = << >> /\ s.color = [n \in NodeIds(h) |-> "white"]
  BY DEF SearchStart
<1>2. Stacked(s) = {} /\ Followed(h, s) = {}
  <2>1. \A e \in Whole(h) : s.color[h.edges[e].from] = "white"
    BY <1>1, WholeIs
  <2> QED
    BY <1>1, <2>1 DEF Stacked, Followed
<1> QED
  BY <1>2 DEF FromEntries, Ahead

LEMMA FromEntriesStep ==
    ASSUME NEW h, IsGraph(h), WellOrdered(h), NEW s, SearchInv(h, s), FromEntries(h, s), ~Searched(h, s),
           NEW t, t = SearchStep(h, s)
    PROVE  FromEntries(h, t)
<1>0. s \in SearchStates(h) /\ PathShape(h, s) /\ t \in SearchStates(h) /\ SearchInv(h, t) /\ PathShape(h, t)
  BY StepKeepsInv DEF SearchInv, PathShape
<1>1. \/ BacksOut(h, s, t)
      \/ Begins(h, s, t)
      \/ \E e \in s.stack[Len(s.stack)].left :
            Turns(h, s, t, e) \/ Passes(h, s, t, e) \/ Enters(h, s, t, e)
  BY <1>0, StepIs
<1>2. CASE BacksOut(h, s, t)
  <2>1. Ahead(h, t) = Ahead(h, s)
    <3>1. Followed(h, t) = Followed(h, s)
      BY <1>0, <1>2, BacksOutShape
    <3>2. t.back = s.back
      BY <1>2 DEF BacksOut
    <3> QED
      BY <3>1, <3>2 DEF Ahead
  <2>2. 1 \in Stacked(t) => 1 \in Stacked(s) /\ t.stack[1] = s.stack[1]
    <3>1. Len(s.stack) \in Nat /\ Len(t.stack) = Len(s.stack) - 1
          /\ \A k \in 1..(Len(s.stack) - 1) : t.stack[k] = s.stack[k]
      BY <1>0, <1>2, StackTyped DEF BacksOut
    <3> QED
      BY <3>1 DEF Stacked
  <2> QED
    BY <2>1, <2>2 DEF FromEntries
<1>3. CASE Begins(h, s, t)
  <2>1. Ahead(h, t) = Ahead(h, s)
    BY <1>0, <1>3, BeginsShape DEF Begins, Ahead
  <2>2. Stacked(s) = {} /\ s.next \in 1..Len(h.nodes)
    <3>1. Len(s.stack) = 0 /\ s.next <= Len(h.nodes) /\ s.next \in Nat \ {0} /\ Len(h.nodes) \in Nat
      BY <1>0, <1>3, StackTyped DEF Begins, IsGraph
    <3> QED
      BY <3>1 DEF Stacked
  <2>3. CASE Len(t.stack) = 0
    <3>1. 1 \notin Stacked(t)
      BY <2>3 DEF Stacked
    <3> QED
      BY <2>1, <3>1 DEF FromEntries
  <2>4. CASE Len(t.stack) # 0
    <3> PICK n : n = h.nodes[s.next]
      OBVIOUS
    <3>1. s.color[n] = "white" /\ t.stack[1] = [node |-> n, left |-> OutEdges(h, n)]
      BY <1>3, <2>4 DEF Begins
    <3>2. n \in Entries(h) /\ t.stack[1].node = n
      BY <2>2, <3>1, RootIsEntry
    <3> QED
      BY <2>1, <3>2 DEF FromEntries
  <2> QED
    BY <2>3, <2>4
<1>4. ASSUME NEW e, Turns(h, s, t, e) \/ Passes(h, s, t, e) \/ Enters(h, s, t, e)
      PROVE  FromEntries(h, t)
  <2>1. Follows(h, s, t, e)
    BY <1>4 DEF Turns, Passes, Enters
  <2>2. /\ Len(s.stack) \in Stacked(s) /\ h.edges[e].from = s.stack[Len(s.stack)].node
        /\ h.edges[e].to \in NodeIds(h) /\ e \notin Followed(h, s)
        /\ \A k \in Stacked(s) : t.stack[k].node = s.stack[k].node
    BY <1>0, <2>1, FollowsParts
  <2>3. 1 \in Stacked(s)
    BY <1>0, <2>2, StackTyped DEF Stacked
  <2>4. t.stack[1].node \in Entries(h)
    BY <2>2, <2>3 DEF FromEntries
  <2>5. CASE Turns(h, s, t, e)
    <3>1. Ahead(h, t) = Ahead(h, s)
      BY <1>0, <2>2, <2>5, StaysShape DEF Turns, Ahead
    <3> QED
      BY <2>4, <3>1 DEF FromEntries
  <2>6. CASE Passes(h, s, t, e) \/ Enters(h, s, t, e)
    <3>1. Ahead(h, t) = Ahead(h, s) \cup {e}
      BY <1>0, <2>6, PassesInv, EntersInv
    <3>2. s.color[h.edges[e].to] # "gray"
      BY <2>6 DEF Passes, Enters
    <3>3. Bypasses(h, h.edges[e].to, h.edges[e].from)
      BY <2>2, <3>2, StackBypasses
    <3> QED
      BY <2>4, <3>1, <3>3 DEF FromEntries
  <2> QED
    BY <1>4, <2>5, <2>6
<1> QED
  BY <1>1, <1>2, <1>3, <1>4

\* An edge to a node that every path to its start passes is a back edge.
LEMMA DominatedIsBack ==
    ASSUME NEW h, IsGraph(h), WellOrdered(h), NEW e \in Whole(h) \ BackEdges(h),
           h.edges[e].to \notin Entries(h)
    PROVE  Bypasses(h, h.edges[e].to, h.edges[e].from)
<1> DEFINE X == {s \in SearchStates(h) : SearchInv(h, s) /\ FromEntries(h, s)}
<1>1. \A s \in X : SearchInv(h, s) /\ (~Searched(h, s) => SearchStep(h, s) \in X)
  BY StepKeepsInv, FromEntriesStep
<1>2. SearchStart(h) \in X
  BY StartInv, FromEntriesStart
<1>3. PICK s \in X : Searched(h, s) /\ BackEdges(h) = s.back
  <2> HIDE DEF X
  <2>1. X \in SUBSET SearchStates(h)
    BY DEF X
  <2> QED
    BY <1>1, <1>2, <2>1, SearchEnds
<1>4. e \in Ahead(h, s)
  BY <1>3, SearchedAll
<1> QED
  BY <1>3, <1>4 DEF FromEntries

-----------------------------------------------------------------------------
LEMMA GraphIsWellOrdered ==
    ASSUME TriggersFirst, GraphTyped, EdgesResolve(g), ValidateReachability(g)
    PROVE  WellOrdered(g) /\ Whole(g) = EdgeIds(g)
<1>0. IsGraph(g) /\ IsFiniteSet(NodeIds(g))
  BY TypedIsGraph, GraphFinite
<1>1. Whole(g) = EdgeIds(g)
  <2>1. ASSUME NEW e \in EdgeIds(g) PROVE e \in Whole(g)
    <3>1. g.edges[e].from \in NodeIds(g) /\ g.edges[e].to \in NodeIds(g)
      BY DEF EdgesResolve
    <3> QED
      BY <3>1, WholeIs
  <2> QED
    BY <2>1, WholeIs
<1>2. ReachFrom(g, EdgeIds(g), Entries(g)) = NodeIds(g) /\ Entries(g) \in SUBSET NodeIds(g)
  BY DEF ValidateReachability, Entries
<1>3. ASSUME NEW Z \in SUBSET NodeIds(g), Entries(g) \subseteq Z, Leads(g, Whole(g), Z) PROVE Z = NodeIds(g)
  <2>1. Closed(g, EdgeIds(g), Z)
    BY <1>1, <1>3 DEF Closed, Leads
  <2>2. ReachFrom(g, EdgeIds(g), Entries(g)) \subseteq Z
    BY <1>0, <1>2, <1>3, <2>1, ReachIsClosure
  <2> QED
    BY <1>2, <2>2
<1> QED
  BY <1>1, <1>3 DEF WellOrdered, TriggersFirst, GraphTyped

LEMMA LoopsCloseStructured == GraphTyped /\ TriggersFirst /\ NoEdgeToTrigger => StructuredLoopsClose
<1> SUFFICES ASSUME GraphTyped, TriggersFirst, NoEdgeToTrigger, HasTrigger(g), EdgesResolve(g),
                    ValidateReachability(g), NEW e \in EdgeIds(g), StructuredLoop(e)
             PROVE  back = {e}
  BY DEF StructuredLoopsClose
<1> DEFINE u == g.edges[e].from
           m == g.edges[e].to
<1>0. IsGraph(g) /\ IsFiniteSet(NodeIds(g)) /\ WellOrdered(g) /\ Whole(g) = EdgeIds(g)
  BY TypedIsGraph, GraphFinite, GraphIsWellOrdered
<1>1. e \in Whole(g) /\ u \in NodeIds(g) /\ m \in NodeIds(g) /\ g.kind[m] # "trigger"
  BY <1>0, WholeIs, TargetIsNoTrigger
<1>2. Dominates(m, u) /\ \A n \in NodeIds(g) : n \notin After(EdgeIds(g) \ {e}, n)
  BY DEF StructuredLoop
<1>3. e \in back
  <2> SUFFICES ASSUME e \notin back PROVE FALSE
    OBVIOUS
  <2>1. Bypasses(g, m, u)
    BY <1>0, <1>1, DominatedIsBack DEF back, Entries
  <2> DEFINE F == {d \in EdgeIds(g) : g.edges[d].to # m}
             R == ReachFrom(g, F, Triggers)
  <2>2. Triggers = Entries(g) /\ Triggers \in SUBSET NodeIds(g) /\ m \notin Triggers
    BY <1>1 DEF Triggers, Entries
  <2>3. R \in SUBSET NodeIds(g) /\ Triggers \subseteq R /\ Closed(g, F, R)
    BY <1>0, <2>2, ReachIsClosure
  <2>4. Leads(g, {d \in Whole(g) : g.edges[d].to # m}, R)
    BY <1>0, <2>3, WholeIs DEF Closed, Leads
  <2>5. u \in R
    BY <2>1, <2>2, <2>3, <2>4 DEF Bypasses
  <2> QED
    BY <1>2, <2>2, <2>5 DEF Dominates
<1>4. ASSUME NEW b \in back, b # e PROVE FALSE
  <2> DEFINE v == g.edges[b].from
             w == g.edges[b].to
             F == EdgeIds(g) \ {e}
  <2>1. b \in Whole(g) /\ v \in NodeIds(g) /\ w \in NodeIds(g) /\ b \in F
    BY <1>0, <1>4, BackEdgesFacts, WholeIs DEF back
  <2>2. After(F, v) \in SUBSET NodeIds(g) /\ w \in After(F, v) /\ Closed(g, F, After(F, v))
    BY <1>0, <2>1, AfterGrows
  <2>3. Leads(g, Whole(g) \ back, After(F, v))
    BY <1>0, <1>3, <2>2, WholeIs DEF Closed, Leads
  <2>4. v \in After(F, v)
    BY <1>0, <1>4, <2>2, <2>3, BackEdgesFacts DEF back
  <2> QED
    BY <1>2, <2>1, <2>4
<1> QED
  BY <1>3, <1>4

\* A loop that a branch of a decision closes back to its head, the only way into it,
\* has that branch for its one back edge, in any graph whose triggers are declared
\* first and have no edge into them (graph.go BackEdges). Nothing in the code makes an
\* author do so, and both are needed: a search that begins inside a loop cuts it
\* elsewhere.
THEOREM StructuredLoopsInvariant ==
    ASSUME TriggersFirst, NoEdgeToTrigger
    PROVE  GraphSpec => []StructuredLoopsClose
<1>1. GraphTyped => StructuredLoopsClose
  BY LoopsCloseStructured
<1> QED
  BY <1>1, GraphTypedHolds, PTL

-----------------------------------------------------------------------------
(***************************************************************************)
(* Nothing has gone before for ever: the forward edges of a graph are on   *)
(* no cycle, and an iteration has finitely many before it.                 *)
(***************************************************************************)
\* Where edge e comes from when it leads to key k: the iteration before along a
\* back edge, the same along any other.
Source(h, b, e, k) == <<h.edges[e].from, IF e \in b THEN k[2] - 1 ELSE k[2]>>

\* A set of nodes, each of which has a forward edge into it from the set, is empty.
LEMMA NoBottomlessNodes ==
    ASSUME NEW h, IsGraph(h), NEW N \in SUBSET NodeIds(h),
           \A n \in N : \E e \in EdgeIds(h) \ BackEdges(h) : h.edges[e].to = n /\ h.edges[e].from \in N
    PROVE  N = {}
<1> SUFFICES ASSUME N # {} PROVE FALSE
  OBVIOUS
<1> PICK b : b = BackEdges(h)
  OBVIOUS
<1> DEFINE F == Whole(h) \ b
           Down(n) == ReachFrom(h, F, {n})
           Rest(n) == NodeIds(h) \ Down(n)
           L == {Rest(n) : n \in N}
<1>0. IsFiniteSet(NodeIds(h))
  BY GraphFinite
<1>1. \A u \in NodeIds(h) : \E C \in SUBSET (NodeIds(h) \ {u}) :
         \A e \in F : h.edges[e].from \in C \cup {u} => h.edges[e].to \in C
  BY BackEdgesFacts
<1>2. \A n \in NodeIds(h) :
          /\ Down(n) \in SUBSET NodeIds(h) /\ n \in Down(n) /\ Closed(h, F, Down(n))
          /\ \A Z : n \in Z /\ Closed(h, F, Z) => Down(n) \subseteq Z
  <2> SUFFICES ASSUME NEW n \in NodeIds(h)
               PROVE  /\ Down(n) \in SUBSET NodeIds(h) /\ n \in Down(n) /\ Closed(h, F, Down(n))
                      /\ \A Z : n \in Z /\ Closed(h, F, Z) => Down(n) \subseteq Z
    OBVIOUS
  <2>1. {n} \in SUBSET NodeIds(h)
    OBVIOUS
  <2> HIDE DEF F
  <2>2. /\ Down(n) \in SUBSET NodeIds(h) /\ {n} \subseteq Down(n) /\ Closed(h, F, Down(n))
        /\ \A Z : {n} \subseteq Z /\ Closed(h, F, Z) => Down(n) \subseteq Z
    BY <1>0, <2>1, ReachIsClosure
  <2> HIDE DEF Down
  <2> QED
    BY <2>2
<1> HIDE DEF Down
<1>3. L \subseteq FiniteSubsetsOf(NodeIds(h)) /\ L # {}
  <2>1. \A A \in SUBSET NodeIds(h) : A \in FiniteSubsetsOf(NodeIds(h))
    BY <1>0, FS_Subset DEF FiniteSubsetsOf
  <2>2. \A n \in N : Rest(n) \in SUBSET NodeIds(h)
    OBVIOUS
  <2> HIDE DEF Rest
  <2> QED
    BY <2>1, <2>2
<1>4. PICK A \in L : \A B \in L : <<B, A>> \notin StrictSubsetOrdering(NodeIds(h))
  <2> HIDE DEF L
  <2>1. IsWellFoundedOn(StrictSubsetOrdering(NodeIds(h)), FiniteSubsetsOf(NodeIds(h)))
    BY FS_StrictSubsetOrderingWellFounded
  <2> QED
    BY <1>3, <2>1, WFMin
<1>5. PICK n \in N : A = Rest(n)
  BY <1>4
<1>6. PICK e \in F : h.edges[e].to = n /\ h.edges[e].from \in N
  BY WholeIs
<1> PICK m : m = h.edges[e].from
  OBVIOUS
<1>7. m \in N /\ m \in NodeIds(h) /\ n \in NodeIds(h) /\ n \in Down(m)
  BY <1>2, <1>6 DEF Closed
<1>8. Down(n) \subseteq Down(m)
  BY <1>2, <1>7
<1>9. m \notin Down(n)
  <2>1. PICK C \in SUBSET (NodeIds(h) \ {m}) :
           \A d \in F : h.edges[d].from \in C \cup {m} => h.edges[d].to \in C
    BY <1>1, <1>7
  <2>2. n \in C /\ Closed(h, F, C)
    BY <1>6, <2>1 DEF Closed
  <2>3. Down(n) \subseteq C
    BY <1>2, <1>7, <2>2
  <2> QED
    BY <2>1, <2>3
<1>10. Rest(m) \in L /\ Rest(m) \subseteq Rest(n) /\ Rest(m) # Rest(n)
  BY <1>2, <1>7, <1>8, <1>9
<1>11. Rest(m) \in SUBSET NodeIds(h) /\ Rest(n) \in SUBSET NodeIds(h)
  OBVIOUS
<1> HIDE DEF Rest, L
<1>12. <<Rest(m), A>> \in StrictSubsetOrdering(NodeIds(h))
  BY <1>5, <1>10, <1>11 DEF StrictSubsetOrdering
<1> QED
  BY <1>4, <1>10, <1>12

LEMMA KeyShape ==
    ASSUME NEW h, NEW k \in Keys(h)
    PROVE  k = <<k[1], k[2]>> /\ k[1] \in NodeIds(h) /\ k[2] \in Iterations /\ k[2] \in Nat
BY MaxIterationsAssumption DEF Keys, Iterations

\* A set of keys, each of which has an edge into it from the set, is empty.
LEMMA NoBottomlessKeys ==
    ASSUME NEW h, IsGraph(h), NEW Z \in SUBSET Keys(h),
           \A k \in Z : \E e \in EdgeIds(h) :
               h.edges[e].to = k[1] /\ Source(h, BackEdges(h), e, k) \in Z
    PROVE  Z = {}
<1> SUFFICES ASSUME Z # {} PROVE FALSE
  OBVIOUS
<1> PICK b : b = BackEdges(h)
  OBVIOUS
<1> DEFINE I == {k[2] : k \in Z}
<1>1. \A k \in Z : k = <<k[1], k[2]>> /\ k[1] \in NodeIds(h) /\ k[2] \in Nat
  BY KeyShape
<1>2. I \in SUBSET Nat /\ I # {}
  BY <1>1
<1>3. PICK i \in I : \A x \in I : i <= x
  <2> HIDE DEF I
  <2> QED
    BY <1>2, Least
<1> DEFINE N == {k[1] : k \in {x \in Z : x[2] = i}}
<1>4. N # {} /\ N \in SUBSET NodeIds(h)
  BY <1>1, <1>3
<1>5. ASSUME NEW n \in N
      PROVE  \E e \in EdgeIds(h) \ b : h.edges[e].to = n /\ h.edges[e].from \in N
  <2>1. PICK k \in Z : k[1] = n /\ k[2] = i
    OBVIOUS
  <2>2. PICK e \in EdgeIds(h) : h.edges[e].to = k[1] /\ Source(h, b, e, k) \in Z
    OBVIOUS
  <2> PICK s : s = Source(h, b, e, k)
    OBVIOUS
  <2>3. s \in Z /\ s[1] = h.edges[e].from /\ s[2] = IF e \in b THEN k[2] - 1 ELSE k[2]
    BY <2>2 DEF Source
  <2>4. s[2] \in I /\ i \in Nat
    BY <1>2, <2>3
  <2>5. i <= s[2]
    BY <1>3, <2>4
  <2>6. e \notin b
    BY <2>1, <2>3, <2>4, <2>5
  <2> QED
    BY <2>1, <2>2, <2>3, <2>6
<1> HIDE DEF N
<1> QED
  BY <1>4, <1>5, NoBottomlessNodes

-----------------------------------------------------------------------------
(***************************************************************************)
(* What the walk sees of two tables of rows, the second of which keeps all *)
(* that is completed in the first.                                         *)
(***************************************************************************)
Table(h) == [Keys(h) -> Rows(h)]
Keeps(h, rw, rv) == \A k \in Keys(h) : Completed(rw, k) => rv[k] = rw[k]

\* Key k follows from a completed key along an edge that is live.
Led(h, b, rw, k) ==
    \E e \in EdgeIds(h) :
        LET s == Source(h, b, e, k)
        IN  /\ h.edges[e].to = k[1]
            /\ s \in Keys(h)
            /\ Completed(rw, s)
            /\ ~EdgePruned(h, rw, e, s[2])

\* Every row has been written in its turn: it is the entry's, or it follows.
Grounded(h, b, rw) ==
    /\ \A k \in Keys(h) : HasRow(rw, k) => k \in Seeds(h, rw) \/ Led(h, b, rw, k)
    /\ \A j, k \in Seeds(h, rw) : j = k
    /\ \A k \in Seeds(h, rw) : Completed(rw, k)

\* The back edges that have been taken out of iteration i.
Opened(h, b, rw, i) ==
    {e \in b : <<h.edges[e].from, i>> \in Keys(h) /\ BackEdgeTaken(h, rw, e, i)}

\* They lead to one node, whatever iteration it is.
OneTurn(h, b, rw) == \A i \in Iterations : \A d, e \in Opened(h, b, rw, i) : h.edges[d].to = h.edges[e].to

LEMMA StepAlong ==
    ASSUME NEW h, NEW b, NEW rw, NEW j \in Keys(h), NEW k \in Keys(h)
    PROVE  k \in Successors(h, b, rw, j) <=>
             \E e \in EdgeIds(h) : /\ h.edges[e].to = k[1]
                                   /\ j = Source(h, b, e, k)
                                   /\ ~EdgePruned(h, rw, e, j[2])
                                   /\ e \in b => Completed(rw, j)
<1>1. j = <<j[1], j[2]>> /\ k = <<k[1], k[2]>> /\ j[2] \in Nat /\ k[2] \in Nat
  BY KeyShape
<1>2. k \in Successors(h, b, rw, j) <=>
        \E e \in EdgeIds(h) :
           /\ h.edges[e].from = j[1]
           /\ \/ e \in b /\ BackEdgeTaken(h, rw, e, j[2]) /\ k = <<h.edges[e].to, j[2] + 1>>
              \/ e \notin b /\ ~EdgePruned(h, rw, e, j[2]) /\ k = <<h.edges[e].to, j[2]>>
  BY DEF Successors
<1>3. ASSUME NEW e \in EdgeIds(h)
      PROVE  (/\ h.edges[e].from = j[1]
              /\ \/ e \in b /\ BackEdgeTaken(h, rw, e, j[2]) /\ k = <<h.edges[e].to, j[2] + 1>>
                 \/ e \notin b /\ ~EdgePruned(h, rw, e, j[2]) /\ k = <<h.edges[e].to, j[2]>>)
             <=> /\ h.edges[e].to = k[1]
                 /\ j = Source(h, b, e, k)
                 /\ ~EdgePruned(h, rw, e, j[2])
                 /\ e \in b => Completed(rw, j)
  <2>1. j = Source(h, b, e, k) <=> h.edges[e].from = j[1] /\ j[2] = IF e \in b THEN k[2] - 1 ELSE k[2]
    BY <1>1 DEF Source
  <2>2. h.edges[e].from = j[1] => (BackEdgeTaken(h, rw, e, j[2]) <=> Completed(rw, j) /\ ~EdgePruned(h, rw, e, j[2]))
    BY <1>1 DEF BackEdgeTaken
  <2>3. \A i \in Nat : k = <<h.edges[e].to, i>> <=> k[1] = h.edges[e].to /\ k[2] = i
    BY <1>1
  <2>4. (k = <<h.edges[e].to, j[2] + 1>> <=> k[1] = h.edges[e].to /\ k[2] = j[2] + 1)
        /\ (k = <<h.edges[e].to, j[2]>> <=> k[1] = h.edges[e].to /\ k[2] = j[2])
    BY <1>1, <2>3
  <2>5. k[2] = j[2] + 1 <=> j[2] = k[2] - 1
    BY <1>1
  <2> QED
    BY <2>1, <2>2, <2>4, <2>5
<1> QED
  BY <1>2, <1>3

LEMMA IncomingAlong ==
    ASSUME NEW h, NEW b, NEW rw, NEW T, NEW k, NEW s
    PROVE  s \in LiveIncoming(h, b, rw, T, k) <=>
             \E e \in EdgeIds(h) : /\ h.edges[e].to = k[1]
                                   /\ s = Source(h, b, e, k)
                                   /\ s \in T
                                   /\ ~EdgePruned(h, rw, e, s[2])
<1> DEFINE Src(e) == Source(h, b, e, k)
<1>1. \A e : Src(e)[2] = IF e \in b THEN k[2] - 1 ELSE k[2]
  BY DEF Source
<1>2. LiveIncoming(h, b, rw, T, k) =
        {Src(e) : e \in {d \in EdgeIds(h) :
            /\ h.edges[d].to = k[1] /\ Src(d) \in T
            /\ ~EdgePruned(h, rw, d, IF d \in b THEN k[2] - 1 ELSE k[2])}}
  BY DEF LiveIncoming, Source
<1> HIDE DEF Src
<1>3. s \in LiveIncoming(h, b, rw, T, k) <=>
        \E e \in EdgeIds(h) : /\ h.edges[e].to = k[1] /\ s = Src(e) /\ s \in T
                              /\ ~EdgePruned(h, rw, e, s[2])
  BY <1>1, <1>2
<1> QED
  BY <1>3 DEF Src

\* An edge that is dead stays dead, and one whose source is completed stays live.
LEMMA PrunedStays ==
    ASSUME NEW h, NEW rw, NEW rv, Keeps(h, rw, rv), NEW e, NEW i, <<h.edges[e].from, i>> \in Keys(h)
    PROVE  /\ EdgePruned(h, rw, e, i) => EdgePruned(h, rv, e, i)
           /\ Completed(rw, <<h.edges[e].from, i>>) =>
                  /\ Completed(rv, <<h.edges[e].from, i>>)
                  /\ EdgePruned(h, rv, e, i) => EdgePruned(h, rw, e, i)
BY DEF EdgePruned, Keeps, Completed

LEMMA OpenedStays ==
    ASSUME NEW h, NEW b, NEW rw, NEW rv, Keeps(h, rw, rv), NEW i
    PROVE  Opened(h, b, rw, i) \subseteq Opened(h, b, rv, i)
BY PrunedStays DEF Opened, BackEdgeTaken

\* Every row of a grounded table is at a key the walk reaches.
LEMMA RowsReached ==
    ASSUME NEW h, IsGraph(h), NEW b, b = BackEdges(h), NEW rw, Grounded(h, b, rw),
           NEW k0 \in Keys(h), HasRow(rw, k0)
    PROVE  k0 \in Reached(h, b, rw)
<1> DEFINE T == Reached(h, b, rw)
           Z == {k \in Keys(h) : HasRow(rw, k) /\ k \notin T}
<1>1. Seeds(h, rw) \subseteq T /\ Onto(h, b, rw, T) \subseteq T /\ T \in SUBSET Keys(h)
  BY ReachedIsLeast
<1> HIDE DEF T
<1>2. ASSUME NEW k \in Z
      PROVE  \E e \in EdgeIds(h) : h.edges[e].to = k[1] /\ Source(h, b, e, k) \in Z
  <2>1. PICK e \in EdgeIds(h) : /\ h.edges[e].to = k[1]
                                /\ Source(h, b, e, k) \in Keys(h)
                                /\ Completed(rw, Source(h, b, e, k))
                                /\ ~EdgePruned(h, rw, e, Source(h, b, e, k)[2])
    BY <1>1 DEF Grounded, Led
  <2> PICK s : s = Source(h, b, e, k)
    OBVIOUS
  <2>2. HasRow(rw, s)
    BY <2>1 DEF Completed, HasRow
  <2>3. s \notin T
    <3>1. SUFFICES ASSUME s \in T PROVE FALSE
      OBVIOUS
    <3>2. k \in Successors(h, b, rw, s)
      BY <2>1, StepAlong
    <3>3. k \in Onto(h, b, rw, T)
      BY <3>1, <3>2 DEF Onto
    <3> QED
      BY <1>1, <3>3
  <2> QED
    BY <2>1, <2>2, <2>3
<1> HIDE DEF Z
<1>3. Z = {}
  <2>1. Z \in SUBSET Keys(h)
    BY DEF Z
  <2> QED
    BY <1>2, <2>1, NoBottomlessKeys
<1> QED
  BY <1>3 DEF Z, T

\* An iteration the walk has come to was opened by a back edge.
LEMMA IterationOpened ==
    ASSUME NEW h, IsGraph(h), NEW b, b \subseteq Whole(h), NEW rw, NEW k \in Reached(h, b, rw), NEW i \in Nat, k[2] = i + 1
    PROVE  \E d \in Opened(h, b, rw, i) :
               <<h.edges[d].from, i>> \in Reached(h, b, rw) /\ <<h.edges[d].to, i + 1>> \in Reached(h, b, rw)
<1> SUFFICES ASSUME \A d \in Opened(h, b, rw, i) :
                        ~ (<<h.edges[d].from, i>> \in Reached(h, b, rw) /\ <<h.edges[d].to, i + 1>> \in Reached(h, b, rw))
             PROVE  FALSE
  OBVIOUS
<1> DEFINE T == Reached(h, b, rw)
           Z == {j \in T : j[2] # i + 1}
<1>1. /\ Seeds(h, rw) \subseteq T /\ Onto(h, b, rw, T) \subseteq T /\ T \in SUBSET Keys(h)
      /\ \A U : Seeds(h, rw) \subseteq U /\ Onto(h, b, rw, U) \subseteq U => T \subseteq U
  BY ReachedIsLeast
<1> HIDE DEF T
<1>2. Seeds(h, rw) \subseteq Z
  BY <1>1 DEF Seeds
<1>3. ASSUME NEW x \in Onto(h, b, rw, Z) PROVE x \in Z
  <2>1. PICK j \in Z : x \in Keys(h) /\ x \in Successors(h, b, rw, j)
    BY DEF Onto
  <2>2. x \in T /\ j \in T /\ j \in Keys(h) /\ j[2] # i + 1
    BY <1>1, <2>1 DEF Onto
  <2>3. PICK e \in EdgeIds(h) : /\ h.edges[e].to = x[1] /\ j = Source(h, b, e, x)
                                /\ ~EdgePruned(h, rw, e, j[2])
                                /\ e \in b => Completed(rw, j)
    BY <2>1, <2>2, StepAlong
  <2>4. SUFFICES ASSUME x[2] = i + 1 PROVE FALSE
    BY <2>2
  <2>5. j[1] = h.edges[e].from /\ j[2] = IF e \in b THEN x[2] - 1 ELSE x[2]
    BY <2>3 DEF Source
  <2>6. e \in b /\ j[2] = i
    BY <2>2, <2>4, <2>5
  <2>7. j = <<h.edges[e].from, i>> /\ x = <<h.edges[e].to, i + 1>>
    BY <2>1, <2>2, <2>3, <2>4, <2>5, <2>6, KeyShape
  <2>8. e \in Opened(h, b, rw, i)
    <3>1. Completed(rw, <<h.edges[e].from, i>>) /\ ~EdgePruned(h, rw, e, i) /\ <<h.edges[e].from, i>> \in Keys(h)
      BY <2>2, <2>3, <2>6, <2>7
    <3> QED
      BY <2>6, <3>1 DEF Opened, BackEdgeTaken
  <2> QED
    BY <2>2, <2>7, <2>8 DEF T
<1>4. T \subseteq Z
  <2> HIDE DEF Z
  <2> QED
    BY <1>1, <1>2, <1>3
<1>5. k \in T /\ k[2] = i + 1
  BY DEF T
<1> QED
  BY <1>4, <1>5

\* Where loops take turns, the back edges taken out of an iteration lead to one node:
\* all it has rows for is what its first key leads to, by the branches it has chosen.
LEMMA OneTurnHolds ==
    ASSUME NEW h, IsGraph(h), LoopsTakeTurns(h), NEW b, b = BackEdges(h),
           NEW rw \in Table(h), Grounded(h, b, rw)
    PROVE  OneTurn(h, b, rw)
<1> DEFINE O(i) == Opened(h, b, rw, i)
           Bad == {i \in Iterations : \E d, e \in O(i) : h.edges[d].to # h.edges[e].to}
<1> SUFFICES ASSUME Bad # {} PROVE FALSE
  BY DEF OneTurn
<1>1. Bad \in SUBSET Nat
  BY MaxIterationsAssumption DEF Iterations
<1>2. PICK i \in Bad : \A x \in Bad : i <= x
  <2> HIDE DEF Bad
  <2> QED
    BY <1>1, Least
<1>3. i \in Iterations /\ i \in Nat
  BY <1>1
<1> DEFINE Starts == {k \in Keys(h) : /\ k[2] = i
                                      /\ k \in Seeds(h, rw) \/ \E e \in O(i - 1) : h.edges[e].to = k[1]}
<1>4. \A j, k \in Starts : j[1] = k[1]
  <2> SUFFICES ASSUME NEW j \in Starts, NEW k \in Starts PROVE j[1] = k[1]
    OBVIOUS
  <2>1. CASE i = 0
    <3>1. O(i - 1) = {}
      <4>1. \A n : <<n, i - 1>> \notin Keys(h)
        BY <2>1 DEF Keys, Iterations
      <4> QED
        BY <4>1 DEF Opened
    <3>2. j \in Seeds(h, rw) /\ k \in Seeds(h, rw)
      BY <3>1
    <3> QED
      BY <3>2 DEF Grounded
  <2>2. CASE i # 0
    <3>1. i - 1 \in Iterations /\ i - 1 \in Nat /\ i - 1 < i
      BY <1>3, <2>2, MaxIterationsAssumption DEF Iterations
    <3>2. i - 1 \notin Bad
      <4> HIDE DEF Bad
      <4> QED
        BY <1>2, <1>3, <3>1
    <3>3. j \notin Seeds(h, rw) /\ k \notin Seeds(h, rw)
      BY <2>2 DEF Seeds
    <3> QED
      BY <3>1, <3>2, <3>3
  <2> QED
    BY <2>1, <2>2
<1>5. b \subseteq Whole(h) /\ IsFiniteSet(NodeIds(h))
  BY BackEdgesFacts, GraphFinite
<1>6. PICK d0, e0 \in O(i) : h.edges[d0].to # h.edges[e0].to
  BY <1>2
<1>7. PICK n \in NodeIds(h) : \A k \in Starts : k[1] = n
  <2>1. CASE Starts = {}
    <3>1. h.edges[d0].from \in NodeIds(h)
      BY <1>5, <1>6, WholeIs DEF Opened
    <3> QED
      BY <2>1, <3>1
  <2>2. CASE Starts # {}
    <3>1. PICK k \in Starts : TRUE
      BY <2>2
    <3>2. k[1] \in NodeIds(h)
      BY KeyShape
    <3> HIDE DEF Starts
    <3> QED
      BY <1>4, <3>1, <3>2
  <2> QED
    BY <2>1, <2>2
<1> DEFINE choice == [m \in {x \in NodeIds(h) : h.kind[x] \in Routing} |-> rw[<<m, i>>].port]
           kept == KeptEdges(h, choice)
           seen == ReachFrom(h, kept \ b, {n})
<1>8. choice \in Decisions(h)
  <2>1. ASSUME NEW m \in NodeIds(h) PROVE rw[<<m, i>>].port \in Ports(h)
    <3>1. <<m, i>> \in Keys(h)
      BY <1>3 DEF Keys
    <3> QED
      BY <3>1 DEF Table, Rows
  <2> QED
    BY <2>1 DEF Decisions
<1>9. \A d, e \in kept \cap b : h.edges[d].from \in seen /\ h.edges[e].from \in seen
                               => h.edges[d].to = h.edges[e].to
  <2> HIDE DEF choice
  <2>1. \A d, e \in KeptEdges(h, choice) \cap b :
            /\ h.edges[d].from \in ReachFrom(h, KeptEdges(h, choice) \ b, {n})
            /\ h.edges[e].from \in ReachFrom(h, KeptEdges(h, choice) \ b, {n})
            => h.edges[d].to = h.edges[e].to
    BY <1>8, SMTT(30) DEF LoopsTakeTurns
  <2> QED
    BY <2>1
<1>10. n \in seen /\ Closed(h, kept \ b, seen)
  <2>1. {n} \in SUBSET NodeIds(h)
    OBVIOUS
  <2> HIDE DEF kept
  <2>2. {n} \subseteq seen /\ Closed(h, kept \ b, seen)
    BY <1>5, <2>1, ReachIsClosure
  <2> HIDE DEF seen
  <2> QED
    BY <2>2
<1> HIDE DEF seen, Starts, Bad
\* What a completed key chose is kept.
<1>11. ASSUME NEW e \in EdgeIds(h), h.edges[e].from \in NodeIds(h),
              Completed(rw, <<h.edges[e].from, i>>), ~EdgePruned(h, rw, e, i)
       PROVE  e \in kept
  BY <1>11 DEF EdgePruned, KeptEdges
<1> HIDE DEF kept
<1> DEFINE Z == {k \in Keys(h) : k[2] = i /\ HasRow(rw, k) /\ k[1] \notin seen}
<1>12. ASSUME NEW k \in Z
       PROVE  \E e \in EdgeIds(h) : h.edges[e].to = k[1] /\ Source(h, b, e, k) \in Z
  <2>1. k \in Keys(h) /\ k[2] = i /\ k[1] \notin seen /\ HasRow(rw, k) /\ k \notin Starts
    BY <1>7, <1>10
  <2>2. k \notin Seeds(h, rw) /\ \A e \in O(i - 1) : h.edges[e].to # k[1]
    BY <2>1 DEF Starts
  <2>3. PICK e \in EdgeIds(h) : /\ h.edges[e].to = k[1]
                                /\ Source(h, b, e, k) \in Keys(h)
                                /\ Completed(rw, Source(h, b, e, k))
                                /\ ~EdgePruned(h, rw, e, Source(h, b, e, k)[2])
    BY <2>1, <2>2 DEF Grounded, Led
  <2> PICK s : s = Source(h, b, e, k)
    OBVIOUS
  <2>4. s = <<h.edges[e].from, IF e \in b THEN i - 1 ELSE i>>
    BY <2>1 DEF Source
  <2>5. e \notin b
    <3> SUFFICES ASSUME e \in b PROVE FALSE
      OBVIOUS
    <3>1. s = <<h.edges[e].from, i - 1>> /\ s[2] = i - 1
      BY <2>4
    <3>2. e \in O(i - 1)
      BY <2>3, <3>1 DEF Opened, BackEdgeTaken
    <3> QED
      BY <2>2, <2>3, <3>2
  <2>6. s = <<h.edges[e].from, i>> /\ s[1] = h.edges[e].from /\ s[2] = i /\ h.edges[e].from \in NodeIds(h)
    BY <2>3, <2>4, <2>5, KeyShape
  <2>7. e \in kept
    BY <1>11, <2>3, <2>6
  <2>8. s[1] \notin seen
    <3>1. k[1] \in NodeIds(h)
      BY <2>1, KeyShape
    <3> QED
      BY <1>10, <2>1, <2>3, <2>5, <2>6, <2>7, <3>1 DEF Closed
  <2>9. HasRow(rw, s)
    BY <2>3 DEF Completed, HasRow
  <2> QED
    BY <2>3, <2>6, <2>8, <2>9
<1>13. Z = {}
  <2>1. Z \in SUBSET Keys(h)
    OBVIOUS
  <2> HIDE DEF Z
  <2> QED
    BY <1>12, <2>1, NoBottomlessKeys
<1>14. ASSUME NEW d \in O(i) PROVE d \in kept \cap b /\ h.edges[d].from \in seen
  <2> PICK s : s = <<h.edges[d].from, i>>
    OBVIOUS
  <2>1. d \in b /\ d \in EdgeIds(h) /\ h.edges[d].from \in NodeIds(h) /\ s \in Keys(h)
        /\ Completed(rw, s) /\ ~EdgePruned(h, rw, d, i)
    BY <1>5, WholeIs DEF Opened, BackEdgeTaken
  <2>2. HasRow(rw, s) /\ s[1] = h.edges[d].from /\ s[2] = i
    BY <2>1 DEF Completed, HasRow
  <2>3. d \in kept
    BY <1>11, <2>1
  <2> QED
    BY <1>13, <2>1, <2>2, <2>3
<1> HIDE DEF Z, O
<1> QED
  BY <1>6, <1>9, <1>14

\* As a table fills up, the walk comes to new keys in new iterations only: in one it
\* has come to, the branches that are chosen can only leave keys out.
LEMMA ReachedShrinks ==
    ASSUME NEW h, IsGraph(h), NEW b, b \subseteq Whole(h), NEW rw, NEW rv, Keeps(h, rw, rv),
           Seeds(h, rv) \subseteq Seeds(h, rw), OneTurn(h, b, rv),
           NEW k0 \in Reached(h, b, rv), NEW j0 \in Reached(h, b, rw), j0[2] = k0[2]
    PROVE  k0 \in Reached(h, b, rw)
<1> DEFINE T == Reached(h, b, rw)
           Been(k) == \E j \in T : j[2] = k[2]
           Z == {k \in Keys(h) : Been(k) => k \in T}
<1>1. Seeds(h, rw) \subseteq T /\ Onto(h, b, rw, T) \subseteq T /\ T \in SUBSET Keys(h)
  BY ReachedIsLeast
<1>2. k0 \in Keys(h) /\ \A U : Seeds(h, rv) \subseteq U /\ Onto(h, b, rv, U) \subseteq U => Reached(h, b, rv) \subseteq U
  BY ReachedIsLeast
<1>3. \A k \in T, i \in Nat : k[2] = i + 1 =>
         \E d \in Opened(h, b, rw, i) :
             <<h.edges[d].from, i>> \in T /\ <<h.edges[d].to, i + 1>> \in T
  BY IterationOpened
<1> HIDE DEF T
<1>4. Seeds(h, rv) \subseteq Z
  BY <1>1 DEF Seeds
<1>5. ASSUME NEW k \in Onto(h, b, rv, Z) PROVE k \in Z
  <2>1. PICK j \in Z : k \in Keys(h) /\ k \in Successors(h, b, rv, j)
    BY DEF Onto
  <2>2. SUFFICES ASSUME Been(k) PROVE k \in T
    BY <2>1
  <2>3. j \in Keys(h) /\ (Been(j) => j \in T)
    BY <2>1
  <2> HIDE DEF Been, Z
  <2>4. PICK e \in EdgeIds(h) : /\ h.edges[e].to = k[1] /\ j = Source(h, b, e, k)
                                /\ ~EdgePruned(h, rv, e, j[2])
                                /\ e \in b => Completed(rv, j)
    BY <2>1, <2>3, StepAlong
  <2>5. j = <<h.edges[e].from, j[2]>> /\ j[2] = (IF e \in b THEN k[2] - 1 ELSE k[2]) /\ j[2] \in Nat
    BY <2>3, <2>4, KeyShape DEF Source
  <2>6. CASE e \notin b
    <3>1. j \in T
      BY <2>2, <2>3, <2>5, <2>6 DEF Been
    <3>2. ~EdgePruned(h, rw, e, j[2])
      BY <2>3, <2>4, <2>5, PrunedStays
    <3>3. k \in Successors(h, b, rw, j)
      BY <2>1, <2>3, <2>4, <2>6, <3>2, StepAlong
    <3> QED
      BY <1>1, <2>1, <3>1, <3>3 DEF Onto
  <2>7. CASE e \in b
    <3> PICK i : i = j[2]
      OBVIOUS
    <3>1. i \in Nat /\ k[2] = i + 1 /\ i \in Iterations /\ k = <<k[1], k[2]>>
      BY <2>1, <2>3, <2>5, <2>7, KeyShape
    <3>2. PICK d \in Opened(h, b, rw, i) : <<h.edges[d].to, i + 1>> \in T
      BY <1>3, <2>2, <3>1 DEF Been
    <3>3. d \in Opened(h, b, rv, i)
      BY <3>2, OpenedStays
    <3>4. e \in Opened(h, b, rv, i)
      BY <2>3, <2>4, <2>5, <2>7 DEF Opened, BackEdgeTaken
    <3>5. h.edges[d].to = h.edges[e].to
      BY <3>1, <3>3, <3>4 DEF OneTurn
    <3> QED
      BY <2>4, <3>1, <3>2, <3>5
  <2> QED
    BY <2>6, <2>7
<1>6. Reached(h, b, rv) \subseteq Z
  <2> HIDE DEF Z
  <2> QED
    BY <1>2, <1>4, <1>5
<1>7. Been(k0)
  BY DEF T
<1> QED
  BY <1>6, <1>7 DEF T

\* So what a reached key waits for can only become less.
LEMMA IncomingShrinks ==
    ASSUME NEW h, IsGraph(h), NEW b, b \subseteq Whole(h), NEW rw, NEW rv, Keeps(h, rw, rv),
           Seeds(h, rv) \subseteq Seeds(h, rw), OneTurn(h, b, rv), NEW k \in Reached(h, b, rw)
    PROVE  LiveIncoming(h, b, rv, Reached(h, b, rv), k) \subseteq LiveIncoming(h, b, rw, Reached(h, b, rw), k)
<1> PICK T, V : T = Reached(h, b, rw) /\ V = Reached(h, b, rv)
  OBVIOUS
<1>1. T \in SUBSET Keys(h) /\ V \in SUBSET Keys(h) /\ k \in T
  BY ReachedIsLeast
<1> SUFFICES ASSUME NEW s \in LiveIncoming(h, b, rv, V, k) PROVE s \in LiveIncoming(h, b, rw, T, k)
  OBVIOUS
<1>2. PICK e \in EdgeIds(h) : /\ h.edges[e].to = k[1]
                              /\ s = Source(h, b, e, k)
                              /\ s \in V
                              /\ ~EdgePruned(h, rv, e, s[2])
  <2>1. V \in SUBSET Keys(h) /\ s \in LiveIncoming(h, b, rv, V, k)
    BY <1>1
  <2> QED
    BY <2>1, IncomingAlong
<1>3. s = <<h.edges[e].from, s[2]>> /\ s[2] = (IF e \in b THEN k[2] - 1 ELSE k[2]) /\ s \in Keys(h) /\ s[2] \in Nat /\ k[2] \in Nat
  BY <1>1, <1>2, KeyShape DEF Source
<1>4. ~EdgePruned(h, rw, e, s[2])
  BY <1>2, <1>3, PrunedStays
<1>5. PICK j \in T : j[2] = s[2]
  <2>1. CASE e \notin b
    BY <1>1, <1>3, <2>1
  <2>2. CASE e \in b
    <3> PICK i : i = s[2]
      OBVIOUS
    <3>1. i \in Nat /\ k[2] = i + 1
      BY <1>3, <2>2
    <3>2. PICK d \in Opened(h, b, rw, i) : <<h.edges[d].from, i>> \in T
      BY <1>1, <3>1, IterationOpened
    <3> QED
      BY <3>2
  <2> QED
    BY <2>1, <2>2
<1>6. s \in T
  BY <1>2, <1>5, ReachedShrinks
<1> QED
  BY <1>1, <1>2, <1>4, <1>6, IncomingAlong

\* And a key that is ready stays ready until its row is written.
LEMMA StaysReady ==
    ASSUME NEW h, IsGraph(h), NEW b, b = BackEdges(h), NEW rw, NEW rv, Keeps(h, rw, rv),
           Seeds(h, rv) \subseteq Seeds(h, rw), OneTurn(h, b, rv), Grounded(h, b, rv),
           NEW k \in Ready(h, b, rw), ~HasRow(rv, k)
    PROVE  k \in Ready(h, b, rv)
<1> PICK T, V : T = Reached(h, b, rw) /\ V = Reached(h, b, rv)
  OBVIOUS
<1>1. T \in SUBSET Keys(h) /\ V \in SUBSET Keys(h) /\ Onto(h, b, rv, V) \subseteq V
  BY ReachedIsLeast
<1>2. k \in Keys(h) /\ k \in T /\ h.kind[k[1]] # "trigger" /\ PredecessorsSatisfied(h, b, rw, T, k)
  BY DEF Ready
<1>3. LiveIncoming(h, b, rw, T, k) # {} /\ \A s \in LiveIncoming(h, b, rw, T, k) : Completed(rw, s)
  BY <1>2 DEF PredecessorsSatisfied
<1>4. \A s \in LiveIncoming(h, b, rw, T, k) : s \in Keys(h) /\ Completed(rv, s)
  <2> SUFFICES ASSUME NEW s \in LiveIncoming(h, b, rw, T, k) PROVE s \in Keys(h) /\ Completed(rv, s)
    OBVIOUS
  <2>1. s \in Keys(h)
    BY <1>1, IncomingAlong
  <2> QED
    BY <1>3, <2>1 DEF Keeps, Completed
<1>5. LiveIncoming(h, b, rv, V, k) \subseteq LiveIncoming(h, b, rw, T, k)
  <2>1. b \subseteq Whole(h)
    BY BackEdgesFacts
  <2> QED
    BY <1>2, <2>1, IncomingShrinks
<1>6. PICK s \in LiveIncoming(h, b, rw, T, k) : TRUE
  BY <1>3
<1>7. PICK e \in EdgeIds(h) : /\ h.edges[e].to = k[1]
                              /\ s = Source(h, b, e, k)
                              /\ ~EdgePruned(h, rw, e, s[2])
  <2>1. T \in SUBSET Keys(h) /\ s \in LiveIncoming(h, b, rw, T, k)
    BY <1>1, <1>6
  <2> QED
    BY <2>1, IncomingAlong
<1>8. s = <<h.edges[e].from, s[2]>> /\ s \in Keys(h) /\ Completed(rw, s) /\ Completed(rv, s)
  BY <1>3, <1>4, <1>6, <1>7, KeyShape DEF Source
<1>9. ~EdgePruned(h, rv, e, s[2])
  BY <1>7, <1>8, PrunedStays
<1>10. s \in V
  <2>1. HasRow(rv, s)
    BY <1>8 DEF Completed, HasRow
  <2> QED
    BY <1>8, <2>1, RowsReached
<1>11. k \in V
  <2>1. k \in Successors(h, b, rv, s)
    BY <1>2, <1>7, <1>8, <1>9, StepAlong
  <2> QED
    BY <1>1, <1>2, <1>10, <2>1 DEF Onto
<1>12. s \in LiveIncoming(h, b, rv, V, k)
  BY <1>1, <1>7, <1>9, <1>10, IncomingAlong
<1>13. PredecessorsSatisfied(h, b, rv, V, k)
  BY <1>4, <1>5, <1>12 DEF PredecessorsSatisfied
<1> QED
  BY <1>2, <1>11, <1>13 DEF Ready

\* A row that is written where the table is ready keeps the table grounded.
LEMMA GroundedStays ==
    ASSUME NEW h, IsGraph(h), NEW b, NEW rw, NEW rv, Grounded(h, b, rw), Keeps(h, rw, rv),
           \A k \in Keys(h) : HasRow(rv, k) => HasRow(rw, k) \/ k \in Ready(h, b, rw)
    PROVE  Grounded(h, b, rv) /\ Seeds(h, rv) = Seeds(h, rw)
<1>1. \A k \in Keys(h) : Led(h, b, rw, k) => Led(h, b, rv, k)
  <2> SUFFICES ASSUME NEW k \in Keys(h), Led(h, b, rw, k) PROVE Led(h, b, rv, k)
    OBVIOUS
  <2>1. PICK e \in EdgeIds(h) : /\ h.edges[e].to = k[1]
                                /\ Source(h, b, e, k) \in Keys(h)
                                /\ Completed(rw, Source(h, b, e, k))
                                /\ ~EdgePruned(h, rw, e, Source(h, b, e, k)[2])
    BY DEF Led
  <2> PICK s : s = Source(h, b, e, k)
    OBVIOUS
  <2>2. s = <<h.edges[e].from, s[2]>>
    BY DEF Source
  <2>3. Completed(rv, s) /\ ~EdgePruned(h, rv, e, s[2])
    BY <2>1, <2>2, PrunedStays
  <2> QED
    BY <2>1, <2>3 DEF Led
<1>2. Seeds(h, rv) = Seeds(h, rw)
  <2>1. ASSUME NEW k \in Seeds(h, rv) PROVE k \in Seeds(h, rw)
    BY <2>1 DEF Seeds, Ready
  <2>2. ASSUME NEW k \in Seeds(h, rw) PROVE k \in Seeds(h, rv)
    <3>1. k \in Keys(h) /\ Completed(rw, k)
      BY <2>2 DEF Grounded, Seeds
    <3> QED
      BY <2>2, <3>1 DEF Keeps, Seeds, HasRow
  <2> QED
    BY <2>1, <2>2
<1>3. \A k \in Seeds(h, rv) : Completed(rv, k)
  BY <1>2 DEF Grounded, Seeds, Keeps, Completed
<1>4. \A k \in Ready(h, b, rw) : Led(h, b, rw, k)
  <2> SUFFICES ASSUME NEW k \in Ready(h, b, rw) PROVE Led(h, b, rw, k)
    OBVIOUS
  <2> PICK T : T = Reached(h, b, rw)
    OBVIOUS
  <2>1. T \in SUBSET Keys(h)
    BY ReachedIsLeast
  <2>2. PICK s \in LiveIncoming(h, b, rw, T, k) : Completed(rw, s)
    BY DEF Ready, PredecessorsSatisfied
  <2>3. PICK e \in EdgeIds(h) : h.edges[e].to = k[1] /\ s = Source(h, b, e, k) /\ s \in T /\ ~EdgePruned(h, rw, e, s[2])
    BY <2>1, <2>2, IncomingAlong
  <2> QED
    BY <2>1, <2>2, <2>3 DEF Led
<1>5. ASSUME NEW k \in Keys(h), HasRow(rv, k) PROVE k \in Seeds(h, rv) \/ Led(h, b, rv, k)
  BY <1>1, <1>2, <1>4, <1>5 DEF Grounded
<1> QED
  BY <1>2, <1>3, <1>5 DEF Grounded

-----------------------------------------------------------------------------
(***************************************************************************)
(* Joins wait for all. While a run is driven, its rows are grounded, what  *)
(* is left of the batch is ready, and every key with a row has waited for  *)
(* all that was live before it. Rows written in their turn keep it so.     *)
(***************************************************************************)
Joined(h, b, rw) ==
    \A k \in Keys(h) :
        HasRow(rw, k) /\ h.kind[k[1]] # "trigger" =>
            \A s \in LiveIncoming(h, b, rw, Reached(h, b, rw), k) : Completed(rw, s)

InTurn(h, b, rw, B) ==
    /\ rw \in Table(h)
    /\ Grounded(h, b, rw)
    /\ Joined(h, b, rw)
    /\ B \subseteq Ready(h, b, rw)

LEMMA InTurnStays ==
    ASSUME NEW h, IsGraph(h), LoopsTakeTurns(h), NEW b, b = BackEdges(h),
           NEW rw, NEW B, InTurn(h, b, rw, B), NEW rv \in Table(h), Keeps(h, rw, rv),
           \A k \in Keys(h) : HasRow(rv, k) => HasRow(rw, k) \/ k \in Ready(h, b, rw),
           NEW C \in SUBSET B, \A k \in C : ~HasRow(rv, k)
    PROVE  InTurn(h, b, rv, C)
<1>1. rw \in Table(h) /\ Grounded(h, b, rw) /\ Joined(h, b, rw) /\ B \subseteq Ready(h, b, rw)
  BY DEF InTurn
<1>2. Grounded(h, b, rv) /\ Seeds(h, rv) = Seeds(h, rw)
  BY <1>1, GroundedStays
<1>3. OneTurn(h, b, rv) /\ b \subseteq Whole(h)
  BY <1>2, OneTurnHolds, BackEdgesFacts
<1>4. \A k \in Reached(h, b, rw) :
          LiveIncoming(h, b, rv, Reached(h, b, rv), k) \subseteq LiveIncoming(h, b, rw, Reached(h, b, rw), k)
  BY <1>2, <1>3, IncomingShrinks
<1>5. Joined(h, b, rv)
  <2> SUFFICES ASSUME NEW k \in Keys(h), HasRow(rv, k), h.kind[k[1]] # "trigger",
                      NEW s \in LiveIncoming(h, b, rv, Reached(h, b, rv), k)
               PROVE  Completed(rv, s)
    BY DEF Joined
  <2> PICK T : T = Reached(h, b, rw)
    OBVIOUS
  <2>1. k \in T /\ \A x \in LiveIncoming(h, b, rw, T, k) : Completed(rw, x)
    <3>1. CASE HasRow(rw, k)
      BY <1>1, <3>1, RowsReached DEF Joined
    <3>2. CASE k \in Ready(h, b, rw)
      BY <3>2 DEF Ready, PredecessorsSatisfied
    <3> QED
      BY <3>1, <3>2
  <2>2. s \in LiveIncoming(h, b, rw, T, k) /\ Completed(rw, s)
    BY <1>4, <2>1
  <2>3. s \in Keys(h)
    <3>1. T \in SUBSET Keys(h)
      BY ReachedIsLeast
    <3> QED
      BY <2>2, <3>1, IncomingAlong
  <2> QED
    BY <2>2, <2>3 DEF Keeps, Completed
<1>6. \A k \in C : k \in Ready(h, b, rv)
  BY <1>1, <1>2, <1>3, StaysReady
<1> QED
  BY <1>2, <1>5, <1>6 DEF InTurn

\* What the driver of a graph keeps to while it walks it.
WalkInv ==
    /\ stage \in {"edit", "run"}
    /\ stage = "edit" => rows = NoRowsOf(g) /\ batch = {}
    /\ stage = "run" /\ LoopsTakeTurns(g) => InTurn(g, back, rows, batch)

LEMMA WalkInit == GraphInit => WalkInv
BY DEF GraphInit, WalkInv

LEMMA SeededInTurn ==
    ASSUME NEW h, NEW b, NEW n \in NodeIds(h), h.kind[n] = "trigger",
           NEW rv, rv = [NoRowsOf(h) EXCEPT ![<<n, 0>>] = Row("completed", NoPort)]
    PROVE  InTurn(h, b, rv, {})
<1> PICK k0, row : k0 = <<n, 0>> /\ row = Row("completed", NoPort)
  OBVIOUS
<1>1. k0 \in Keys(h) /\ k0[1] = n /\ k0[2] = 0
  BY MaxIterationsAssumption DEF Keys, Iterations
<1>2. NoRow \in Rows(h) /\ row \in Rows(h) /\ NoRow.status = "none" /\ row.status = "completed"
  BY DEF NoRow, Row, Rows, Ports
<1>3. rv = [k \in Keys(h) |-> IF k = k0 THEN row ELSE NoRow]
  <2>1. rv = [NoRowsOf(h) EXCEPT ![k0] = row]
    OBVIOUS
  <2> QED
    BY <2>1 DEF NoRowsOf
<1>4. rv \in Table(h)
  BY <1>2, <1>3 DEF Table
<1>5. \A k \in Keys(h) : HasRow(rv, k) <=> k = k0
  BY <1>2, <1>3 DEF HasRow
<1>6. Seeds(h, rv) = {k0} /\ Completed(rv, k0)
  BY <1>1, <1>2, <1>3, <1>5 DEF Seeds, Completed
<1>7. Grounded(h, b, rv)
  BY <1>5, <1>6 DEF Grounded
<1>8. Joined(h, b, rv)
  BY <1>1, <1>5 DEF Joined
<1> QED
  BY <1>4, <1>7, <1>8 DEF InTurn

LEMMA WalkStep == GraphTyped /\ WalkInv /\ [GraphNext]_graphVars => WalkInv'
<1> SUFFICES ASSUME GraphTyped, WalkInv, [GraphNext]_graphVars PROVE WalkInv'
  OBVIOUS
<1> PICK h, b : h = g /\ b = BackEdges(h)
  OBVIOUS
<1>0. IsGraph(h) /\ h.nodes \in Seq(NodeIds(h))
  BY TypedIsGraph DEF IsGraph
\* A step of the driver is one on the rows and the batch.
<1>1. ASSUME stage = "run", stage' = "run", g' = g,
             \A B, rw : B = batch /\ rw = rows /\ LoopsTakeTurns(h) /\ InTurn(h, b, rw, B)
                        => InTurn(h, b, rows', batch')
      PROVE  WalkInv'
  <2>1. LoopsTakeTurns(h) => InTurn(h, b, rows', batch')
    BY <1>1 DEF WalkInv, back
  <2>2. back' = b
    BY <1>1 DEF back
  <2> QED
    BY <1>1, <2>1, <2>2 DEF WalkInv
<1>2. ASSUME NEW e \in Choices[g.kind], AddEdge(e) PROVE WalkInv'
  <2>1. g' = [g EXCEPT !.edges = Append(@, e)] /\ stage = "edit" /\ rows' = rows /\ stage' = stage /\ batch' = batch
    BY <1>2 DEF AddEdge
  <2>2. g'.nodes = g.nodes
    BY <2>1
  <2>3. NoRowsOf(g') = NoRowsOf(g)
    BY <2>2 DEF NoRowsOf, Keys, NodeIds
  <2> QED
    BY <2>1, <2>3 DEF WalkInv
<1>3. ASSUME NEW n \in NodeIds(g), BeginRun(n) PROVE WalkInv'
  <2>1. /\ stage' = "run" /\ g' = g /\ batch' = {} /\ g.kind[n] = "trigger"
        /\ rows' = [NoRowsOf(h) EXCEPT ![<<n, 0>>] = Row("completed", NoPort)]
    BY <1>3 DEF BeginRun, WalkInv
  <2> PICK rv : rv = rows'
    OBVIOUS
  <2>2. InTurn(h, b, rv, {})
    BY <2>1, SeededInTurn
  <2>3. back' = b
    BY <2>1 DEF back
  <2> QED
    BY <2>1, <2>2, <2>3 DEF WalkInv
<1>4. CASE Turn
  <2>1. stage = "run" /\ stage' = "run" /\ g' = g /\ rows' = rows /\ batch' = Ready(h, b, rows)
    BY <1>4 DEF Turn, back
  <2>2. ASSUME NEW B, NEW rw, rw = rows, InTurn(h, b, rw, B) PROVE InTurn(h, b, rows', batch')
    BY <2>1, <2>2 DEF InTurn
  <2> QED
    BY <1>1, <2>1, <2>2
<1>5. CASE Redrive
  <2>1. stage' = stage /\ g' = g /\ rows' = rows /\ batch' = {}
    BY <1>5 DEF Redrive
  <2>2. stage = "run"
    BY <1>5 DEF Redrive, WalkInv
  <2>3. ASSUME NEW B, NEW rw, rw = rows, InTurn(h, b, rw, B) PROVE InTurn(h, b, rows', batch')
    BY <2>1, <2>3 DEF InTurn
  <2> QED
    BY <1>1, <2>1, <2>2, <2>3
<1>6. CASE RunNode
  <2> PICK k : k = First(h, batch)
    OBVIOUS
  <2>1. batch # {} /\ batch' = batch \ {k} /\ g' = g /\ stage' = stage
    BY <1>6 DEF RunNode
  <2>2. PICK row \in DispatchRows(h, k[1]) : rows' = [rows EXCEPT ![k] = row]
    BY <1>6 DEF RunNode
  <2>3. stage = "run"
    BY <2>1 DEF WalkInv
  <2>4. ASSUME NEW B, NEW rw, B = batch, rw = rows, LoopsTakeTurns(h), InTurn(h, b, rw, B)
        PROVE  InTurn(h, b, rows', batch')
    <3> PICK rv : rv = [rw EXCEPT ![k] = row]
      OBVIOUS
    <3>1. rw \in Table(h) /\ B \subseteq Ready(h, b, rw) /\ B \in SUBSET Keys(h)
      BY <2>4 DEF InTurn, Ready
    <3>2. k \in B
      BY <1>0, <2>1, <2>4, <3>1, FirstInBatch
    <3>3. k \in Keys(h) /\ k \in Ready(h, b, rw) /\ ~HasRow(rw, k)
      BY <3>1, <3>2 DEF Ready
    <3>4. row \in Rows(h)
      BY <2>2, DispatchRowsTypes
    <3>5. rv \in Table(h)
      BY <3>1, <3>4 DEF Table
    <3>6. \A x \in Keys(h) : x # k => rv[x] = rw[x]
      BY <3>1 DEF Table
    <3>7. Keeps(h, rw, rv)
      BY <3>3, <3>6 DEF Keeps, Completed, HasRow
    <3>8. \A x \in Keys(h) : HasRow(rv, x) => HasRow(rw, x) \/ x \in Ready(h, b, rw)
      BY <3>3, <3>6 DEF HasRow
    <3>9. \A x \in B \ {k} : ~HasRow(rv, x)
      <4>1. \A x \in B : ~HasRow(rw, x)
        BY <3>1 DEF Ready
      <4> QED
        BY <3>1, <3>6, <4>1 DEF HasRow
    <3>10. InTurn(h, b, rv, B \ {k})
      BY <1>0, <2>4, <3>5, <3>7, <3>8, <3>9, InTurnStays
    <3>11. rows' = rv /\ batch' = B \ {k}
      BY <2>1, <2>2, <2>4
    <3> QED
      BY <3>10, <3>11
  <2> QED
    BY <1>1, <2>1, <2>3, <2>4
<1>7. ASSUME NEW k \in Keys(g), NEW d \in Approvals, Answer(k, d) PROVE WalkInv'
  <2> PICK row : row = Row("completed", d)
    OBVIOUS
  <2>1. batch = {} /\ batch' = batch /\ g' = g /\ stage' = stage /\ rows[k].status = "parked"
        /\ rows' = [rows EXCEPT ![k] = row]
    BY <1>7 DEF Answer
  <2>2. stage = "run"
    <3>1. NoRowsOf(g)[k].status = "none"
      BY DEF NoRowsOf, NoRow, Row
    <3> QED
      BY <2>1, <3>1 DEF WalkInv
  <2>3. ASSUME NEW B, NEW rw, B = batch, rw = rows, LoopsTakeTurns(h), InTurn(h, b, rw, B)
        PROVE  InTurn(h, b, rows', batch')
    <3> PICK rv : rv = [rw EXCEPT ![k] = row]
      OBVIOUS
    <3>1. rw \in Table(h) /\ k \in Keys(h) /\ rw[k].status = "parked" /\ B = {}
      BY <2>1, <2>3 DEF InTurn
    <3>2. row \in Rows(h) /\ row.status = "completed"
      BY DEF Row, Rows, Ports
    <3>3. rv \in Table(h)
      BY <3>1, <3>2 DEF Table
    <3>4. \A x \in Keys(h) : x # k => rv[x] = rw[x]
      BY <3>1 DEF Table
    <3>5. Keeps(h, rw, rv)
      BY <3>1, <3>4 DEF Keeps, Completed
    <3>6. \A x \in Keys(h) : HasRow(rv, x) => HasRow(rw, x) \/ x \in Ready(h, b, rw)
      BY <3>1, <3>4 DEF HasRow
    <3>7. InTurn(h, b, rv, {})
      BY <1>0, <2>3, <3>1, <3>3, <3>5, <3>6, InTurnStays
    <3>8. rows' = rv /\ batch' = {}
      BY <2>1, <2>3
    <3> QED
      BY <3>7, <3>8
  <2> QED
    BY <1>1, <2>1, <2>2, <2>3
<1>8. CASE UNCHANGED graphVars
  BY <1>8 DEF WalkInv, graphVars, back
<1> QED
  BY <1>2, <1>3, <1>4, <1>5, <1>6, <1>7, <1>8 DEF GraphNext

\* A node that has run keeps all its live predecessors completed, whatever graph was
\* edited, whatever its approvals were answered and wherever its driver died: a join
\* never goes ahead of a branch that turns out to be live (walk.go computeReady,
\* predecessorsSatisfied). The loops of the graph take turns: where two of them turn
\* side by side before one join, it does go ahead.
THEOREM JoinsWaitInvariant == GraphSpec => [](LoopsTakeTurns(g) => JoinsWaitForAll)
<1>1. WalkInv => (LoopsTakeTurns(g) => JoinsWaitForAll)
  BY DEF WalkInv, JoinsWaitForAll, InTurn, Joined
<1>2. GraphTyped /\ WalkInv /\ [GraphNext]_graphVars => WalkInv'
  BY WalkStep
<1> QED
  BY <1>1, <1>2, WalkInit, GraphTypedHolds, PTL DEF GraphSpec

LEMMA GraphIsGraph == IsGraph(G) /\ Back = BackEdges(G)
BY GraphAssumption DEF IsGraph, EdgeIds, Back

-----------------------------------------------------------------------------
(***************************************************************************)
(* The engine implements the ledger. The ledger's operators are read here  *)
(* as the engine's own.                                                    *)
(***************************************************************************)
LEMMA LedgerReads ==
    /\ \A m : Ledger!Ready(G, Ledger!LBack, m) = Ready(G, Back, m)
    /\ \A n : Ledger!DispatchRows(G, n) = DispatchRows(G, n)
    /\ Ledger!Keys(G) = Keys(G)
    /\ Ledger!NodeIds(G) = NodeIds(G)
<1> USE DEF Ledger!Keys, Keys, Ledger!NodeIds, NodeIds, Ledger!EdgeIds, EdgeIds, Ledger!Iterations, Iterations,
            Ledger!Routing, Routing
<1>1. Ledger!LBack = Back
  BY DEF Ledger!LBack, Back, Ledger!BackEdges, BackEdges, Ledger!SearchStates, SearchStates,
         Ledger!OutEdges, OutEdges, Ledger!Searched, Searched, Ledger!SearchStep, SearchStep,
         Ledger!SearchStart, SearchStart, Ledger!FollowEdge, FollowEdge, Ledger!NextRoot, NextRoot,
         Ledger!Visit, Visit, Ledger!FirstEdge, FirstEdge
<1>2. \A h, b, m : Ledger!Ready(h, b, m) = Ready(h, b, m)
  BY DEF Ledger!Ready, Ready, Ledger!Reached, Reached, Ledger!Successors, Successors,
         Ledger!BackEdgeTaken, BackEdgeTaken, Ledger!EdgePruned, EdgePruned,
         Ledger!Completed, Completed, Ledger!HasRow, HasRow,
         Ledger!PredecessorsSatisfied, PredecessorsSatisfied, Ledger!LiveIncoming, LiveIncoming
<1>3. \A n : Ledger!DispatchRows(G, n) = DispatchRows(G, n)
  BY DEF Ledger!DispatchRows, DispatchRows, Ledger!Row, Row, Ledger!Unwired, Unwired, Ledger!NoPort, NoPort
<1> QED
  BY <1>1, <1>2, <1>3

LEMMA LedgerPuts ==
    ASSUME NEW r, NEW S, NEW row PROVE Ledger!Put(r, S, row) <=> UpdateRows(r, S, row)
<1>1. Ledger!Keys(G) = Keys(G)
  BY LedgerReads
<1> QED
  BY <1>1 DEF Ledger!Put, UpdateRows

LEMMA LedgerStates ==
    ASSUME NEW r PROVE Ledger!InState(r, "parked") = ParkedKeys(r) /\ Ledger!InState(r, "failed") = FailedKeys(r)
<1>1. Ledger!Keys(G) = Keys(G)
  BY LedgerReads
<1> QED
  BY <1>1 DEF Ledger!InState, ParkedKeys, FailedKeys

\* What the rows and the status of a run may do, in the engine's words.
LEMMA LedgerMeans ==
    ASSUME NEW r
    PROVE  /\ Ledger!Begin(r) <=>
                /\ status[r] = "none"
                /\ \E n \in NodeIds(G) :
                      G.kind[n] = "trigger" /\ UpdateRows(r, {<<n, 0>>}, Row("completed", NoPort))
                /\ status' = [status EXCEPT ![r] = "running"]
           /\ Ledger!Record(r) <=>
                /\ status[r] # "none"
                /\ \E k \in Ready(G, Back, frn[r]) :
                      \E row \in DispatchRows(G, k[1]) \cup {Row("failed", NoPort)} : UpdateRows(r, {k}, row)
                /\ UNCHANGED status
           /\ Ledger!Answer(r) <=>
                /\ \E n \in NodeIds(G), row \in {Row("completed", d) : d \in Approvals} \cup {Row("failed", NoPort)} :
                      ParkedAt(r, n) # {} /\ UpdateRows(r, ParkedAt(r, n), row)
                /\ UNCHANGED status
           /\ Ledger!Withdraw(r) <=>
                /\ status[r] # "running"
                /\ UpdateRows(r, ParkedKeys(r), Row("failed", NoPort))
                /\ UNCHANGED status
           /\ Ledger!Finish(r) <=>
                /\ status[r] = "running"
                /\ \E s \in {"completed", "failed", "cancelled"} :
                      (s = "completed" => ParkedKeys(r) = {}) /\ status' = [status EXCEPT ![r] = s]
                /\ UNCHANGED frn
           /\ Ledger!Clear(r) <=>
                /\ status[r] = "failed"
                /\ UpdateRows(r, FailedKeys(r), NoRow)
                /\ UNCHANGED status
           /\ Ledger!Reopen(r) <=>
                /\ status[r] = "failed"
                /\ status' = [status EXCEPT ![r] = "running"]
                /\ UNCHANGED frn
<1>1. /\ \A st, port : Ledger!Row(st, port) = Row(st, port)
      /\ Ledger!NoRow = NoRow /\ Ledger!NoPort = NoPort /\ Ledger!Approvals = Approvals
  BY DEF Ledger!Row, Row, Ledger!NoRow, NoRow, Ledger!NoPort, NoPort, Ledger!Approvals, Approvals
<1>2. \A n : ParkedAt(r, n) = {k \in Ledger!InState(r, "parked") : k[1] = n}
  BY LedgerStates DEF ParkedAt
<1>3. \A S, row : Ledger!Put(r, S, row) <=> UpdateRows(r, S, row)
  BY LedgerPuts
<1>4. Ledger!Begin(r) <=>
                /\ status[r] = "none"
                /\ \E n \in NodeIds(G) :
                      G.kind[n] = "trigger" /\ UpdateRows(r, {<<n, 0>>}, Row("completed", NoPort))
                /\ status' = [status EXCEPT ![r] = "running"]
  BY <1>1, <1>3, LedgerReads DEF Ledger!Begin
<1>5. Ledger!Record(r) <=>
                /\ status[r] # "none"
                /\ \E k \in Ready(G, Back, frn[r]) :
                      \E row \in DispatchRows(G, k[1]) \cup {Row("failed", NoPort)} : UpdateRows(r, {k}, row)
                /\ UNCHANGED status
  BY <1>1, <1>3, LedgerReads DEF Ledger!Record
<1>6. Ledger!Answer(r) <=>
                /\ \E n \in NodeIds(G), row \in {Row("completed", d) : d \in Approvals} \cup {Row("failed", NoPort)} :
                      ParkedAt(r, n) # {} /\ UpdateRows(r, ParkedAt(r, n), row)
                /\ UNCHANGED status
  <2>1. Ledger!Answer(r) <=>
          /\ \E n \in NodeIds(G), row \in {Row("completed", d) : d \in Approvals} \cup {Row("failed", NoPort)} :
                {k \in Ledger!InState(r, "parked") : k[1] = n} # {}
                  /\ Ledger!Put(r, {k \in Ledger!InState(r, "parked") : k[1] = n}, row)
          /\ UNCHANGED status
    BY <1>1, LedgerReads, Zenon DEF Ledger!Answer
  <2> QED
    BY <2>1, <1>2, <1>3
<1>7. Ledger!Withdraw(r) <=>
                /\ status[r] # "running"
                /\ UpdateRows(r, ParkedKeys(r), Row("failed", NoPort))
                /\ UNCHANGED status
  BY <1>1, <1>3, LedgerStates DEF Ledger!Withdraw
<1>8. Ledger!Finish(r) <=>
                /\ status[r] = "running"
                /\ \E s \in {"completed", "failed", "cancelled"} :
                      (s = "completed" => ParkedKeys(r) = {}) /\ status' = [status EXCEPT ![r] = s]
                /\ UNCHANGED frn
  BY LedgerStates DEF Ledger!Finish
<1>9. Ledger!Clear(r) <=>
                /\ status[r] = "failed"
                /\ UpdateRows(r, FailedKeys(r), NoRow)
                /\ UNCHANGED status
  BY <1>1, <1>3, LedgerStates DEF Ledger!Clear
<1>10. Ledger!Reopen(r) <=>
                /\ status[r] = "failed"
                /\ status' = [status EXCEPT ![r] = "running"]
                /\ UNCHANGED frn
  BY DEF Ledger!Reopen
<1> QED
  BY <1>4, <1>5, <1>6, <1>7, <1>8, <1>9, <1>10

LedgerMove(r) ==
    \/ Ledger!Begin(r) \/ Ledger!Record(r) \/ Ledger!Answer(r) \/ Ledger!Withdraw(r)
    \/ Ledger!Finish(r) \/ Ledger!Clear(r) \/ Ledger!Reopen(r)

\* While one request replays a run, no other one replays it or is between the two
\* statements of a kill of it: the code does not see to that (run.go Replay, kill.go
\* KillWorkflow).
ReplaysApart ==
    \A p, q \in Procs : p # q /\ pc[p] \in ReplayPCs /\ at[p] = at[q] => pc[q] \notin ReplayPCs \cup {"killpark"}

\* The nodes left in a batch are ready in the table itself; a run being replayed has
\* failed; and a run whose approvals are being withdrawn is over.
ReadyBatches ==
    \A p \in Procs : pc[p] \in {"node", "exec"} => todo[p] \subseteq Ready(G, Back, frn[at[p]])
ReplaysFailed == \A p \in Procs : pc[p] \in ReplayPCs => status[at[p]] = "failed"
KillsOver == \A p \in Procs : pc[p] = "killpark" /\ Alive(p) => status[at[p]] # "running"

LedgerInv ==
    /\ ParkInv
    /\ \A r \in Runs : Grounded(G, Back, frn[r])
    /\ ReadyBatches /\ ReplaysFailed /\ KillsOver

LEMMA LedgerInvTypes ==
    LedgerInv => /\ TypeInv /\ TypeOK /\ OnlyBegun
                 /\ \A p \in Procs : /\ pc[p] \notin {"idle", "feed", "kill"} => at[p] \in Runs /\ status[at[p]] # "none"
                                     /\ Carry(p)
<1> SUFFICES ASSUME LedgerInv PROVE /\ TypeInv /\ TypeOK /\ OnlyBegun /\ \A p \in Procs : Carry(p)
                                    /\ \A p \in Procs : pc[p] \notin {"idle", "feed", "kill"} => at[p] \in Runs /\ status[at[p]] # "none"
  OBVIOUS
<1>1. TypeInv /\ TypeOK /\ OnlyBegun /\ HasRunInHand /\ \A p \in Procs : Carry(p)
  BY DEF LedgerInv, ParkInv, CarryInv, FlightInv, BegunInv, TypeInv
<1>2. \A p \in Procs : at[p] \in Begun \cup {NoRun}
  BY <1>1 DEF OnlyBegun
<1> QED
  BY <1>1, <1>2, RunsAssumption DEF HasRunInHand, Begun

\* A statement over one row.
LEMMA PutOne ==
    ASSUME TypeOK, NEW r \in Runs, NEW k \in Keys(G), NEW row, frn' = [frn EXCEPT ![r][k] = row]
    PROVE  UpdateRows(r, {k}, row)
<1>1. frn[r] = [j \in Keys(G) |-> frn[r][j]]
  BY DEF TypeOK
<1>2. [frn[r] EXCEPT ![k] = row] = [j \in Keys(G) |-> IF j \in {k} THEN row ELSE frn[r][j]]
  BY <1>1
<1>3. frn' = [frn EXCEPT ![r] = [frn[r] EXCEPT ![k] = row]]
  OBVIOUS
<1> QED
  BY <1>2, <1>3 DEF UpdateRows

\* The first node of a batch is ready in the table.
LEMMA NextIsReady ==
    ASSUME LedgerInv, NEW p \in Procs, pc[p] = "exec"
    PROVE  /\ First(G, todo[p]) \in Keys(G)
           /\ First(G, todo[p]) \in todo[p]
           /\ First(G, todo[p]) \in Ready(G, Back, frn[at[p]])
<1>1. todo[p] # {} /\ todo[p] \in SUBSET Keys(G) /\ todo[p] \subseteq Ready(G, Back, frn[at[p]])
  BY LedgerInvTypes DEF LedgerInv, ReadyBatches, Carry, TypeOK
<1>2. First(G, todo[p]) \in todo[p]
  BY <1>1, GraphAssumption, FirstInBatch
<1> QED
  BY <1>1, <1>2

LEMMA MarksFinish ==
    ASSUME NEW r \in Runs, NEW s \in {"completed", "failed", "cancelled"}, MarkRunTerminal(r, s),
           s = "completed" => ParkedKeys(r) = {}, frn' = frn
    PROVE  UNCHANGED <<status, frn>> \/ Ledger!Finish(r)
<1>1. CASE status[r] = "running"
  <2>1. status' = [status EXCEPT ![r] = s]
    BY <1>1 DEF MarkRunTerminal
  <2> QED
    BY <1>1, <2>1, LedgerMeans
<1>2. CASE status[r] # "running"
  BY <1>2 DEF MarkRunTerminal
<1> QED
  BY <1>1, <1>2

LEMMA SeedBegins ==
    ASSUME TypeOK, NEW r \in Runs, NEW n \in NodeIds(G), SeedRun(r, n)
    PROVE  Ledger!Begin(r)
<1>1. <<n, 0>> \in Keys(G)
  BY MaxIterationsAssumption DEF Keys, Iterations
<1>2. UpdateRows(r, {<<n, 0>>}, Row("completed", NoPort))
  BY <1>1, PutOne DEF SeedRun
<1> QED
  BY <1>2, LedgerMeans DEF SeedRun

\* Every step of a goroutine is a move of the ledger, or none.
LEMMA LedgerMoves ==
    ASSUME LedgerInv, [Next]_vars
    PROVE  UNCHANGED <<status, frn>> \/ \E r \in Runs : LedgerMove(r)
<1> DEFINE Goal == UNCHANGED <<status, frn>> \/ \E r \in Runs : LedgerMove(r)
<1>0. /\ TypeInv /\ TypeOK /\ OnlyBegun
      /\ \A p \in Procs : pc[p] \notin {"idle", "feed", "kill"} => at[p] \in Runs /\ status[at[p]] # "none"
  BY LedgerInvTypes
<1>1. ASSUME NEW p \in Procs, Continue(p) PROVE Goal
  <2>1. CASE FinishNode(p)
    <3> PICK r, k : r = at[p] /\ k = First(G, todo[p])
      OBVIOUS
    <3>1. pc[p] = "exec" /\ UNCHANGED status
      BY <2>1 DEF FinishNode
    <3>2. r \in Runs /\ status[r] # "none" /\ k \in Keys(G) /\ k \in Ready(G, Back, frn[r])
      BY <1>0, <3>1, NextIsReady
    <3>3. frn' = frn \/ \E row \in DispatchRows(G, k[1]) : frn' = [frn EXCEPT ![r][k] = row]
      BY <2>1 DEF FinishNode
    <3>4. frn' = frn \/ \E row \in DispatchRows(G, k[1]) : UpdateRows(r, {k}, row)
      BY <1>0, <3>2, <3>3, PutOne
    <3>5. frn' = frn \/ Ledger!Record(r)
      BY <3>1, <3>2, <3>4, LedgerMeans
    <3> QED
      BY <3>1, <3>2, <3>5 DEF LedgerMove
  <2>2. CASE FailNode(p)
    <3> PICK r, k : r = at[p] /\ k = First(G, todo[p])
      OBVIOUS
    <3>1. pc[p] = "exec" /\ UNCHANGED status
      BY <2>2 DEF FailNode
    <3>2. r \in Runs /\ status[r] # "none" /\ k \in Keys(G) /\ k \in Ready(G, Back, frn[r])
      BY <1>0, <3>1, NextIsReady
    <3>3. frn' = frn \/ frn' = [frn EXCEPT ![r][k] = Row("failed", NoPort)]
      BY <2>2 DEF FailNode
    <3>4. frn' = frn \/ UpdateRows(r, {k}, Row("failed", NoPort))
      BY <1>0, <3>2, <3>3, PutOne
    <3>5. frn' = frn \/ Ledger!Record(r)
      BY <3>1, <3>2, <3>4, LedgerMeans
    <3> QED
      BY <3>1, <3>2, <3>5 DEF LedgerMove
  <2>3. CASE Settle(p)
    <3>1. /\ at[p] \in Runs /\ frn' = frn /\ pc[p] \in {"complete", "fail"}
          /\ pc[p] = "complete" => ParkedKeys(at[p]) = {}
      BY <1>0, <2>3 DEF Settle, LedgerInv, ParkInv
    <3>2. \/ UNCHANGED status
          \/ MarkRunTerminal(at[p], IF pc[p] = "complete" THEN "completed" ELSE "failed")
      BY <2>3 DEF Settle
    <3> PICK s : s = IF pc[p] = "complete" THEN "completed" ELSE "failed"
      OBVIOUS
    <3>3. s \in {"completed", "failed", "cancelled"} /\ (s = "completed" => ParkedKeys(at[p]) = {})
      BY <3>1
    <3> QED
      BY <3>1, <3>2, <3>3, MarksFinish DEF LedgerMove
  <2>4. CASE KillMark(p)
    <3>1. frn' = frn /\ \E r \in list[p] : UNCHANGED status \/ MarkRunTerminal(r, "cancelled")
      BY <2>4 DEF KillMark
    <3>2. list[p] \subseteq Runs
      BY <1>0 DEF TypeOK
    <3> QED
      BY <3>1, <3>2, MarksFinish DEF LedgerMove
  <2>5. CASE KillParked(p)
    <3>1. pc[p] = "killpark" /\ UNCHANGED status /\ at[p] \in Runs
      BY <1>0, <2>5 DEF KillParked
    <3>2. CASE Alive(p)
      <4>1. status[at[p]] # "running"
        BY <3>1, <3>2 DEF LedgerInv, KillsOver
      <4>2. UpdateRows(at[p], ParkedKeys(at[p]), Row("failed", NoPort))
        BY <2>5, <3>2 DEF KillParked
      <4> QED
        BY <3>1, <4>1, <4>2, LedgerMeans DEF LedgerMove
    <3>3. CASE ~Alive(p)
      BY <2>5, <3>1, <3>3 DEF KillParked
    <3> QED
      BY <3>2, <3>3
  <2>6. CASE ReplayClear(p)
    <3>1. pc[p] = "replayclear" /\ UNCHANGED status /\ at[p] \in Runs
      BY <1>0, <2>6 DEF ReplayClear
    <3>2. status[at[p]] = "failed"
      BY <3>1 DEF LedgerInv, ReplaysFailed, ReplayPCs
    <3>3. frn' = frn \/ UpdateRows(at[p], FailedKeys(at[p]), NoRow)
      BY <2>6 DEF ReplayClear
    <3> QED
      BY <3>1, <3>2, <3>3, LedgerMeans DEF LedgerMove
  <2>7. CASE ReplayMark(p)
    <3>1. pc[p] = "replaymark" /\ UNCHANGED frn /\ at[p] \in Runs
      BY <1>0, <2>7 DEF ReplayMark
    <3>2. status[at[p]] = "failed"
      BY <3>1 DEF LedgerInv, ReplaysFailed, ReplayPCs
    <3>3. status' = status \/ status' = [status EXCEPT ![at[p]] = "running"]
      BY <2>7 DEF ReplayMark
    <3> QED
      BY <3>1, <3>2, <3>3, LedgerMeans DEF LedgerMove
  <2>8. CASE Advance(p) /\ ~Settle(p) /\ ~FinishNode(p) /\ ~FailNode(p)
    BY <2>8 DEF Advance, GetRun, Load, WalkTurn, BeginNode, AbortNode, EndBatch, Finalize, EndAdvance
  <2>9. CASE Drive(p) \/ Send(p) \/ TakeJob(p) \/ Feed(p) \/ ReplayRead(p) \/ KillCancel(p)
    BY <2>9 DEF Drive, Send, TakeJob, Feed, ReplayRead, KillCancel
  <2> QED
    BY <1>1, <2>1, <2>2, <2>3, <2>4, <2>5, <2>6, <2>7, <2>8, <2>9 DEF Continue
<1>2. ASSUME NEW p \in Callers, Request(p) PROVE Goal
  <2>1. ASSUME NEW r \in Runs, NEW n \in NodeIds(G), StartRun(p, r, n) PROVE Goal
    BY <1>0, <2>1, SeedBegins DEF StartRun, LedgerMove
  <2>2. ASSUME NEW r \in Runs, NEW n \in NodeIds(G), NEW d \in Approvals, DecideApproval(p, r, n, d) PROVE Goal
    <3>1. ParkedAt(r, n) # {} /\ UpdateRows(r, ParkedAt(r, n), Row("completed", d)) /\ UNCHANGED status
      BY <2>2 DEF DecideApproval
    <3> QED
      BY <3>1, LedgerMeans DEF LedgerMove
  <2>3. CASE (\E r \in Runs : Replay(p, r)) \/ KillWorkflow(p) \/ Disconnect(p)
    BY <2>3 DEF Replay, KillWorkflow, Disconnect
  <2> QED
    BY <1>2, <2>1, <2>2, <2>3 DEF Request
<1>3. ASSUME NEW r \in Runs, NEW n \in NodeIds(G), ClaimFiring(r, n) PROVE Goal
  BY <1>0, <1>3, SeedBegins DEF ClaimFiring, LedgerMove
<1>4. CASE SettleTimeout
  <2>1. PICK x \in due : \/ frn' = frn
                         \/ /\ ParkedAt(x[1], x[2]) # {}
                            /\ UpdateRows(x[1], ParkedAt(x[1], x[2]), TimeoutRow(x[2]))
    BY <1>4 DEF SettleTimeout
  <2>2. x[1] \in Runs /\ x[2] \in NodeIds(G) /\ UNCHANGED status
    BY <1>0, <1>4 DEF TypeOK, SettleTimeout
  <2>3. TimeoutRow(x[2]) \in {Row("completed", d) : d \in Approvals} \cup {Row("failed", NoPort)}
    BY DEF TimeoutRow, Approvals
  <2> QED
    BY <2>1, <2>2, <2>3, LedgerMeans DEF LedgerMove
<1>5. CASE TimeoutFail
  <2>1. Timer \in Procs /\ pc[Timer] = "tfail" /\ frn' = frn /\ MarkRunTerminal(at[Timer], "failed")
    BY <1>5 DEF TimeoutFail, Procs
  <2>2. at[Timer] \in Runs
    BY <1>0, <2>1
  <2> QED
    BY <2>1, <2>2, MarksFinish DEF LedgerMove
<1>6. CASE \/ \E late \in SUBSET TimedNodes : CheckTimeouts(late)
           \/ Ticks /\ ~SettleTimeout /\ ~TimeoutFail
           \/ Lifecycle \/ BeginShutdown \/ Crash
           \/ UNCHANGED vars
  BY <1>6 DEF CheckTimeouts, Ticks, BeginFeed, EndFeed, TimeoutEnqueue, Lifecycle, StartBoot, EndBoot,
              CancelAll, StopPool, Exit, BeginShutdown, Crash, ResetMemory
<1> QED
  BY <1>1, <1>2, <1>3, <1>4, <1>5, <1>6 DEF Next

\* A statement over rows that are there adds none; a move over a run writes a row at
\* a key that has one or is ready, except to begin the run.
LEMMA MoveAdds ==
    ASSUME TypeOK, NEW r \in Runs, LedgerMove(r)
    PROVE  /\ \A q \in Runs : q # r => frn'[q] = frn[q] /\ status'[q] = status[q]
           /\ \/ /\ status[r] = "none"
                 /\ \E n \in NodeIds(G) :
                       G.kind[n] = "trigger" /\ UpdateRows(r, {<<n, 0>>}, Row("completed", NoPort))
              \/ \A k \in Keys(G) : HasRow(frn'[r], k) => HasRow(frn[r], k) \/ k \in Ready(G, Back, frn[r])
<1> DEFINE Kept == \A q \in Runs : q # r => frn'[q] = frn[q] /\ status'[q] = status[q]
           Fresh == \A k \in Keys(G) : HasRow(frn'[r], k) => HasRow(frn[r], k) \/ k \in Ready(G, Back, frn[r])
<1>1. ASSUME NEW S, NEW row, UpdateRows(r, S, row)
      PROVE  /\ \A q \in Runs : q # r => frn'[q] = frn[q]
             /\ \A k \in Keys(G) : frn'[r][k] = IF k \in S THEN row ELSE frn[r][k]
  BY <1>1 DEF UpdateRows, TypeOK
<1>2. ASSUME NEW S, NEW row, UpdateRows(r, S, row), UNCHANGED status,
             row = NoRow \/ \A k \in S \cap Keys(G) : HasRow(frn[r], k) \/ k \in Ready(G, Back, frn[r])
      PROVE  Kept /\ Fresh
  <2>1. ~(NoRow.status # "none")
    BY DEF NoRow, Row
  <2>2. Fresh
    <3> SUFFICES ASSUME NEW k \in Keys(G), HasRow(frn'[r], k) PROVE HasRow(frn[r], k) \/ k \in Ready(G, Back, frn[r])
      OBVIOUS
    <3>1. CASE k \in S
      BY <1>1, <1>2, <2>1, <3>1 DEF HasRow
    <3>2. CASE k \notin S
      BY <1>1, <1>2, <3>2 DEF HasRow
    <3> QED
      BY <3>1, <3>2
  <2> QED
    BY <1>1, <1>2, <2>2
<1>3. ASSUME NEW s, status' = [status EXCEPT ![r] = s] PROVE \A q \in Runs : q # r => status'[q] = status[q]
  BY <1>3 DEF TypeOK
<1>4. /\ \A k \in ParkedKeys(r) : HasRow(frn[r], k)
      /\ \A n : \A k \in ParkedAt(r, n) : HasRow(frn[r], k)
  BY ParkedHasRow DEF ParkedKeys, HasRow
<1>5. CASE Ledger!Begin(r)
  BY <1>1, <1>3, <1>5, LedgerMeans
<1>6. CASE Ledger!Record(r)
  <2>1. PICK k \in Ready(G, Back, frn[r]) : \E row \in DispatchRows(G, k[1]) \cup {Row("failed", NoPort)} : UpdateRows(r, {k}, row)
    BY <1>6, LedgerMeans
  <2>2. UNCHANGED status
    BY <1>6, LedgerMeans
  <2> QED
    BY <1>2, <2>1, <2>2
<1>7. CASE Ledger!Answer(r)
  <2>1. PICK n \in NodeIds(G), row \in {Row("completed", d) : d \in Approvals} \cup {Row("failed", NoPort)} :
            UpdateRows(r, ParkedAt(r, n), row)
    BY <1>7, LedgerMeans
  <2>2. UNCHANGED status
    BY <1>7, LedgerMeans
  <2> QED
    BY <1>2, <1>4, <2>1, <2>2
<1>8. CASE Ledger!Withdraw(r)
  BY <1>2, <1>4, <1>8, LedgerMeans
<1>9. CASE Ledger!Clear(r)
  BY <1>2, <1>9, LedgerMeans
<1>10. CASE Ledger!Finish(r) \/ Ledger!Reopen(r)
  <2>1. UNCHANGED frn /\ \E s : status' = [status EXCEPT ![r] = s]
    BY <1>10, LedgerMeans
  <2> QED
    BY <1>3, <2>1
<1> QED
  BY <1>5, <1>6, <1>7, <1>8, <1>9, <1>10 DEF LedgerMove

\* A move that changes nothing of its run changes nothing.
LEMMA MoveTouches ==
    ASSUME TypeOK, TypeOK', NEW r \in Runs, LedgerMove(r)
    PROVE  Ledger!Touched(r) \/ UNCHANGED <<status, frn>>
<1> SUFFICES ASSUME status'[r] = status[r], frn'[r] = frn[r] PROVE UNCHANGED <<status, frn>>
  BY DEF Ledger!Touched
<1>1. \A q \in Runs : frn'[q] = frn[q] /\ status'[q] = status[q]
  BY MoveAdds
<1>2. /\ status = [q \in Runs |-> status[q]] /\ status' = [q \in Runs |-> status'[q]]
      /\ frn = [q \in Runs |-> frn[q]] /\ frn' = [q \in Runs |-> frn'[q]]
  BY DEF TypeOK
<1> QED
  BY <1>1, <1>2

\* What a step does to the rows of one run.
LEMMA RowsMove ==
    ASSUME LedgerInv, [Next]_vars, NEW r \in Runs
    PROVE  /\ Grounded(G, Back, frn'[r])
           /\ Keeps(G, frn[r], frn'[r])
           /\ status[r] # "none" => Seeds(G, frn'[r]) = Seeds(G, frn[r])
<1>1. TypeOK /\ OnlyBegun /\ Grounded(G, Back, frn[r]) /\ IsGraph(G)
  BY LedgerInvTypes, GraphIsGraph DEF LedgerInv
<1>2. Keeps(G, frn[r], frn'[r])
  <2>1. CompletedKept
    BY RecordOnceStep DEF LedgerInv, ParkInv, CarryInv
  <2> QED
    BY <2>1 DEF CompletedKept, Keeps
<1>3. ASSUME \A k \in Keys(G) : HasRow(frn'[r], k) => HasRow(frn[r], k) \/ k \in Ready(G, Back, frn[r])
      PROVE  Grounded(G, Back, frn'[r]) /\ Seeds(G, frn'[r]) = Seeds(G, frn[r])
  BY <1>1, <1>2, <1>3, GroundedStays
<1>4. CASE frn'[r] = frn[r]
  BY <1>1, <1>2, <1>4
<1>5. CASE frn'[r] # frn[r]
  <2>1. LedgerMove(r)
    BY <1>1, <1>5, LedgerMoves, MoveAdds
  <2>2. CASE \A k \in Keys(G) : HasRow(frn'[r], k) => HasRow(frn[r], k) \/ k \in Ready(G, Back, frn[r])
    BY <1>2, <1>3, <2>2
  <2>3. ASSUME status[r] = "none", NEW n \in NodeIds(G), G.kind[n] = "trigger",
               UpdateRows(r, {<<n, 0>>}, Row("completed", NoPort))
        PROVE  Grounded(G, Back, frn'[r])
    <3> PICK rv : rv = [NoRowsOf(G) EXCEPT ![<<n, 0>>] = Row("completed", NoPort)]
      OBVIOUS
    <3>1. InTurn(G, Back, rv, {})
      BY <2>3, SeededInTurn
    <3>2. frn[r] = NoRows
      BY <1>1, <2>3 DEF OnlyBegun, Begun
    <3>3. frn'[r] = [k \in Keys(G) |-> IF k \in {<<n, 0>>} THEN Row("completed", NoPort) ELSE frn[r][k]]
      BY <1>1, <2>3 DEF UpdateRows, TypeOK
    <3>4. frn'[r] = rv
      <4>1. rv = [k \in Keys(G) |-> IF k = <<n, 0>> THEN Row("completed", NoPort) ELSE NoRow]
        BY DEF NoRowsOf
      <4>2. \A k \in Keys(G) : frn[r][k] = NoRow
        BY <3>2 DEF NoRows
      <4> QED
        BY <3>3, <4>1, <4>2
    <3> QED
      BY <3>1, <3>4 DEF InTurn
  <2> QED
    BY <1>1, <1>2, <2>1, <2>2, <2>3, MoveAdds
<1> QED
  BY <1>4, <1>5

\* A goroutine that is in a batch, in a replay or in a kill moves by its own steps.
LEMMA OthersStay ==
    ASSUME TypeInv, [Next]_vars, NEW q \in Procs,
           pc'[q] \in {"node", "exec", "killpark"} \cup ReplayPCs,
           ~Continue(q), ~(q \in Callers /\ Request(q))
    PROVE  /\ pc'[q] = pc[q] /\ at'[q] = at[q] /\ todo'[q] = todo[q]
           /\ Alive(q)' => Alive(q)
<1> DEFINE Goal == /\ pc'[q] = pc[q] /\ at'[q] = at[q] /\ todo'[q] = todo[q]
                   /\ Alive(q)' => Alive(q)
<1> USE DEF TypeInv, TypeOK, Alive
<1>0. pc'[q] \notin {"idle", "feed", "enqueue", "tfail", "drive", "send"} /\ {Drain, Timer, Boot} \cup Callers \subseteq Procs
  BY DEF ReplayPCs, Procs
<1>1. ASSUME NEW p \in Procs, Continue(p) PROVE Goal
  <2>0. p # q
    BY <1>1
  <2>1. CASE Advance(p)
    <3>1. CASE EndAdvance(p)
      BY <2>0, <3>1 DEF EndAdvance
    <3>2. CASE FinishNode(p)
      BY <2>0, <3>2 DEF FinishNode
    <3>3. CASE WalkTurn(p)
      BY <2>0, <3>3 DEF WalkTurn
    <3>4. CASE Load(p)
      BY <2>0, <3>4 DEF Load
    <3>5. CASE EndBatch(p) \/ Finalize(p) \/ Settle(p)
      BY <2>0, <3>5 DEF EndBatch, Finalize, Settle
    <3>6. CASE GetRun(p) \/ BeginNode(p) \/ FailNode(p) \/ AbortNode(p)
      BY <2>0, <3>6 DEF GetRun, BeginNode, FailNode, AbortNode
    <3> QED
      BY <2>1, <3>1, <3>2, <3>3, <3>4, <3>5, <3>6 DEF Advance
  <2>2. CASE Drive(p) \/ Send(p) \/ TakeJob(p) \/ Feed(p)
    BY <2>0, <2>2 DEF Drive, Send, TakeJob, Feed, EnqueueAdvance
  <2>3. CASE ReplayClear(p) \/ ReplayRead(p) \/ ReplayMark(p)
    BY <2>0, <2>3 DEF ReplayClear, ReplayRead, ReplayMark
  <2>4. CASE KillMark(p) \/ KillParked(p) \/ KillCancel(p)
    BY <2>0, <2>4 DEF KillMark, KillParked, KillCancel
  <2> QED
    BY <1>1, <2>1, <2>2, <2>3, <2>4 DEF Continue
<1>2. ASSUME NEW p \in Callers, Request(p) PROVE Goal
  <2>0. p # q /\ p \in Procs
    BY <1>0, <1>2
  <2> QED
    BY <2>0, <1>2 DEF Request, StartRun, DecideApproval, Replay, KillWorkflow, Disconnect, Accept
<1>3. ASSUME \/ Ticks
             \/ \E late \in SUBSET TimedNodes : CheckTimeouts(late)
             \/ \E r \in Runs, n \in NodeIds(G) : ClaimFiring(r, n)
      PROVE  Goal
  <2>1. CASE SettleTimeout
    BY <1>0, <2>1 DEF SettleTimeout
  <2>2. CASE ~SettleTimeout
    BY <1>0, <1>3, <2>2, HomeTypes DEF Ticks, BeginFeed, EndFeed, TimeoutFail, TimeoutEnqueue,
                                       EnqueueAdvance, CheckTimeouts, ClaimFiring
  <2> QED
    BY <2>1, <2>2
<1>4. CASE Exit \/ Crash
  BY <1>0, <1>4 DEF Exit, Crash, ResetMemory
<1>5. CASE StartBoot \/ EndBoot \/ CancelAll \/ StopPool \/ BeginShutdown \/ UNCHANGED vars
  BY <1>0, <1>5 DEF StartBoot, EndBoot, CancelAll, StopPool, BeginShutdown
<1> QED
  BY <1>1, <1>2, <1>3, <1>4, <1>5 DEF Next, Lifecycle

\* How a goroutine gets into a batch, a replay and a kill.
LEMMA IntoBatch ==
    ASSUME TypeInv, NEW q \in Procs, Continue(q) \/ (q \in Callers /\ Request(q)), pc'[q] \in {"node", "exec"}
    PROVE  /\ at'[q] = at[q]
           /\ \/ pc[q] \in {"node", "exec"} /\ todo'[q] \subseteq todo[q]
              \/ pc[q] = "walk" /\ todo'[q] = Ready(G, Back, mem[q]) /\ frn' = frn
<1> USE DEF TypeInv, TypeOK
<1>1. CASE Advance(q)
  <2>1. CASE WalkTurn(q)
    BY <2>1 DEF WalkTurn
  <2>2. CASE BeginNode(q)
    BY <2>2 DEF BeginNode
  <2>3. CASE FinishNode(q)
    <3>1. /\ pc[q] = "exec" /\ at' = at
          /\ todo' = [todo EXCEPT ![q] = @ \ {First(G, todo[q])}]
      BY <2>3 DEF FinishNode
    <3> QED
      BY <3>1
  <2>4. CASE EndAdvance(q)
    BY <2>4, HomeTypes DEF EndAdvance
  <2>5. CASE GetRun(q) \/ Load(q) \/ FailNode(q) \/ AbortNode(q) \/ EndBatch(q) \/ Finalize(q) \/ Settle(q)
    BY <2>5 DEF GetRun, Load, FailNode, AbortNode, EndBatch, Finalize, Settle
  <2> QED
    BY <1>1, <2>1, <2>2, <2>3, <2>4, <2>5 DEF Advance
<1>2. CASE Continue(q) /\ ~Advance(q)
  BY <1>2, HomeTypes, ZenonT(60) DEF Continue, Drive, Send, TakeJob, Feed, EnqueueAdvance,
     ReplayClear, ReplayRead, ReplayMark, KillMark, KillParked, KillCancel
<1>3. CASE q \in Callers /\ Request(q)
  BY <1>3 DEF Request, StartRun, DecideApproval, Replay, KillWorkflow, Disconnect
<1> QED
  BY <1>1, <1>2, <1>3

LEMMA IntoReplay ==
    ASSUME TypeInv, NEW q \in Procs, Continue(q) \/ (q \in Callers /\ Request(q)), pc'[q] \in ReplayPCs
    PROVE  /\ status' = status
           /\ \/ at'[q] = at[q] /\ pc[q] \in ReplayPCs
              \/ at'[q] \in Runs /\ status[at'[q]] = "failed"
<1> USE DEF TypeInv, TypeOK, ReplayPCs
<1>1. CASE Advance(q)
  <2>1. CASE GetRun(q) \/ Load(q) \/ WalkTurn(q) \/ BeginNode(q)
    BY <2>1 DEF GetRun, Load, WalkTurn, BeginNode
  <2>2. CASE FinishNode(q) \/ FailNode(q) \/ AbortNode(q)
    BY <2>2 DEF FinishNode, FailNode, AbortNode
  <2>3. CASE EndBatch(q) \/ Finalize(q) \/ Settle(q)
    BY <2>3 DEF EndBatch, Finalize, Settle
  <2>4. CASE EndAdvance(q)
    BY <2>4, HomeTypes DEF EndAdvance
  <2> QED
    BY <1>1, <2>1, <2>2, <2>3, <2>4 DEF Advance
<1>2. CASE Drive(q) \/ Send(q) \/ TakeJob(q) \/ Feed(q)
  BY <1>2, HomeTypes, ZenonT(60) DEF Drive, Send, TakeJob, Feed, EnqueueAdvance
<1>3. CASE ReplayClear(q) \/ ReplayRead(q) \/ ReplayMark(q)
  BY <1>3 DEF ReplayClear, ReplayRead, ReplayMark
<1>4. CASE KillMark(q) \/ KillParked(q) \/ KillCancel(q)
  BY <1>4 DEF KillMark, KillParked, KillCancel
<1>5. CASE q \in Callers /\ Request(q)
  BY <1>5 DEF Request, StartRun, DecideApproval, Replay, KillWorkflow, Disconnect
<1> QED
  BY <1>1, <1>2, <1>3, <1>4, <1>5 DEF Continue

LEMMA IntoKill ==
    ASSUME TypeInv, NEW q \in Procs, Continue(q) \/ (q \in Callers /\ Request(q)), pc'[q] = "killpark"
    PROVE  \/ status' = status /\ at'[q] = at[q] /\ pc[q] = "killpark" /\ (Alive(q)' => Alive(q))
           \/ Alive(q)' => status'[at'[q]] # "running"
<1> USE DEF TypeInv, TypeOK
<1>1. CASE Advance(q)
  BY <1>1, HomeTypes DEF Advance, GetRun, Load, WalkTurn, BeginNode, FinishNode, FailNode, AbortNode,
     EndBatch, Finalize, Settle, EndAdvance
<1>2. CASE Drive(q) \/ Send(q) \/ TakeJob(q) \/ Feed(q)
  BY <1>2, HomeTypes, ZenonT(60) DEF Drive, Send, TakeJob, Feed, EnqueueAdvance
<1>3. CASE ReplayClear(q) \/ ReplayRead(q) \/ ReplayMark(q) \/ KillParked(q) \/ KillCancel(q)
  BY <1>3 DEF ReplayClear, ReplayRead, ReplayMark, KillParked, KillCancel
<1>4. CASE KillMark(q)
  <2>1. PICK r \in list[q] : /\ at' = [at EXCEPT ![q] = r]
                             /\ IF Alive(q) THEN MarkRunTerminal(r, "cancelled") ELSE UNCHANGED status
    BY <1>4 DEF KillMark
  <2>2. r \in Runs /\ at'[q] = r /\ Alive(q)' = Alive(q)
    BY <1>4, <2>1 DEF KillMark, Alive
  <2>3. MarkRunTerminal(r, "cancelled") => status'[r] # "running"
    BY <2>2 DEF MarkRunTerminal
  <2> QED
    BY <2>1, <2>2, <2>3
<1>5. CASE q \in Callers /\ Request(q)
  BY <1>5 DEF Request, StartRun, DecideApproval, Replay, KillWorkflow, Disconnect, Alive
<1> QED
  BY <1>1, <1>2, <1>3, <1>4, <1>5 DEF Continue

\* A run that has ended keeps its status, but for a replay.
LEMMA EndedKeeps ==
    ASSUME TypeInv, [Next]_vars, NEW r \in Runs, status[r] \notin {"none", "running"},
           \A p \in Procs : ~(ReplayMark(p) /\ at[p] = r)
    PROVE  status'[r] = status[r]
<1> USE DEF TypeInv, TypeOK
<1> SUFFICES ASSUME status' # status PROVE status'[r] = status[r]
  OBVIOUS
<1>1. ASSUME NEW q \in Runs, NEW s, MarkRunTerminal(q, s) PROVE status'[r] = status[r]
  BY <1>1 DEF MarkRunTerminal
<1>2. ASSUME NEW q \in Runs, NEW n, SeedRun(q, n) PROVE status'[r] = status[r]
  BY <1>2 DEF SeedRun
<1>3. ASSUME NEW p \in Procs, Continue(p) PROVE status'[r] = status[r]
  <2>1. CASE Settle(p)
    <3>1. at[p] \in Runs
      BY <2>1 DEF Settle, HasRunInHand
    <3> QED
      BY <1>1, <2>1, <3>1 DEF Settle
  <2>2. CASE KillMark(p)
    BY <1>1, <2>2 DEF KillMark
  <2>3. CASE ReplayMark(p)
    BY <2>3 DEF ReplayMark
  <2>4. CASE Advance(p) /\ ~Settle(p)
    BY <2>4 DEF Advance, GetRun, Load, WalkTurn, BeginNode, FinishNode, FailNode, AbortNode,
                EndBatch, Finalize, EndAdvance
  <2>5. CASE \/ Drive(p) \/ Send(p) \/ TakeJob(p) \/ Feed(p)
             \/ ReplayClear(p) \/ ReplayRead(p) \/ KillParked(p) \/ KillCancel(p)
    BY <2>5 DEF Drive, Send, TakeJob, Feed, ReplayClear, ReplayRead, KillParked, KillCancel
  <2> QED
    BY <1>3, <2>1, <2>2, <2>3, <2>4, <2>5 DEF Continue
<1>4. ASSUME NEW p \in Callers, Request(p) PROVE status'[r] = status[r]
  BY <1>2, <1>4 DEF Request, StartRun, DecideApproval, Replay, KillWorkflow, Disconnect
<1>5. ASSUME NEW q \in Runs, NEW n \in NodeIds(G), ClaimFiring(q, n) PROVE status'[r] = status[r]
  BY <1>2, <1>5 DEF ClaimFiring
<1>6. CASE TimeoutFail
  <2>1. at[Timer] \in Runs
    BY <1>6 DEF TimeoutFail, HasRunInHand, Procs
  <2> QED
    BY <1>1, <1>6, <2>1 DEF TimeoutFail
<1>7. CASE \/ \E late \in SUBSET TimedNodes : CheckTimeouts(late)
           \/ Ticks /\ ~TimeoutFail
           \/ Lifecycle \/ BeginShutdown \/ Crash
           \/ UNCHANGED vars
  BY <1>7 DEF CheckTimeouts, Ticks, BeginFeed, EndFeed, SettleTimeout, TimeoutEnqueue,
              Lifecycle, StartBoot, EndBoot, CancelAll, StopPool, Exit, BeginShutdown,
              Crash, ResetMemory
<1> QED
  BY <1>3, <1>4, <1>5, <1>6, <1>7 DEF Next

LEMMA BatchesStayReady ==
    ASSUME LoopsTakeTurns(G), LedgerInv, ParkInv', [Next]_vars PROVE ReadyBatches'
<1> SUFFICES ASSUME NEW q \in Procs, pc'[q] \in {"node", "exec"}
             PROVE  todo'[q] \subseteq Ready(G, Back, frn'[at'[q]])
  BY DEF ReadyBatches
<1> PICK r : r = at[q]
  OBVIOUS
<1>1. TypeInv /\ TypeOK /\ Carry(q) /\ IsGraph(G) /\ Back = BackEdges(G)
  BY LedgerInvTypes, GraphIsGraph
<1>2. /\ at'[q] = r
      /\ \/ pc[q] \in {"node", "exec"} /\ todo'[q] \subseteq todo[q]
         \/ pc[q] = "walk" /\ todo'[q] = Ready(G, Back, mem[q]) /\ frn' = frn
  <2>1. CASE Continue(q) \/ (q \in Callers /\ Request(q))
    BY <1>1, <2>1, IntoBatch
  <2>2. CASE ~(Continue(q) \/ (q \in Callers /\ Request(q)))
    BY <1>1, <2>2, OthersStay
  <2> QED
    BY <2>1, <2>2
<1>3. r \in Runs /\ status[r] # "none"
  <2>1. pc[q] \notin {"idle", "feed", "kill"}
    BY <1>2
  <2> QED
    BY <2>1, LedgerInvTypes
<1>4. /\ frn'[r] \in Table(G)
      /\ \A k \in todo'[q] : k \in Keys(G) /\ ~HasRow(frn'[r], k)
  <2>1. TypeOK' /\ Carry(q)'
    BY DEF ParkInv, CarryInv, FlightInv, TypeInv
  <2>2. \A k \in todo'[q] : k \in Keys(G) /\ ~HasRow(mem'[q], k)
    BY <2>1 DEF TypeOK, Carry
  <2>3. \A k \in Keys(G) : HasRow(frn'[r], k) => HasRow(mem'[q], k)
    BY <1>2, <2>1 DEF Carry
  <2> QED
    BY <1>3, <2>1, <2>2, <2>3 DEF TypeOK, Table
<1>5. /\ Grounded(G, Back, frn'[r]) /\ Keeps(G, frn[r], frn'[r]) /\ Seeds(G, frn'[r]) = Seeds(G, frn[r])
      /\ OneTurn(G, Back, frn'[r])
  BY <1>1, <1>3, <1>4, RowsMove, OneTurnHolds
<1>6. ASSUME NEW rw, Keeps(G, rw, frn'[r]), Seeds(G, frn'[r]) \subseteq Seeds(G, rw),
             todo'[q] \subseteq Ready(G, Back, rw)
      PROVE  todo'[q] \subseteq Ready(G, Back, frn'[at'[q]])
  <2>1. \A k \in todo'[q] : k \in Ready(G, Back, frn'[r])
    BY <1>1, <1>4, <1>5, <1>6, StaysReady
  <2> QED
    BY <1>2, <2>1
<1>7. CASE pc[q] \in {"node", "exec"} /\ todo'[q] \subseteq todo[q]
  <2>1. todo[q] \subseteq Ready(G, Back, frn[r])
    BY <1>7 DEF LedgerInv, ReadyBatches
  <2> QED
    BY <1>5, <1>6, <1>7, <2>1
<1>8. CASE pc[q] = "walk" /\ todo'[q] = Ready(G, Back, mem[q]) /\ frn' = frn
  <2>1. /\ \A k \in Keys(G) : Completed(mem[q], k) => frn[r][k] = mem[q][k]
        /\ \A k \in Keys(G) : HasRow(frn[r], k) => HasRow(mem[q], k)
    BY <1>1, <1>8 DEF Carry, Driving, DrivePCs
  <2>2. Keeps(G, mem[q], frn'[r])
    BY <1>8, <2>1 DEF Keeps
  <2>3. Seeds(G, frn'[r]) \subseteq Seeds(G, mem[q])
    BY <1>8, <2>1 DEF Seeds
  <2> QED
    BY <1>6, <1>8, <2>2, <2>3
<1> QED
  BY <1>2, <1>7, <1>8

LEMMA ReplaysStayFailed ==
    ASSUME LedgerInv, ReplaysApart, [Next]_vars PROVE ReplaysFailed'
<1> SUFFICES ASSUME NEW q \in Procs, pc'[q] \in ReplayPCs PROVE status'[at'[q]] = "failed"
  BY DEF ReplaysFailed
<1>1. TypeInv
  BY LedgerInvTypes
<1>2. CASE pc[q] \in ReplayPCs /\ at'[q] = at[q] /\ ~ReplayMark(q)
  <2>1. pc[q] \notin {"idle", "feed", "kill"}
    BY <1>2 DEF ReplayPCs
  <2>2. status[at[q]] = "failed" /\ at[q] \in Runs
    BY <1>2, <2>1, LedgerInvTypes DEF LedgerInv, ReplaysFailed
  <2>3. ASSUME NEW p \in Procs, ReplayMark(p), at[p] = at[q] PROVE FALSE
    <3>1. pc[p] \in ReplayPCs
      BY <2>3 DEF ReplayMark, ReplayPCs
    <3>2. p # q
      BY <1>2, <2>3
    <3> QED
      BY <1>2, <2>3, <3>1, <3>2 DEF ReplaysApart
  <2>4. status'[at[q]] = status[at[q]]
    BY <1>1, <2>2, <2>3, EndedKeeps
  <2> QED
    BY <1>2, <2>2, <2>4
<1>3. CASE Continue(q) \/ (q \in Callers /\ Request(q))
  <2>1. /\ status' = status
        /\ (at'[q] = at[q] /\ pc[q] \in ReplayPCs) \/ (at'[q] \in Runs /\ status[at'[q]] = "failed")
    BY <1>1, <1>3, IntoReplay
  <2> QED
    BY <2>1 DEF LedgerInv, ReplaysFailed
<1>4. CASE ~(Continue(q) \/ (q \in Callers /\ Request(q)))
  <2>1. pc'[q] = pc[q] /\ at'[q] = at[q]
    BY <1>1, <1>4, OthersStay
  <2>2. ~ReplayMark(q)
    BY <1>4 DEF Continue
  <2> QED
    BY <1>2, <2>1, <2>2
<1> QED
  BY <1>3, <1>4

LEMMA KillsStayOver ==
    ASSUME LedgerInv, ReplaysApart, [Next]_vars PROVE KillsOver'
<1> SUFFICES ASSUME NEW q \in Procs, pc'[q] = "killpark", Alive(q)' PROVE status'[at'[q]] # "running"
  BY DEF KillsOver
<1>1. TypeInv
  BY LedgerInvTypes
<1>2. CASE Continue(q) \/ (q \in Callers /\ Request(q))
  <2>1. \/ status' = status /\ at'[q] = at[q] /\ pc[q] = "killpark" /\ (Alive(q)' => Alive(q))
        \/ Alive(q)' => status'[at'[q]] # "running"
    BY <1>1, <1>2, IntoKill
  <2> QED
    BY <2>1 DEF LedgerInv, KillsOver
<1>3. CASE ~(Continue(q) \/ (q \in Callers /\ Request(q)))
  <2>1. pc[q] = "killpark" /\ at'[q] = at[q] /\ Alive(q)
    BY <1>1, <1>3, OthersStay
  <2>2. status[at[q]] \notin {"none", "running"} /\ at[q] \in Runs
    BY <2>1, LedgerInvTypes DEF LedgerInv, KillsOver
  <2>3. ASSUME NEW p \in Procs, ReplayMark(p), at[p] = at[q] PROVE FALSE
    <3>1. pc[p] \in ReplayPCs /\ p # q
      BY <2>1, <2>3 DEF ReplayMark, ReplayPCs
    <3> QED
      BY <2>1, <2>3, <3>1 DEF ReplaysApart
  <2>4. status'[at[q]] = status[at[q]]
    BY <1>1, <2>2, <2>3, EndedKeeps
  <2> QED
    BY <2>1, <2>2, <2>4
<1> QED
  BY <1>2, <1>3

LEMMA LedgerStep ==
    ASSUME LoopsTakeTurns(G)
    PROVE  LedgerInv /\ ReplaysApart /\ [Next]_vars => LedgerInv' /\ [Ledger!LNext]_(Ledger!ledger)
<1> SUFFICES ASSUME LedgerInv, ReplaysApart, [Next]_vars PROVE LedgerInv' /\ [Ledger!LNext]_(Ledger!ledger)
  OBVIOUS
<1>1. ParkInv'
  BY ParkStep DEF LedgerInv
<1>2. \A r \in Runs : Grounded(G, Back, frn'[r])
  BY RowsMove
<1>3. LedgerInv'
  BY <1>1, <1>2, BatchesStayReady, ReplaysStayFailed, KillsStayOver DEF LedgerInv
<1>4. TypeOK /\ TypeOK'
  BY <1>1, LedgerInvTypes DEF ParkInv, CarryInv, FlightInv, TypeInv
<1>5. UNCHANGED <<status, frn>> \/ \E r \in Runs : Ledger!Touched(r) /\ LedgerMove(r)
  BY <1>4, LedgerMoves, MoveTouches
<1> QED
  BY <1>3, <1>5 DEF Ledger!LNext, LedgerMove, Ledger!ledger

LEMMA LedgerStart == Init => LedgerInv /\ Ledger!LInit
<1> SUFFICES ASSUME Init PROVE LedgerInv /\ Ledger!LInit
  OBVIOUS
<1>1. Ledger!LInit
  <2>1. Ledger!Empty = NoRows
    BY LedgerReads DEF Ledger!Empty, NoRows, Ledger!NoRow, Ledger!Row, NoRow, Row, Ledger!NoPort, NoPort
  <2> QED
    BY <2>1 DEF Init, Ledger!LInit
<1>2. ParkInv
  BY ParkInit
<1>3. ASSUME NEW r \in Runs PROVE Grounded(G, Back, frn[r])
  <2>1. frn[r] = NoRows
    BY DEF Init
  <2>2. \A k \in Keys(G) : ~HasRow(frn[r], k)
    BY <2>1 DEF NoRows, HasRow, NoRow, Row
  <2>3. Seeds(G, frn[r]) = {}
    BY <2>2 DEF Seeds
  <2> QED
    BY <2>2, <2>3 DEF Grounded
<1>4. ReadyBatches /\ ReplaysFailed /\ KillsOver
  BY DEF Init, ReadyBatches, ReplaysFailed, KillsOver, ReplayPCs
<1> QED
  BY <1>1, <1>2, <1>3, <1>4 DEF LedgerInv

\* The engine implements the ledger: whatever goroutines drive, decide, time out,
\* kill and replay, and wherever the process stops or crashes, the two tables move
\* as RunLedger says. In particular a result computed over the rows a driver carries
\* is recorded for a node that the table of that moment makes ready (advance.go
\* Advance). Two things are assumed: loops do not turn side by side, and the replays
\* of a run do not meet one another nor a kill of it.
THEOREM LedgerRefinement ==
    ASSUME LoopsTakeTurns(G)
    PROVE  Spec /\ []ReplaysApart => RefinesLedger
<1>1. LedgerInv /\ ReplaysApart /\ [Next]_vars => LedgerInv' /\ [Ledger!LNext]_(Ledger!ledger)
  BY LedgerStep
<1> QED
  BY <1>1, LedgerStart, PTL DEF Spec, RefinesLedger, Ledger!LSpec
=============================================================================
