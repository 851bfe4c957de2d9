------------------------- MODULE TriggerInbox_proofs -------------------------
(***************************************************************************)
(* Proofs about TriggerInbox for every number of workflows, triggers and   *)
(* events: type correctness, then one inductive invariant from which       *)
(* exactly-once consumption, the overlap policies and the hand-over to the *)
(* pool follow.                                                            *)
(***************************************************************************)
EXTENDS TriggerInbox, TLAPS

\* While a firing is being decided it is one of the batch.
HandInBatch == step \notin {"idle", "decide"} => hand \in batch

\* Changing the status of a set of rows keeps their number and their type.
LEMMA SetFiringsType ==
    ASSUME firings \in Seq(FiringRecord), NEW S, NEW s \in Statuses, SetFirings(S, s)
    PROVE  /\ firings' \in Seq(FiringRecord)
           /\ DOMAIN firings' = DOMAIN firings
           /\ \A f \in DOMAIN firings :
                 firings'[f] = IF f \in S THEN [firings[f] EXCEPT !.status = s] ELSE firings[f]
<1>1. firings' = [f \in DOMAIN firings |->
                    IF f \in S THEN [firings[f] EXCEPT !.status = s] ELSE firings[f]]
  BY DEF SetFirings, FiringIds
<1>2. DOMAIN firings = 1..Len(firings) /\ Len(firings) \in Nat
  OBVIOUS
<1>3. \A f \in 1..Len(firings) : firings'[f] \in FiringRecord
  <2> SUFFICES ASSUME NEW f \in 1..Len(firings) PROVE firings'[f] \in FiringRecord
    OBVIOUS
  <2>1. firings[f] \in FiringRecord
    BY <1>2
  <2> QED
    BY <1>1, <1>2, <2>1 DEF FiringRecord
<1>4. firings' \in [1..Len(firings) -> FiringRecord]
  BY <1>1, <1>2, <1>3
<1> QED
  BY <1>1, <1>2, <1>4

\* Appending an element to a sequence.
LEMMA AppendType ==
    ASSUME NEW S, NEW q \in Seq(S), NEW e \in S
    PROVE  /\ Append(q, e) \in Seq(S)
           /\ DOMAIN Append(q, e) = DOMAIN q \cup {Len(q) + 1}
           /\ \A i \in DOMAIN q : Append(q, e)[i] = q[i]
           /\ Append(q, e)[Len(q) + 1] = e
           /\ Len(q) + 1 \notin DOMAIN q
  OBVIOUS

\* Replacing one element of a sequence.
LEMMA ReplaceType ==
    ASSUME NEW S, NEW q \in Seq(S), NEW i \in DOMAIN q, NEW e \in S
    PROVE  /\ [q EXCEPT ![i] = e] \in Seq(S)
           /\ DOMAIN [q EXCEPT ![i] = e] = DOMAIN q
  OBVIOUS

\* The initial state is well typed (TriggerInbox Init).
LEMMA InitType == ASSUME Init PROVE TypeOK
<1>1. /\ firings \in Seq(FiringRecord) /\ runs \in Seq(RunRecord)
      /\ reports \in SUBSET [trigger : Triggers, key : Keys, wf : Workflows]
  BY DEF Init
<1>3. policy \in [Workflows -> Policies] /\ entry \in [Workflows -> SUBSET Triggers]
  BY ChoicesAssumption, EntryAssumption DEF Init, EntrySets
<1>2. used \in [Events -> Nat]
  BY DEF Init
<1> QED
  BY <1>1, <1>2, <1>3 DEF Init, TypeOK, FiringIds, RunIds, NoFiring

\* Every step keeps every variable in its type.
LEMMA NextType == ASSUME TypeOK, HandInBatch, [Next]_vars PROVE TypeOK'
<1>1. ASSUME NEW e \in Events, Spend(e) PROVE used' \in [Events -> Nat]
  BY <1>1 DEF Spend, TypeOK
<1>2. CASE UNCHANGED vars
  BY <1>2 DEF vars, tables, drain, TypeOK, FiringIds, RunIds
<1>3. CASE \E t \in Triggers, k \in Keys : Report(t, k)
  BY <1>1, <1>3, SMTT(30) DEF Report, TypeOK, tables, drain, Events, FiringIds, RunIds
<1>4. ASSUME NEW x \in reports, AppendFiring(x) PROVE TypeOK'
  <2>1. firings' \in Seq(FiringRecord)
    <3>1. [wf |-> x.wf, trigger |-> x.trigger, key |-> x.key, status |-> "pending"]
            \in FiringRecord
      BY DEF TypeOK, FiringRecord, Statuses
    <3> QED
      BY <1>4, <3>1, AppendType DEF AppendFiring, TypeOK
  <2>2. DOMAIN firings \subseteq DOMAIN firings'
    BY <1>4 DEF AppendFiring, TypeOK
  <2> QED
    BY <1>4, <2>1, <2>2 DEF AppendFiring, TypeOK, drain, FiringIds, RunIds
<1>5. CASE ListPending
  BY <1>5 DEF ListPending, TypeOK, tables, Oldest, Pending, FiringIds, RunIds
<1>6. ASSUME NEW f \in batch, Shed(f) PROVE TypeOK'
  <2>1. firings' \in Seq(FiringRecord) /\ DOMAIN firings' = DOMAIN firings
    BY <1>6, SetFiringsType DEF Shed, TypeOK, Statuses
  <2> QED
    BY <1>6, <2>1 DEF Shed, Leave, TypeOK, FiringIds, RunIds
<1>7. ASSUME NEW f \in batch, CountRunning(f) PROVE TypeOK'
  BY <1>7 DEF CountRunning, TypeOK, tables, FiringIds, RunIds
<1>8. CASE Skip
  <2>1. firings' \in Seq(FiringRecord) /\ DOMAIN firings' = DOMAIN firings
    BY <1>8, SetFiringsType DEF Skip, TypeOK, Statuses
  <2> QED
    BY <1>8, <2>1 DEF Skip, Leave, TypeOK, FiringIds, RunIds
<1>9. CASE Defer
  BY <1>9 DEF Defer, Leave, TypeOK, tables, FiringIds, RunIds
<1>10. CASE FindNewest
  BY <1>10 DEF FindNewest, TypeOK, tables, Last, PendingOf, Pending, FiringIds, RunIds
<1>11. CASE Supersede
  <2>1. firings' \in Seq(FiringRecord) /\ DOMAIN firings' = DOMAIN firings
    BY <1>11, SetFiringsType DEF Supersede, TypeOK, Statuses
  <2> QED
    BY <1>11, <2>1 DEF Supersede, TypeOK, FiringIds, RunIds
<1>12. CASE ListVictims
  BY <1>12 DEF ListVictims, TypeOK, tables, RunningOf, FiringIds, RunIds
<1>13. ASSUME NEW r \in victims, CancelVictim(r) PROVE TypeOK'
  <2>1. runs' \in Seq(RunRecord) /\ DOMAIN runs' = DOMAIN runs
    <3>1. r \in DOMAIN runs /\ runs[r] \in RunRecord
      BY DEF TypeOK, RunIds
    <3>2. [runs[r] EXCEPT !.status = "cancelled"] \in RunRecord
      BY <3>1 DEF RunRecord
    <3> QED
      BY <1>13, <3>1, <3>2, ReplaceType DEF CancelVictim, TypeOK
  <2> QED
    BY <1>13, <2>1 DEF CancelVictim, TypeOK, FiringIds, RunIds
<1>14. CASE BuildRun
  BY <1>14 DEF BuildRun, Leave, TypeOK, tables, FiringIds, RunIds
<1>15. CASE ClaimFiring
  <2>0. hand \in FiringIds
    BY <1>15 DEF ClaimFiring, HandInBatch, TypeOK
  <2>1. CASE firings[hand].status = "pending"
    <3>1. firings' \in Seq(FiringRecord) /\ DOMAIN firings' = DOMAIN firings
      BY <1>15, <2>1, SetFiringsType DEF ClaimFiring, TypeOK, Statuses
    <3>2. runs' \in Seq(RunRecord) /\ DOMAIN runs' = DOMAIN runs \cup {Len(runs) + 1}
      <4>1. Wf \in Workflows /\ hand \in Nat
        <5>1. firings[hand] \in FiringRecord
          BY <2>0 DEF TypeOK, FiringIds
        <5> QED
          BY <2>0, <5>1 DEF Wf, TypeOK, FiringRecord, FiringIds
      <4>2. [wf |-> Wf, firing |-> hand, byHand |-> FALSE, status |-> "running"] \in RunRecord
        BY <4>1 DEF RunRecord
      <4>3. runs' = Append(runs, [wf |-> Wf, firing |-> hand, byHand |-> FALSE,
                                  status |-> "running"])
        BY <1>15, <2>1 DEF ClaimFiring
      <4>4. runs \in Seq(RunRecord)
        BY DEF TypeOK
      <4> QED
        BY <4>2, <4>3, <4>4, AppendType
    <3> QED
      BY <1>15, <2>1, <3>1, <3>2 DEF ClaimFiring, Leave, TypeOK, FiringIds, RunIds
  <2>2. CASE firings[hand].status # "pending"
    BY <1>15, <2>2 DEF ClaimFiring, Leave, TypeOK, FiringIds, RunIds
  <2> QED
    BY <2>1, <2>2
<1>16. CASE EnqueueSeeded
  BY <1>16 DEF EnqueueSeeded, TypeOK, tables, FiringIds, RunIds
<1>17. ASSUME NEW r \in RunIds, NEW s \in {"completed", "failed"}, EndRun(r, s) PROVE TypeOK'
  <2>1. runs' \in Seq(RunRecord) /\ DOMAIN runs' = DOMAIN runs
    <3>1. r \in DOMAIN runs /\ runs[r] \in RunRecord
      BY DEF TypeOK, RunIds
    <3>2. [runs[r] EXCEPT !.status = s] \in RunRecord
      BY <3>1 DEF RunRecord
    <3> QED
      BY <1>17, <3>1, <3>2, ReplaceType DEF EndRun, TypeOK
  <2> QED
    BY <1>17, <2>1 DEF EndRun, TypeOK, drain, FiringIds, RunIds
<1>18. ASSUME NEW r \in RunIds, ReplayRun(r) PROVE TypeOK'
  <2>1. runs' \in Seq(RunRecord) /\ DOMAIN runs' = DOMAIN runs
    <3>1. r \in DOMAIN runs /\ runs[r] \in RunRecord
      BY DEF TypeOK, RunIds
    <3>2. [runs[r] EXCEPT !.status = "running", !.byHand = TRUE] \in RunRecord
      BY <3>1 DEF RunRecord
    <3>3. runs' = [runs EXCEPT ![r] = [runs[r] EXCEPT !.status = "running", !.byHand = TRUE]]
      BY <1>18, <3>1 DEF ReplayRun, TypeOK
    <3> QED
      BY <3>1, <3>2, <3>3, ReplaceType DEF TypeOK
  <2> QED
    BY <1>1, <1>18, <2>1 DEF ReplayRun, TypeOK, drain, FiringIds, RunIds, Events
<1>19. ASSUME NEW w \in Workflows, StartRun(w) PROVE TypeOK'
  <2>1. runs' \in Seq(RunRecord) /\ DOMAIN runs' = DOMAIN runs \cup {Len(runs) + 1}
    BY <1>19 DEF StartRun, TypeOK, RunRecord, NoFiring
  <2> QED
    BY <1>1, <1>19, <2>1 DEF StartRun, TypeOK, drain, FiringIds, RunIds, Events
<1>20. CASE \E w \in Workflows : DeleteWorkflow(w)
  BY <1>1, <1>20 DEF DeleteWorkflow, TypeOK, drain, Events, FiringIds, RunIds
<1>21. CASE \E w \in Workflows : \E E \in EntrySets : EditEntry(w, E)
  BY <1>1, <1>21, SMTT(30) DEF EditEntry, EntrySets, TypeOK, drain, Events, FiringIds, RunIds
<1>22. CASE CrashAndBoot
  BY <1>1, <1>22 DEF CrashAndBoot, TypeOK, tables, Events, FiringIds, RunIds
<1> QED
  BY <1>2, <1>3, <1>4, <1>5, <1>6, <1>7, <1>8, <1>9, <1>10, <1>11, <1>12, <1>13, <1>14,
     <1>15, <1>16, <1>17, <1>18, <1>19, <1>20, <1>21, <1>22 DEF Next, DrainStep

\* The firing in hand stays in the batch until it is left.
LEMMA NextHand == ASSUME HandInBatch, [Next]_vars PROVE HandInBatch'
<1> USE DEF HandInBatch
<1>1. CASE UNCHANGED vars
  BY <1>1 DEF vars, drain
<1>2. CASE ListPending \/ Skip \/ Defer \/ ClaimFiring \/ EnqueueSeeded
  BY <1>2 DEF ListPending, Skip, Defer, ClaimFiring, EnqueueSeeded, Leave
<1>3. CASE FindNewest \/ Supersede \/ ListVictims \/ BuildRun
  BY <1>3 DEF FindNewest, Supersede, ListVictims, BuildRun, ToBuild, Leave
<1>5. ASSUME NEW f \in batch, Shed(f) \/ CountRunning(f) PROVE HandInBatch'
  BY <1>5 DEF Shed, CountRunning, Leave
<1>6. ASSUME NEW r \in victims, CancelVictim(r) PROVE HandInBatch'
  BY <1>6 DEF CancelVictim
<1>7. ASSUME NEW t \in Triggers, NEW k \in Keys, Report(t, k) PROVE HandInBatch'
  BY <1>7 DEF Report, drain
<1>8. ASSUME NEW x \in reports, AppendFiring(x) PROVE HandInBatch'
  BY <1>8 DEF AppendFiring, drain
<1>9. ASSUME NEW r \in RunIds, ReplayRun(r) \/ \E s \in {"completed", "failed"} : EndRun(r, s)
      PROVE  HandInBatch'
  BY <1>9 DEF EndRun, ReplayRun, drain
<1>10. ASSUME NEW w \in Workflows,
              StartRun(w) \/ DeleteWorkflow(w) \/ \E E \in EntrySets : EditEntry(w, E)
       PROVE  HandInBatch'
  BY <1>10 DEF StartRun, DeleteWorkflow, EditEntry, drain
<1>4. CASE CrashAndBoot
  BY <1>4 DEF CrashAndBoot
<1> QED
  BY <1>1, <1>2, <1>3, <1>4, <1>5, <1>6, <1>7, <1>8, <1>9, <1>10 DEF Next, DrainStep

\* Type correctness, for every instance (TriggerInbox TypeOK).
THEOREM TypeCorrect == Spec => []TypeOK
<1>1. Init => TypeOK /\ HandInBatch
  BY InitType DEF Init, HandInBatch
<1>2. TypeOK /\ HandInBatch /\ [Next]_vars => TypeOK' /\ HandInBatch'
  BY NextType, NextHand
<1> QED
  BY <1>1, <1>2, PTL DEF Spec

-----------------------------------------------------------------------------
(***************************************************************************)
(* Exactly-once consumption.                                               *)
(***************************************************************************)
\* A run's firing exists.
FiringsOfRuns == \A r \in RunIds : runs[r].firing \in FiringIds \cup {NoFiring}

\* A listed firing may be superseded by a sibling; it is not started or skipped
\* before its turn.
BatchUnstarted == \A f \in batch : firings[f].status \in {"pending", "superseded"}

Consumption == FiringsOfRuns /\ BatchUnstarted /\ OneRunPerFiring

\* Runs keep their firing in every step that appends none.
LEMMA SameRuns ==
    ASSUME TypeOK, Consumption, DOMAIN runs' = DOMAIN runs,
           \A r \in DOMAIN runs : runs'[r].firing = runs[r].firing,
           DOMAIN firings \subseteq DOMAIN firings',
           \A f \in DOMAIN firings :
              firings'[f].status = "started" <=> firings[f].status = "started",
           \A f \in DOMAIN firings' \ DOMAIN firings :
              firings'[f].status # "started" /\ f # NoFiring
    PROVE  FiringsOfRuns' /\ OneRunPerFiring'
<1>1. FiringsOfRuns'
  BY DEF Consumption, FiringsOfRuns, RunIds, FiringIds
<1>2. \A f : RunsFor(f)' = RunsFor(f)
  BY DEF RunsFor, RunIds
<1>3. ASSUME NEW f \in DOMAIN firings' \ DOMAIN firings PROVE RunsFor(f) = {}
  BY <1>3 DEF Consumption, FiringsOfRuns, RunsFor, RunIds, FiringIds
<1> QED
  BY <1>1, <1>2, <1>3 DEF Consumption, OneRunPerFiring, RunIds, FiringIds

\* Consumption is inductive (report.go, run.go DrainFirings, firings.go).
LEMMA NextConsumption ==
    ASSUME TypeOK, HandInBatch, Consumption, [Next]_vars PROVE Consumption'
<1>0. firings \in Seq(FiringRecord) /\ runs \in Seq(RunRecord) /\ batch \subseteq FiringIds
  BY DEF TypeOK
<1>1. CASE UNCHANGED <<firings, runs>> /\ batch' \subseteq batch
  <2>1. BatchUnstarted'
    BY <1>1 DEF Consumption, BatchUnstarted
  <2> QED
    BY <1>0, <1>1, <2>1, SameRuns DEF Consumption
<1>2. CASE ListPending
  <2>1. BatchUnstarted'
    BY <1>2 DEF ListPending, BatchUnstarted, Oldest, Pending, tables
  <2> QED
    BY <1>0, <1>2, <2>1, SameRuns DEF Consumption, ListPending, tables
<1>3. ASSUME NEW S, NEW s \in Statuses \ {"started", "pending"}, SetFirings(S, s),
             runs' = runs,
             \A f \in S : f \in FiringIds => firings[f].status # "started",
             \/ batch' \subseteq batch \ S
             \/ s = "superseded" /\ batch' = batch
      PROVE  Consumption'
  <2>1. /\ DOMAIN firings' = DOMAIN firings
        /\ \A f \in DOMAIN firings :
              firings'[f] = IF f \in S THEN [firings[f] EXCEPT !.status = s] ELSE firings[f]
    BY <1>0, <1>3, SetFiringsType
  <2>2. \A f \in DOMAIN firings : firings[f] \in FiringRecord
    BY <1>0
  <2>3. \A f \in DOMAIN firings :
           firings'[f].status = IF f \in S THEN s ELSE firings[f].status
    BY <2>1, <2>2 DEF FiringRecord
  <2>4. BatchUnstarted'
    BY <1>0, <1>3, <2>3 DEF Consumption, BatchUnstarted, FiringIds
  <2>5. \A f \in DOMAIN firings :
           firings'[f].status = "started" <=> firings[f].status = "started"
    BY <1>3, <2>3 DEF FiringIds
  <2> QED
    BY <1>3, <2>1, <2>4, <2>5, SameRuns DEF Consumption
<1>4. ASSUME NEW x \in reports, AppendFiring(x) PROVE Consumption'
  <2>1. CASE firings' = firings
    BY <1>1, <1>4, <2>1 DEF AppendFiring, drain
  <2>2. CASE firings' # firings
    <3> DEFINE new == [wf |-> x.wf, trigger |-> x.trigger, key |-> x.key, status |-> "pending"]
    <3>1. firings' = Append(firings, new)
      BY <1>4, <2>2 DEF AppendFiring
    <3>2. new \in FiringRecord
      BY DEF TypeOK, FiringRecord, Statuses
    <3>3. /\ DOMAIN firings' = DOMAIN firings \cup {Len(firings) + 1}
          /\ \A f \in DOMAIN firings : firings'[f] = firings[f]
          /\ firings'[Len(firings) + 1] = new
          /\ Len(firings) + 1 # 0
      BY <1>0, <3>1, <3>2, AppendType
    <3>4. BatchUnstarted'
      BY <1>0, <1>4, <3>3 DEF AppendFiring, drain, Consumption, BatchUnstarted, FiringIds
    <3>5. runs' = runs
      BY <1>4 DEF AppendFiring
    <3> QED
      BY <3>3, <3>4, <3>5, SameRuns DEF Consumption, NoFiring
  <2> QED
    BY <2>1, <2>2
<1>5. ASSUME NEW f \in batch, Shed(f) PROVE Consumption'
  <2>1. \A g \in {f} : g \in FiringIds => firings[g].status # "started"
    BY DEF Consumption, BatchUnstarted
  <2> QED
    BY <1>3, <1>5, <2>1 DEF Shed, Leave, Statuses
<1>6. CASE Skip
  <2>1. hand \in batch
    BY <1>6 DEF Skip, HandInBatch
  <2>2. \A g \in {hand} : g \in FiringIds => firings[g].status # "started"
    BY <2>1 DEF Consumption, BatchUnstarted
  <2> QED
    BY <1>3, <1>6, <2>2 DEF Skip, Leave, Statuses
<1>7. CASE Supersede
  <2>1. \A g \in PendingOf(Wf) \ {newest} : g \in FiringIds => firings[g].status # "started"
    BY DEF PendingOf, Pending
  <2> QED
    BY <1>3, <1>7, <2>1 DEF Supersede, Statuses
<1>8. ASSUME DOMAIN runs' = DOMAIN runs,
             \A r \in DOMAIN runs : runs'[r].firing = runs[r].firing,
             firings' = firings, batch' = batch
      PROVE  Consumption'
  BY <1>8, SameRuns DEF Consumption, BatchUnstarted
<1>9. ASSUME NEW r \in victims, CancelVictim(r) PROVE Consumption'
  <2>1. r \in DOMAIN runs /\ runs[r] \in RunRecord
    BY <1>0 DEF TypeOK, RunIds
  <2> QED
    BY <1>0, <1>8, <1>9, <2>1 DEF CancelVictim, RunRecord
<1>10. ASSUME NEW r \in RunIds, NEW s \in {"completed", "failed"}, EndRun(r, s)
       PROVE  Consumption'
  <2>1. r \in DOMAIN runs /\ runs[r] \in RunRecord
    BY <1>0 DEF TypeOK, RunIds
  <2> QED
    BY <1>0, <1>8, <1>10, <2>1 DEF EndRun, drain, RunRecord
<1>11. ASSUME NEW r \in RunIds, ReplayRun(r) PROVE Consumption'
  <2>1. r \in DOMAIN runs /\ runs[r] \in RunRecord
    BY <1>0 DEF TypeOK, RunIds
  <2> QED
    BY <1>0, <1>8, <1>11, <2>1 DEF ReplayRun, drain, RunRecord
<1>12. ASSUME NEW rec \in RunRecord, runs' = Append(runs, rec), rec.firing = NoFiring,
              firings' = firings, batch' = batch
       PROVE  Consumption'
  <2>1. /\ DOMAIN runs' = DOMAIN runs \cup {Len(runs) + 1}
        /\ \A r \in DOMAIN runs : runs'[r] = runs[r]
        /\ runs'[Len(runs) + 1] = rec
    BY <1>0, <1>12, AppendType
  <2>2. \A f \in FiringIds : RunsFor(f)' = RunsFor(f)
    BY <1>0, <1>12, <2>1 DEF RunsFor, RunIds, FiringIds, NoFiring
  <2> QED
    BY <1>12, <2>1, <2>2
    DEF Consumption, FiringsOfRuns, BatchUnstarted, OneRunPerFiring, RunIds, FiringIds
<1>13. ASSUME NEW w \in Workflows, StartRun(w) PROVE Consumption'
  <2>1. [wf |-> w, firing |-> NoFiring, byHand |-> TRUE, status |-> "running"] \in RunRecord
    BY DEF RunRecord, NoFiring
  <2> QED
    BY <1>12, <1>13, <2>1 DEF StartRun, drain
<1>14. CASE ClaimFiring
  <2>0. hand \in batch /\ hand \in DOMAIN firings /\ firings[hand] \in FiringRecord
    BY <1>0, <1>14 DEF ClaimFiring, HandInBatch, FiringIds
  <2>1. CASE firings[hand].status # "pending"
    BY <1>1, <1>14, <2>1 DEF ClaimFiring, Leave
  <2>2. CASE firings[hand].status = "pending"
    <3> DEFINE rec == [wf |-> Wf, firing |-> hand, byHand |-> FALSE, status |-> "running"]
    <3>0. hand \in Nat \ {0} /\ Wf \in Workflows
      BY <1>0, <2>0 DEF FiringRecord, Wf
    <3>1. rec \in RunRecord
      BY <3>0 DEF RunRecord
    <3>2. /\ DOMAIN runs' = DOMAIN runs \cup {Len(runs) + 1}
          /\ \A r \in DOMAIN runs : runs'[r] = runs[r]
          /\ runs'[Len(runs) + 1] = rec
          /\ Len(runs) + 1 \notin DOMAIN runs
      BY <1>0, <1>14, <2>2, <3>1, AppendType DEF ClaimFiring
    <3>3. /\ DOMAIN firings' = DOMAIN firings
          /\ \A f \in DOMAIN firings :
                firings'[f] = IF f \in {hand} THEN [firings[f] EXCEPT !.status = "started"]
                                              ELSE firings[f]
      BY <1>0, <1>14, <2>2, SetFiringsType DEF ClaimFiring, Statuses
    <3>4. /\ firings'[hand].status = "started"
          /\ \A f \in DOMAIN firings \ {hand} : firings'[f] = firings[f]
      BY <2>0, <3>3 DEF FiringRecord
    <3>10. PICK h \in DOMAIN firings : h = hand
      BY <2>0
    <3>5. RunsFor(h)' = {Len(runs) + 1}
      <4>1. RunsFor(h) = {}
        BY <2>0, <2>2, <3>10 DEF Consumption, OneRunPerFiring, FiringIds
      <4> QED
        BY <3>2, <3>10, <4>1 DEF RunsFor, RunIds
    <3>6. \A f \in DOMAIN firings \ {hand} : RunsFor(f)' = RunsFor(f)
      BY <2>0, <3>2 DEF RunsFor, RunIds
    <3>7. OneRunPerFiring'
      <4>1. IF firings'[h].status = "started" THEN \E r \in RunIds' : RunsFor(h)' = {r}
                                              ELSE RunsFor(h)' = {}
        BY <3>2, <3>4, <3>5, <3>10 DEF RunIds
      <4>2. ASSUME NEW f \in DOMAIN firings \ {hand}
            PROVE  IF firings'[f].status = "started" THEN \E r \in RunIds' : RunsFor(f)' = {r}
                                                     ELSE RunsFor(f)' = {}
        <5>1. IF firings[f].status = "started" THEN \E r \in RunIds : RunsFor(f) = {r}
                                               ELSE RunsFor(f) = {}
          BY DEF Consumption, OneRunPerFiring, FiringIds
        <5>2. RunIds \subseteq RunIds'
          BY <3>2 DEF RunIds
        <5> QED
          BY <3>4, <3>6, <5>1, <5>2
      <4> QED
        BY <3>3, <3>10, <4>1, <4>2 DEF OneRunPerFiring, FiringIds
    <3>8. FiringsOfRuns'
      BY <2>0, <3>2, <3>3 DEF Consumption, FiringsOfRuns, RunIds, FiringIds
    <3>9. BatchUnstarted'
      BY <1>0, <1>14, <3>4 DEF Consumption, BatchUnstarted, ClaimFiring, Leave, FiringIds
    <3> QED
      BY <3>7, <3>8, <3>9 DEF Consumption
  <2> QED
    BY <2>1, <2>2
<1>15. CASE Defer \/ FindNewest \/ ListVictims \/ BuildRun \/ EnqueueSeeded \/ CrashAndBoot
  BY <1>1, <1>15 DEF Defer, FindNewest, ListVictims, BuildRun, EnqueueSeeded, CrashAndBoot,
                     Leave, tables
<1>16. ASSUME NEW f \in batch, CountRunning(f) PROVE Consumption'
  BY <1>1, <1>16 DEF CountRunning, tables
<1>17. ASSUME NEW t \in Triggers, NEW k \in Keys, Report(t, k) PROVE Consumption'
  BY <1>1, <1>17 DEF Report, tables, drain
<1>18. ASSUME NEW w \in Workflows, DeleteWorkflow(w) \/ \E E \in EntrySets : EditEntry(w, E)
       PROVE  Consumption'
  BY <1>1, <1>18 DEF DeleteWorkflow, EditEntry, drain
<1>19. CASE UNCHANGED vars
  BY <1>1, <1>19 DEF vars, tables, drain
<1> QED
  BY <1>2, <1>4, <1>5, <1>6, <1>7, <1>9, <1>10, <1>11, <1>13, <1>14, <1>15, <1>16, <1>17,
     <1>18, <1>19 DEF Next, DrainStep

\* Every started firing has exactly one run and no other firing has any
\* (TriggerInbox OneRunPerFiring).
THEOREM ExactlyOnce == Spec => []OneRunPerFiring
<1>1. ASSUME Init PROVE TypeOK /\ HandInBatch /\ Consumption
  <2>1. DOMAIN firings = {} /\ DOMAIN runs = {} /\ batch = {} /\ step = "idle"
    BY <1>1 DEF Init
  <2> QED
    BY <1>1, <2>1, InitType DEF HandInBatch, Consumption, FiringsOfRuns, BatchUnstarted,
                                OneRunPerFiring, RunIds, FiringIds
<1>2. TypeOK /\ HandInBatch /\ Consumption /\ [Next]_vars
      => TypeOK' /\ HandInBatch' /\ Consumption'
  BY NextType, NextHand, NextConsumption
<1>3. Consumption => OneRunPerFiring
  BY DEF Consumption
<1> QED
  BY <1>1, <1>2, <1>3, PTL DEF Spec

-----------------------------------------------------------------------------
(***************************************************************************)
(* Overlap policies: what the decision of a firing knows at each step.     *)
(***************************************************************************)
Deciding == {"policy", "supersede", "survivor"}
Overlap ==
    /\ OneAtATime
    /\ step \in Deciding /\ ~running => AutoRunning(Wf) = {}
    /\ step = "cancel" => policy[Wf] = "replace" /\ AutoRunning(Wf) \subseteq victims
    /\ step = "claim" /\ policy[Wf] # "allow_all" => AutoRunning(Wf) = {}

\* Rows keep their workflow when statuses change or rows are added.
LEMMA SameWf ==
    ASSUME TypeOK, HandInBatch, [Next]_vars, step \notin {"idle", "decide"}, hand' = hand
    PROVE  Wf' = Wf
<1>0. /\ firings \in Seq(FiringRecord) /\ hand \in DOMAIN firings
      /\ firings[hand] \in FiringRecord
  BY DEF TypeOK, HandInBatch, FiringIds
<1>1. ASSUME NEW S, NEW s \in Statuses, SetFirings(S, s) PROVE firings'[hand].wf = firings[hand].wf
  BY <1>0, <1>1, SetFiringsType, ZenonT(60) DEF FiringRecord
<1>2. ASSUME NEW x \in reports, AppendFiring(x) PROVE firings'[hand].wf = firings[hand].wf
  <2>1. [wf |-> x.wf, trigger |-> x.trigger, key |-> x.key, status |-> "pending"]
          \in FiringRecord
    BY DEF TypeOK, FiringRecord, Statuses
  <2> QED
    BY <1>0, <1>2, <2>1, AppendType DEF AppendFiring
<1>3. CASE UNCHANGED firings
  BY <1>3 DEF Wf
<1>4. CASE \E S : \E s \in Statuses : SetFirings(S, s)
  BY <1>1, <1>4 DEF Wf
<1>5. CASE \E x \in reports : AppendFiring(x)
  BY <1>2, <1>5 DEF Wf
<1>6. UNCHANGED firings \/ (\E S : \E s \in Statuses : SetFirings(S, s))
      \/ \E x \in reports : AppendFiring(x)
  <2>1. ASSUME DrainStep PROVE UNCHANGED firings \/ \E S : \E s \in Statuses : SetFirings(S, s)
    <3>1. CASE \E f \in batch : Shed(f)
      BY <3>1 DEF Shed, Statuses
    <3>2. CASE Skip
      BY <3>2 DEF Skip, Statuses
    <3>3. CASE Supersede
      BY <3>3 DEF Supersede, Statuses
    <3>4. CASE ClaimFiring
      BY <3>4 DEF ClaimFiring, Statuses
    <3>5. CASE ~Skip /\ ~Supersede /\ ~ClaimFiring /\ ~\E f \in batch : Shed(f)
      BY <2>1, <3>5 DEF DrainStep, ListPending, CountRunning, Defer, FindNewest, ListVictims,
                        CancelVictim, BuildRun, EnqueueSeeded, tables
    <3> QED
      BY <3>1, <3>2, <3>3, <3>4, <3>5
  <2>2. ASSUME ~DrainStep, ~\E x \in reports : AppendFiring(x) PROVE UNCHANGED firings
    BY <2>2 DEF Next, Report, EndRun, ReplayRun, StartRun, DeleteWorkflow, EditEntry,
                CrashAndBoot, vars, tables
  <2> QED
    BY <2>1, <2>2
<1> QED
  BY <1>3, <1>4, <1>5, <1>6

\* Only a claim adds a run that no one asked for by hand.
LEMMA AutoShrinks ==
    ASSUME TypeOK, [Next]_vars, ~ClaimFiring, NEW w
    PROVE  AutoRunning(w)' \subseteq AutoRunning(w)
<1>0. runs \in Seq(RunRecord) /\ \A r \in DOMAIN runs : runs[r] \in RunRecord
  BY DEF TypeOK
<1> USE DEF AutoRunning, RunningOf, RunIds
<1>1. CASE UNCHANGED runs
  BY <1>1
<1>2. ASSUME NEW r \in victims, CancelVictim(r) PROVE AutoRunning(w)' \subseteq AutoRunning(w)
  <2>1. r \in DOMAIN runs
    BY DEF TypeOK
  <2> QED
    BY <1>0, <1>2, <2>1 DEF CancelVictim, RunRecord
<1>3. ASSUME NEW r \in RunIds, NEW s \in {"completed", "failed"}, EndRun(r, s)
      PROVE  AutoRunning(w)' \subseteq AutoRunning(w)
  BY <1>0, <1>3 DEF EndRun, RunRecord
<1>4. ASSUME NEW r \in RunIds, ReplayRun(r) PROVE AutoRunning(w)' \subseteq AutoRunning(w)
  BY <1>0, <1>4 DEF ReplayRun, RunRecord
<1>5. ASSUME NEW u \in Workflows, StartRun(u) PROVE AutoRunning(w)' \subseteq AutoRunning(w)
  <2>1. [wf |-> u, firing |-> NoFiring, byHand |-> TRUE, status |-> "running"] \in RunRecord
    BY DEF RunRecord, NoFiring
  <2> QED
    BY <1>0, <1>5, <2>1, AppendType DEF StartRun
<1>6. ASSUME DrainStep, ~\E r \in victims : CancelVictim(r) PROVE UNCHANGED runs
  BY <1>6 DEF DrainStep, ListPending, Shed, CountRunning, Skip, Defer, FindNewest, Supersede,
              ListVictims, BuildRun, EnqueueSeeded, tables
<1> QED
  BY <1>1, <1>2, <1>3, <1>4, <1>5, <1>6 DEF Next, Report, AppendFiring, DeleteWorkflow, EditEntry,
     CrashAndBoot, vars, tables

\* Overlap is inductive (run.go overlapDecision, kill.go cancelRunningForReplace).
LEMMA NextOverlap ==
    ASSUME TypeOK, HandInBatch, Overlap, [Next]_vars PROVE Overlap'
<1>0. policy' = policy /\ runs \in Seq(RunRecord)
  BY DEF TypeOK, Next, DrainStep, Report, AppendFiring, ListPending, Shed, CountRunning, Skip, Defer,
         FindNewest, Supersede, ListVictims, CancelVictim, BuildRun, ClaimFiring, EnqueueSeeded,
         EndRun, ReplayRun, StartRun, DeleteWorkflow, EditEntry, CrashAndBoot, vars, tables
<1>1. ASSUME ~ClaimFiring PROVE OneAtATime'
  BY <1>0, <1>1, AutoShrinks DEF Overlap, OneAtATime
<1>2. CASE ~ClaimFiring /\ step' \in {"idle", "decide"}
  BY <1>1, <1>2 DEF Overlap, Deciding
<1>3. CASE ClaimFiring
  <2>1. step' = "decide"
    BY <1>3 DEF ClaimFiring, Leave
  <2>2. CASE UNCHANGED runs
    BY <1>0, <2>1, <2>2 DEF Overlap, OneAtATime, AutoRunning, RunningOf, RunIds, Deciding
  <2>3. CASE firings[hand].status = "pending"
    <3>0. /\ hand \in DOMAIN firings /\ firings \in Seq(FiringRecord)
      BY <1>3 DEF ClaimFiring, HandInBatch, TypeOK, FiringIds
    <3>a. firings[hand] \in FiringRecord /\ hand \in Nat
      BY <3>0
    <3>1. hand \in Nat /\ Wf \in Workflows
      BY <3>a DEF FiringRecord, Wf
    <3> DEFINE rec == [wf |-> Wf, firing |-> hand, byHand |-> FALSE, status |-> "running"]
    <3>2. rec \in RunRecord
      BY <3>1 DEF RunRecord
    <3>3. /\ DOMAIN runs' = DOMAIN runs \cup {Len(runs) + 1}
          /\ \A r \in DOMAIN runs : runs'[r] = runs[r]
          /\ runs'[Len(runs) + 1] = rec
      BY <1>0, <1>3, <2>3, <3>2, AppendType DEF ClaimFiring
    <3>4. PICK v \in Workflows : v = Wf
      BY <3>1
    <3>5. \A w \in Workflows \ {v} : AutoRunning(w)' \subseteq AutoRunning(w)
      BY <3>3, <3>4 DEF AutoRunning, RunningOf, RunIds
    <3>6. policy[v] # "allow_all" => AutoRunning(v)' \subseteq {Len(runs) + 1}
      <4>1. policy[v] # "allow_all" => AutoRunning(v) = {}
        BY <1>3, <3>4 DEF ClaimFiring, Overlap
      <4> QED
        BY <3>3, <4>1 DEF AutoRunning, RunningOf, RunIds
    <3> QED
      BY <1>0, <2>1, <3>5, <3>6 DEF Overlap, OneAtATime, Deciding
  <2> QED
    BY <1>3, <2>2, <2>3 DEF ClaimFiring
<1>4. ASSUME UNCHANGED <<step, hand, running>>, victims' = victims, ~ClaimFiring PROVE Overlap'
  <2>1. CASE step \in {"idle", "decide"}
    BY <1>2, <1>4, <2>1
  <2>2. CASE step \notin {"idle", "decide"}
    <3>1. Wf' = Wf
      BY <1>4, <2>2, SameWf
    <3>2. PICK v : v = Wf
      OBVIOUS
    <3>3. AutoRunning(v)' \subseteq AutoRunning(v)
      BY <1>4, AutoShrinks
    <3>4. AutoRunning(Wf)' = AutoRunning(v)'
      BY <3>1, <3>2 DEF AutoRunning, RunningOf, RunIds
    <3> QED
      BY <1>0, <1>1, <1>4, <3>1, <3>2, <3>3, <3>4 DEF Overlap
  <2> QED
    BY <2>1, <2>2
<1>5. ASSUME NEW f \in batch, CountRunning(f) PROVE Overlap'
  <2>2. ~running' => AutoRunning(firings[f].wf) = {}
    BY <1>5 DEF CountRunning, AutoRunning
  <2>3. AutoRunning(Wf)' = AutoRunning(firings[f].wf)
    BY <1>5 DEF CountRunning, AutoRunning, RunningOf, RunIds, Wf, tables
  <2>4. OneAtATime'
    BY <1>1, <1>5 DEF CountRunning, ClaimFiring
  <2> QED
    BY <1>5, <2>2, <2>3, <2>4 DEF Overlap, CountRunning
<1>6. CASE FindNewest
  <2>1. step' \in Deciding /\ step \in Deciding /\ AutoRunning(Wf)' = AutoRunning(Wf)
    BY <1>6 DEF FindNewest, Deciding, AutoRunning, RunningOf, RunIds, Wf, tables
  <2>2. OneAtATime'
    BY <1>1, <1>6 DEF FindNewest, ClaimFiring
  <2> QED
    BY <1>6, <2>1, <2>2 DEF Overlap, FindNewest, Deciding
<1>7. CASE Supersede
  <2>1. step' = "survivor" /\ step \in Deciding /\ ~ClaimFiring /\ UNCHANGED <<hand, running, runs>>
    BY <1>7 DEF Supersede, Deciding, ClaimFiring
  <2>2. Wf' = Wf
    BY <1>7, <2>1, SameWf DEF Supersede
  <2>3. AutoRunning(Wf)' = AutoRunning(Wf)
    BY <2>1, <2>2 DEF AutoRunning, RunningOf, RunIds
  <2> QED
    BY <1>1, <2>1, <2>3 DEF Overlap
<1>8. CASE ListVictims
  <2>1. /\ step' = "cancel" /\ policy[Wf] = "replace" /\ victims' = RunningOf(Wf)
        /\ AutoRunning(Wf)' = AutoRunning(Wf) /\ Wf' = Wf /\ ~ClaimFiring
    BY <1>8 DEF ListVictims, AutoRunning, RunningOf, RunIds, Wf, tables, ClaimFiring
  <2>2. AutoRunning(Wf) \subseteq RunningOf(Wf)
    BY DEF AutoRunning
  <2> QED
    BY <1>0, <1>1, <2>1, <2>2 DEF Overlap, Deciding
<1>9. ASSUME NEW r \in victims, CancelVictim(r) PROVE Overlap'
  <2>1. /\ step = "cancel" /\ step' = "cancel" /\ Wf' = Wf /\ ~ClaimFiring
        /\ victims' = victims \ {r} /\ r \in DOMAIN runs
    BY <1>9 DEF CancelVictim, Wf, ClaimFiring, TypeOK, RunIds
  <2>2. r \notin AutoRunning(Wf)'
    <3>1. runs'[r].status # "running"
      <4>1. runs[r] \in RunRecord
        BY <1>0, <2>1
      <4> QED
        BY <1>0, <1>9, <2>1, <4>1 DEF CancelVictim, RunRecord
    <3> QED
      BY <3>1 DEF AutoRunning, RunningOf
  <2>3. PICK v : v = Wf
    OBVIOUS
  <2>4. AutoRunning(v)' \subseteq AutoRunning(v)
    BY <2>1, AutoShrinks
  <2>5. AutoRunning(Wf)' = AutoRunning(v)'
    BY <2>1, <2>3 DEF AutoRunning, RunningOf, RunIds
  <2> QED
    BY <1>0, <1>1, <2>1, <2>2, <2>3, <2>4, <2>5 DEF Overlap, Deciding
<1>10. CASE BuildRun
  <2>1. CASE ~Buildable
    BY <1>2, <1>10, <2>1 DEF BuildRun, Leave, ToBuild, ClaimFiring
  <2>2. CASE Buildable
    <3>1. /\ step' = "claim" /\ ~ClaimFiring /\ Wf' = Wf
          /\ AutoRunning(Wf)' = AutoRunning(Wf) /\ ToBuild
      BY <1>10, <2>2 DEF BuildRun, ToBuild, ClaimFiring, AutoRunning, RunningOf, RunIds, Wf,
                         tables
    <3>2. policy[Wf] # "allow_all" => AutoRunning(Wf) = {}
      BY <3>1 DEF ToBuild, Overlap, Deciding
    <3> QED
      BY <1>0, <1>1, <3>1, <3>2 DEF Overlap, Deciding
  <2> QED
    BY <2>1, <2>2
<1>11. CASE DrainStep
  <2>1. ASSUME ListPending \/ Skip \/ Defer \/ EnqueueSeeded PROVE Overlap'
    BY <1>2, <2>1 DEF ListPending, Skip, Defer, EnqueueSeeded, ClaimFiring, Leave
  <2>2. ASSUME NEW f \in batch, Shed(f) PROVE Overlap'
    BY <1>2, <2>2 DEF Shed, ClaimFiring, Leave
  <2> QED
    BY <1>3, <1>5, <1>6, <1>7, <1>8, <1>9, <1>10, <1>11, <2>1, <2>2 DEF DrainStep
<1>12. ASSUME NEW x \in reports, AppendFiring(x) PROVE Overlap'
  <2>1. UNCHANGED <<step, hand, running, victims, runs>>
    BY <1>12 DEF AppendFiring, drain
  <2>2. CASE ClaimFiring
    BY <1>3, <2>2
  <2> QED
    BY <1>4, <2>1, <2>2
<1>13. CASE CrashAndBoot
  BY <1>2, <1>3, <1>13 DEF CrashAndBoot
<1>14. ASSUME UNCHANGED <<step, hand, running, victims>> PROVE Overlap'
  BY <1>3, <1>4, <1>14
<1>15. CASE ~DrainStep /\ ~CrashAndBoot /\ ~\E x \in reports : AppendFiring(x)
  BY <1>14, <1>15 DEF Next, Report, EndRun, ReplayRun, StartRun, DeleteWorkflow, EditEntry,
                      vars, drain
<1> QED
  BY <1>11, <1>12, <1>13, <1>15

\* Only allow_all lets two runs started by firings of one workflow run together
\* (TriggerInbox OneAtATime).
THEOREM NoOverlap == Spec => []OneAtATime
<1>1. ASSUME Init PROVE TypeOK /\ HandInBatch /\ Overlap
  <2>1. DOMAIN runs = {} /\ step = "idle"
    BY <1>1 DEF Init
  <2> QED
    BY <1>1, <2>1, InitType DEF HandInBatch, Overlap, OneAtATime, AutoRunning, RunningOf, RunIds,
                                Deciding
<1>2. TypeOK /\ HandInBatch /\ Overlap /\ [Next]_vars
      => TypeOK' /\ HandInBatch' /\ Overlap'
  BY NextType, NextHand, NextOverlap
<1>3. Overlap => OneAtATime
  BY DEF Overlap
<1> QED
  BY <1>1, <1>2, <1>3, PTL DEF Spec

-----------------------------------------------------------------------------
(***************************************************************************)
(* The hand-over to the pool, and the finality of dispositions.            *)
(***************************************************************************)
\* A claimed run is in the drain's list until it is in the pool.
LEMMA NextPooled == ASSUME TypeOK, RunningIsPooled, [Next]_vars PROVE RunningIsPooled'
<1>0. runs \in Seq(RunRecord) /\ \A r \in DOMAIN runs : runs[r] \in RunRecord
  BY DEF TypeOK
<1> USE DEF RunningIsPooled, RunIds
<1>1. CASE UNCHANGED <<runs, seeded, pooled>>
  BY <1>1
<1>2. ASSUME NEW r \in victims, CancelVictim(r) PROVE RunningIsPooled'
  <2>1. r \in DOMAIN runs
    BY DEF TypeOK
  <2> QED
    BY <1>0, <1>2, <2>1 DEF CancelVictim, RunRecord
<1>3. ASSUME NEW r \in RunIds, NEW s \in {"completed", "failed"}, EndRun(r, s)
      PROVE  RunningIsPooled'
  BY <1>0, <1>3 DEF EndRun, RunRecord, drain
<1>4. ASSUME NEW r \in RunIds, ReplayRun(r) PROVE RunningIsPooled'
  BY <1>0, <1>4 DEF ReplayRun, RunRecord, drain
<1>5. ASSUME NEW rec, runs' = Append(runs, rec), seeded' \cup pooled' = seeded \cup pooled \cup {Len(runs) + 1}
      PROVE RunningIsPooled'
  BY <1>0, <1>5
<1>6. ASSUME NEW w \in Workflows, StartRun(w) PROVE RunningIsPooled'
  BY <1>5, <1>6 DEF StartRun, drain
<1>7. CASE ClaimFiring
  BY <1>1, <1>5, <1>7 DEF ClaimFiring
<1>8. CASE EnqueueSeeded \/ CrashAndBoot
  BY <1>8 DEF EnqueueSeeded, CrashAndBoot, tables
<1>9. CASE ListPending \/ Skip \/ Defer \/ FindNewest \/ Supersede \/ ListVictims \/ BuildRun
  BY <1>1, <1>9 DEF ListPending, Skip, Defer, FindNewest, Supersede, ListVictims, BuildRun, tables
<1>10. ASSUME NEW f \in batch, Shed(f) \/ CountRunning(f) PROVE RunningIsPooled'
  BY <1>1, <1>10 DEF Shed, CountRunning, tables
<1>11. CASE ~DrainStep /\ ~CrashAndBoot
  <2>1. ASSUME NEW w \in Workflows, DeleteWorkflow(w) \/ \E E \in EntrySets : EditEntry(w, E)
        PROVE  RunningIsPooled'
    BY <1>1, <2>1 DEF DeleteWorkflow, EditEntry, drain
  <2>2. ASSUME NEW t \in Triggers, NEW k \in Keys, Report(t, k) PROVE RunningIsPooled'
    BY <1>1, <2>2 DEF Report, tables, drain
  <2>3. ASSUME NEW x \in reports, AppendFiring(x) PROVE RunningIsPooled'
    BY <1>1, <2>3 DEF AppendFiring, drain
  <2>4. CASE UNCHANGED vars
    BY <1>1, <2>4 DEF vars, tables, drain
  <2> QED
    BY <1>3, <1>4, <1>6, <1>11, <2>1, <2>2, <2>3, <2>4 DEF Next
<1> QED
  BY <1>2, <1>7, <1>8, <1>9, <1>10, <1>11 DEF DrainStep

\* A running run is in the pool or about to be, whatever crashes
\* (TriggerInbox RunningIsPooled).
THEOREM NothingForgotten == Spec => []RunningIsPooled
<1>1. ASSUME Init PROVE TypeOK /\ HandInBatch /\ RunningIsPooled
  <2>1. DOMAIN runs = {} /\ step = "idle"
    BY <1>1 DEF Init
  <2> QED
    BY <1>1, <2>1, InitType DEF HandInBatch, RunningIsPooled, RunIds
<1>2. TypeOK /\ HandInBatch /\ RunningIsPooled /\ [Next]_vars
      => TypeOK' /\ HandInBatch' /\ RunningIsPooled'
  BY NextType, NextHand, NextPooled
<1> QED
  BY <1>1, <1>2, PTL DEF Spec

\* Only a pending firing starts, and a disposed one stays disposed.
Disposition ==
    \A f \in FiringIds :
        firings[f].status # "pending" =>
            /\ firings'[f].status # "pending"
            /\ firings'[f].status = "started" <=> firings[f].status = "started"

LEMMA NextDisposition ==
    ASSUME TypeOK, HandInBatch, BatchUnstarted, [Next]_vars PROVE Disposition
<1>0. firings \in Seq(FiringRecord) /\ \A f \in DOMAIN firings : firings[f] \in FiringRecord
  BY DEF TypeOK
<1>1. CASE UNCHANGED firings
  BY <1>1 DEF Disposition
<1>2. ASSUME NEW S, NEW s \in Statuses \ {"pending"}, SetFirings(S, s),
             \A f \in S \cap FiringIds :
                \/ firings[f].status = "pending"
                \/ s # "started" /\ firings[f].status # "started"
      PROVE  Disposition
  <2>1. \A f \in DOMAIN firings :
           firings'[f].status = IF f \in S THEN s ELSE firings[f].status
    <3>1. \A f \in DOMAIN firings :
             firings'[f] = IF f \in S THEN [firings[f] EXCEPT !.status = s] ELSE firings[f]
      BY <1>0, <1>2, SetFiringsType
    <3> QED
      BY <1>0, <3>1 DEF FiringRecord
  <2> QED
    BY <1>2, <2>1 DEF Disposition, FiringIds
<1>3. ASSUME NEW x \in reports, AppendFiring(x) PROVE Disposition
  <2>1. [wf |-> x.wf, trigger |-> x.trigger, key |-> x.key, status |-> "pending"]
          \in FiringRecord
    BY DEF TypeOK, FiringRecord, Statuses
  <2> QED
    BY <1>0, <1>1, <1>3, <2>1, AppendType DEF AppendFiring, Disposition, FiringIds
<1>4. ASSUME NEW f \in batch, Shed(f) PROVE Disposition
  BY <1>2, <1>4 DEF Shed, Statuses, BatchUnstarted
<1>5. CASE Skip
  BY <1>2, <1>5 DEF Skip, Statuses, BatchUnstarted, HandInBatch
<1>6. CASE Supersede
  BY <1>2, <1>6 DEF Supersede, Statuses, PendingOf, Pending
<1>7. CASE ClaimFiring
  BY <1>1, <1>2, <1>7 DEF ClaimFiring, Statuses
<1>8. CASE ~Skip /\ ~Supersede /\ ~ClaimFiring /\ ~(\E f \in batch : Shed(f))
           /\ ~\E x \in reports : AppendFiring(x)
  BY <1>1, <1>8 DEF Next, DrainStep, ListPending, CountRunning, Defer, FindNewest, ListVictims,
     CancelVictim, BuildRun, EnqueueSeeded, Report, EndRun, ReplayRun, StartRun, DeleteWorkflow,
     EditEntry, CrashAndBoot, vars, tables
<1> QED
  BY <1>3, <1>4, <1>5, <1>6, <1>7, <1>8

\* No disposition is taken back (TriggerInbox DisposedNeverRuns).
THEOREM DispositionIsFinal == Spec => DisposedNeverRuns
<1>1. ASSUME Init PROVE TypeOK /\ HandInBatch /\ Consumption
  <2>1. DOMAIN firings = {} /\ DOMAIN runs = {} /\ batch = {} /\ step = "idle"
    BY <1>1 DEF Init
  <2> QED
    BY <1>1, <2>1, InitType DEF HandInBatch, Consumption, FiringsOfRuns, BatchUnstarted,
                                OneRunPerFiring, RunIds, FiringIds
<1>2. TypeOK /\ HandInBatch /\ Consumption /\ [Next]_vars
      => TypeOK' /\ HandInBatch' /\ Consumption' /\ [Disposition]_vars
  BY NextType, NextHand, NextConsumption, NextDisposition DEF Consumption
<1> QED
  BY <1>1, <1>2, PTL DEF Spec, DisposedNeverRuns, Disposition
=============================================================================
