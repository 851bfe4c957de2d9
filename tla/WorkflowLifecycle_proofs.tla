---------------------- MODULE WorkflowLifecycle_proofs ----------------------
(***************************************************************************)
(* Proofs about WorkflowLifecycle for any number of workflows, triggers    *)
(* and concurrent calls: type correctness, and that the registry never     *)
(* keeps a listener on a source that is not running; and, with one call at *)
(* a time, that the registry follows the lifecycle of every workflow.      *)
(***************************************************************************)
EXTENDS WorkflowLifecycle, TLAPS

CallStates == {"idle", "point", "save", "detach", "attach", "lifecycle", "restart"}

CallRecord == [at : CallStates, op : Ops \cup {"none"}, wf : Workflows \cup {NoWf},
               off : SUBSET Triggers, on : SUBSET Triggers, refs : SUBSET Triggers,
               read : Lives]

ReportRecord == [at : {"idle", "append", "detach"}, trigger : Triggers \cup {NoTrigger},
                 todo : SUBSET Workflows, drop : SUBSET Workflows]

SettleRecord == [at : {"idle", "count", "reconcile"}, wf : Workflows \cup {NoWf}]

\* A goroutine past its first step names the rows it works on.
Named ==
    /\ \A p \in Callers : call[p].at \notin {"idle", "restart"} => call[p].wf \in Workflows
    /\ \A r \in Reporters : report[r].at # "idle" => report[r].trigger \in Triggers
    /\ \A s \in Settlers : settle[s].at # "idle" => settle[s].wf \in Workflows

Typed == TypeOK /\ Named

\* The idle records are records of their kind.
LEMMA IdleTypes ==
    /\ IdleCall \in CallRecord /\ IdleCall.at = "idle"
    /\ IdleReport \in ReportRecord /\ IdleReport.at = "idle"
    /\ IdleSettle \in SettleRecord /\ IdleSettle.at = "idle"
  BY DEF IdleCall, IdleReport, IdleSettle, CallRecord, ReportRecord, SettleRecord, CallStates,
         Lives, Ops

\* A well-typed call that steps to a record of its kind stays well typed.
LEMMA ContinueType ==
    ASSUME Typed, NEW p \in Callers, NEW c \in CallRecord, Continue(p, c),
           c.at \notin {"idle", "restart"} => c.wf \in Workflows
    PROVE  /\ call' \in [Callers -> CallRecord]
           /\ \A q \in Callers :
                 call'[q].at \notin {"idle", "restart"} => call'[q].wf \in Workflows
<1>1. call \in [Callers -> CallRecord]
  BY DEF Typed, TypeOK, CallRecord, CallStates
<1>2. call' = [call EXCEPT ![p] = c]
  BY DEF Continue
<1>3. call' \in [Callers -> CallRecord]
  BY <1>1, <1>2
<1>4. \A q \in Callers : call'[q] = IF q = p THEN c ELSE call[q]
  BY <1>1, <1>2
<1>5. \A q \in Callers : call[q].at \notin {"idle", "restart"} => call[q].wf \in Workflows
  BY DEF Typed, Named
<1> QED
  BY <1>3, <1>4, <1>5

\* Starting a call gives the caller a record of its kind.
LEMMA StartType ==
    ASSUME Typed, NEW p \in Callers, NEW w \in Workflows, NEW op \in Ops, NEW c \in CallRecord,
           Start(p, op, w, c)
    PROVE  /\ call' \in [Callers -> CallRecord]
           /\ \A q \in Callers :
                 call'[q].at \notin {"idle", "restart"} => call'[q].wf \in Workflows
           /\ UNCHANGED <<rows, registry, report, settle>>
           /\ events' \in Nat /\ crashed' \in BOOLEAN
<1> DEFINE d == [c EXCEPT !.op = op, !.wf = w]
<1>1. d \in CallRecord /\ d.wf = w
  BY DEF CallRecord
<1>2. Continue(p, d)
  BY DEF Start, Continue
<1> HIDE DEF d
<1>3. /\ call' \in [Callers -> CallRecord]
      /\ \A q \in Callers : call'[q].at \notin {"idle", "restart"} => call'[q].wf \in Workflows
  BY <1>1, <1>2, ContinueType
<1> QED
  BY <1>3 DEF Start, Event, Typed, TypeOK

\* What a step must keep, by the part of the state it may change.
LEMMA Assemble ==
    ASSUME life' \in [Workflows -> Lives], entry' \in [Workflows -> SUBSET Triggers],
           deleted' \in SUBSET Workflows, gone' \in SUBSET Triggers,
           queued' \in [Workflows -> 0..MaxQueued], running' \in [Workflows -> Nat],
           workflows' \in [Triggers -> SUBSET Workflows], once' \in [Triggers -> SUBSET Workflows],
           hot' \in SUBSET Triggers, stopped' \in SUBSET Triggers,
           call' \in [Callers -> CallRecord], report' \in [Reporters -> ReportRecord],
           settle' \in [Settlers -> SettleRecord],
           excused' \in SUBSET (Workflows \X Triggers), events' \in Nat, crashed' \in BOOLEAN,
           Named'
    PROVE  Typed'
  BY DEF Typed, TypeOK, CallRecord, CallStates, ReportRecord, SettleRecord

\* The initial state is well typed.
LEMMA InitType == ASSUME Init PROVE Typed
<1>1. /\ life \in [Workflows -> Lives] /\ entry \in [Workflows -> SUBSET Triggers]
      /\ queued \in [Workflows -> 0..MaxQueued] /\ running \in [Workflows -> Nat]
  BY EntryAssumption, BoundAssumption DEF Init, EntrySets, Lives
<1>2. /\ call \in [Callers -> CallRecord] /\ report \in [Reporters -> ReportRecord]
      /\ settle \in [Settlers -> SettleRecord]
  BY IdleTypes DEF Init
<1>3. Named
  BY IdleTypes DEF Init, Named
<1> QED
  BY <1>1, <1>2, <1>3 DEF Init, Typed, TypeOK, CallRecord, CallStates, ReportRecord, SettleRecord

\* Registry operations keep the registry well typed.
LEMMA AttachType ==
    ASSUME Typed, NEW t \in Triggers, NEW w \in Workflows, NEW one \in BOOLEAN, Attach(t, w, one)
    PROVE  /\ workflows' \in [Triggers -> SUBSET Workflows]
           /\ once' \in [Triggers -> SUBSET Workflows] /\ hot' \in SUBSET Triggers /\ stopped' \in SUBSET Triggers
  BY DEF Typed, TypeOK, Attach, Register

LEMMA DetachType ==
    ASSUME Typed, NEW t \in Triggers, NEW w \in Workflows, Detach(t, w)
    PROVE  /\ workflows' \in [Triggers -> SUBSET Workflows]
           /\ once' \in [Triggers -> SUBSET Workflows] /\ hot' \in SUBSET Triggers /\ stopped' \in SUBSET Triggers
  BY DEF Typed, TypeOK, Detach, Unregister

\* The parts of the type invariant, by name.
LEMMA Parts ==
    ASSUME Typed
    PROVE  /\ life \in [Workflows -> Lives] /\ entry \in [Workflows -> SUBSET Triggers]
           /\ deleted \in SUBSET Workflows /\ gone \in SUBSET Triggers
           /\ queued \in [Workflows -> 0..MaxQueued] /\ running \in [Workflows -> Nat]
           /\ workflows \in [Triggers -> SUBSET Workflows] /\ once \in [Triggers -> SUBSET Workflows]
           /\ hot \in SUBSET Triggers /\ stopped \in SUBSET Triggers
           /\ call \in [Callers -> CallRecord] /\ report \in [Reporters -> ReportRecord]
           /\ settle \in [Settlers -> SettleRecord]
           /\ excused \in SUBSET (Workflows \X Triggers) /\ events \in Nat /\ crashed \in BOOLEAN
           /\ \A p \in Callers : call[p].at \notin {"idle", "restart"} => call[p].wf \in Workflows
           /\ \A r \in Reporters : report[r].at # "idle" => report[r].trigger \in Triggers
           /\ \A s \in Settlers : settle[s].at # "idle" => settle[s].wf \in Workflows
  BY DEF Typed, TypeOK, Named, CallRecord, CallStates, ReportRecord, SettleRecord

\* A request that starts keeps the types.
LEMMA RequestType ==
    ASSUME Typed, NEW p \in Callers, NEW w \in Workflows,
           Activate(p, w) \/ Stage(p, w) \/ Deactivate(p, w) \/ Kill(p, w) \/ UpdateMeta(p, w)
             \/ \E E \in EntrySets : Edit(p, w, E)
    PROVE  Typed'
<1> DEFINE Begun == /\ call' \in [Callers -> CallRecord]
                    /\ \A q \in Callers :
                          call'[q].at \notin {"idle", "restart"} => call'[q].wf \in Workflows
                    /\ UNCHANGED <<rows, registry, report, settle>>
                    /\ events' \in Nat /\ crashed' \in BOOLEAN
<1>1. entry[w] \in SUBSET Triggers /\ life[w] \in Lives
  BY Parts
<1>2. ASSUME Begun, excused' \in SUBSET (Workflows \X Triggers) PROVE Typed'
  <2>1. Named'
    BY <1>2, Parts DEF Named
  <2> QED
    BY <1>2, <2>1, Parts, Assemble DEF rows, registry
<1>3. \A S \in SUBSET Triggers : [IdleCall EXCEPT !.at = "attach", !.on = S] \in CallRecord
  BY IdleTypes DEF CallRecord, CallStates
<1>4. \A S \in SUBSET Triggers : [IdleCall EXCEPT !.at = "detach", !.off = S] \in CallRecord
  BY IdleTypes DEF CallRecord, CallStates
<1>5. \A S, T, E \in SUBSET Triggers, l \in Lives :
         [IdleCall EXCEPT !.at = "point", !.off = S, !.on = T, !.refs = E, !.read = l] \in CallRecord
  BY IdleTypes DEF CallRecord, CallStates
<1>6. \A S \in SUBSET Triggers, l \in Lives :
         [IdleCall EXCEPT !.at = "save", !.refs = S, !.read = l] \in CallRecord
  BY IdleTypes DEF CallRecord, CallStates
<1>7. \A op \in {"activate", "stage", "deactivate", "kill", "edit", "meta"} : op \in Ops
  BY DEF Ops
<1>8. CASE Activate(p, w)
  <2>1. Begun
    BY <1>8, <1>1, <1>3, <1>7, StartType DEF Activate
  <2> QED
    BY <1>8, <1>2, <2>1, Parts DEF Activate
<1>9. CASE Stage(p, w)
  <2>1. Begun
    BY <1>9, <1>1, <1>3, <1>7, StartType DEF Stage
  <2>2. excused' \in SUBSET (Workflows \X Triggers)
    BY <1>9, <1>1, Parts DEF Stage
  <2> QED
    BY <1>2, <2>1, <2>2
<1>10. CASE Deactivate(p, w)
  <2>1. Begun
    BY <1>10, <1>1, <1>4, <1>7, StartType DEF Deactivate
  <2> QED
    BY <1>10, <1>2, <2>1, Parts DEF Deactivate
<1>11. CASE Kill(p, w)
  <2>1. Begun
    BY <1>11, <1>1, <1>4, <1>7, StartType DEF Kill
  <2> QED
    BY <1>11, <1>2, <2>1, Parts DEF Kill
<1>12. CASE UpdateMeta(p, w)
  <2>1. Begun
    BY <1>12, <1>1, <1>6, <1>7, StartType DEF UpdateMeta
  <2> QED
    BY <1>12, <1>2, <2>1, Parts DEF UpdateMeta
<1>13. ASSUME NEW E \in EntrySets, Edit(p, w, E) PROVE Typed'
  <2>1. E \in SUBSET Triggers
    BY DEF EntrySets
  <2>2. [IdleCall EXCEPT !.at = "point", !.off = entry[w] \ E,
                         !.on = E \ entry[w], !.refs = E, !.read = life[w]] \in CallRecord
    BY <1>1, <1>5, <2>1
  <2>3. Begun
    BY <1>13, <1>7, <2>2, StartType DEF Edit
  <2> QED
    BY <1>13, <1>2, <2>3, Parts DEF Edit
<1> HIDE DEF Begun
<1> QED
  BY <1>8, <1>9, <1>10, <1>11, <1>12, <1>13

\* A step of a request keeps the types.
LEMMA StepType ==
    ASSUME Typed, NEW p \in Callers, Step(p) \/ RestartListener(p)
    PROVE  Typed'
<1> DEFINE Moved == /\ call' \in [Callers -> CallRecord]
                    /\ \A q \in Callers :
                          call'[q].at \notin {"idle", "restart"} => call'[q].wf \in Workflows
<1>1. call[p] \in CallRecord /\ call[p].off \in SUBSET Triggers /\ call[p].on \in SUBSET Triggers
        /\ call[p].refs \in SUBSET Triggers /\ call[p].read \in Lives
  BY Parts DEF CallRecord
<1>2. call[p].at \notin {"idle", "restart"} => call[p].wf \in Workflows
  BY Parts
<1>3. ASSUME Return(p) PROVE Moved
  BY <1>3, IdleTypes, ContinueType DEF Return
<1>4. ASSUME NEW c \in CallRecord, Continue(p, c), c.wf \in Workflows PROVE Moved
  BY <1>4, ContinueType
<1>5. ASSUME Moved, UNCHANGED <<report, settle>> PROVE Named'
  BY <1>5, Parts DEF Named
<1> HIDE DEF Moved
<1>6. ASSUME NEW a \in CallStates, NEW S \in SUBSET Triggers
      PROVE  /\ [call[p] EXCEPT !.at = a] \in CallRecord
             /\ [call[p] EXCEPT !.at = a].wf = call[p].wf
             /\ [call[p] EXCEPT !.off = S] \in CallRecord /\ [call[p] EXCEPT !.off = S].wf = call[p].wf
             /\ [call[p] EXCEPT !.on = S] \in CallRecord /\ [call[p] EXCEPT !.on = S].wf = call[p].wf
  BY <1>1 DEF CallRecord
<1>7. ASSUME NEW l \in Lives
      PROVE  /\ [call[p] EXCEPT !.at = "lifecycle", !.read = l] \in CallRecord
             /\ [call[p] EXCEPT !.at = "lifecycle", !.read = l].wf = call[p].wf
  BY <1>1 DEF CallRecord, CallStates
<1>8. "detach" \in CallStates /\ "save" \in CallStates /\ "attach" \in CallStates /\ Lives = {"inactive", "active", "draining"}
  BY DEF CallStates, Lives
<1>9. CASE Point(p)
  <2>1. Moved
    BY <1>2, <1>3, <1>4, <1>6, <1>8, <1>9 DEF Point, Rebind
  <2>2. entry' \in [Workflows -> SUBSET Triggers]
    BY <1>1, <1>9, Parts DEF Point
  <2> QED
    BY <1>5, <1>9, <2>1, <2>2, Parts, Assemble DEF Point, Moved, registry, history, bounds
<1>10. CASE SaveRow(p)
  <2>1. Moved
    BY <1>2, <1>3, <1>4, <1>6, <1>8, <1>10 DEF SaveRow, Rebind
  <2>2. life' \in [Workflows -> Lives] /\ entry' \in [Workflows -> SUBSET Triggers]
    BY <1>1, <1>10, Parts DEF SaveRow
  <2> QED
    BY <1>5, <1>10, <2>1, <2>2, Parts, Assemble DEF SaveRow, Moved, registry, history, bounds
<1>11. CASE CountRunning(p)
  <2>1. PICK l \in Lives : Continue(p, [call[p] EXCEPT !.at = "lifecycle", !.read = l])
    BY <1>8, <1>11 DEF CountRunning
  <2>2. Moved
    BY <1>2, <1>4, <1>7, <1>11, <2>1 DEF CountRunning, Detached
  <2> QED
    BY <1>5, <1>11, <2>2, Parts, Assemble DEF CountRunning, Moved, rows, registry, history, bounds
<1>12. CASE KillRuns(p)
  <2>1. Moved
    BY <1>2, <1>4, <1>7, <1>8, <1>12 DEF KillRuns, Detached
  <2>2. running' \in [Workflows -> Nat]
    BY <1>12, Parts DEF KillRuns
  <2> QED
    BY <1>5, <1>12, <2>1, <2>2, Parts, Assemble DEF KillRuns, Moved, registry, history, bounds
<1>13. CASE RebindNew(p)
  <2>1. Moved
    BY <1>2, <1>4, <1>6, <1>8, <1>13 DEF RebindNew, Detached
  <2> QED
    BY <1>5, <1>13, <2>1, Parts, Assemble DEF RebindNew, Moved, rows, registry, history, bounds
<1>14. CASE Attached(p)
  <2>1. Moved
    BY <1>2, <1>3, <1>4, <1>7, <1>8, <1>14 DEF Attached
  <2> QED
    BY <1>5, <1>14, <2>1, Parts, Assemble DEF Attached, Moved, rows, registry, history, bounds
<1>15. CASE SetLifecycle(p)
  <2>1. Moved
    BY <1>3, <1>15 DEF SetLifecycle
  <2>2. life' \in [Workflows -> Lives]
    BY <1>1, <1>15, Parts DEF SetLifecycle
  <2> QED
    BY <1>5, <1>15, <2>1, <2>2, Parts, Assemble DEF SetLifecycle, Moved, registry, history, bounds
<1>16. ASSUME NEW t \in Triggers, DetachOne(p, t) PROVE Typed'
  <2>1. call[p].off \ {t} \in SUBSET Triggers /\ call[p].wf \in Workflows
    BY <1>1, <1>2, <1>16 DEF DetachOne
  <2>2. Continue(p, [call[p] EXCEPT !.off = call[p].off \ {t}])
    BY <1>16 DEF DetachOne
  <2>3. Moved
    BY <1>4, <1>6, <1>8, <2>1, <2>2
  <2>4. /\ workflows' \in [Triggers -> SUBSET Workflows]
        /\ once' \in [Triggers -> SUBSET Workflows] /\ hot' \in SUBSET Triggers /\ stopped' \in SUBSET Triggers
    BY <1>16, <2>1, DetachType DEF DetachOne
  <2>5. excused' \in SUBSET (Workflows \X Triggers)
    BY <1>16, Parts DEF DetachOne
  <2> QED
    BY <1>5, <1>16, <2>3, <2>4, <2>5, Parts, Assemble DEF DetachOne, Moved, rows, bounds
<1>17. ASSUME NEW t \in Triggers, AttachOne(p, t) PROVE Typed'
  <2>1. call[p].on \ {t} \in SUBSET Triggers /\ call[p].wf \in Workflows
    BY <1>1, <1>2, <1>17 DEF AttachOne
  <2>2. Continue(p, [call[p] EXCEPT !.on = call[p].on \ {t}])
    BY <1>17 DEF AttachOne
  <2>3. Moved
    BY <1>4, <1>6, <1>8, <2>1, <2>2
  <2>4. /\ workflows' \in [Triggers -> SUBSET Workflows]
        /\ once' \in [Triggers -> SUBSET Workflows] /\ hot' \in SUBSET Triggers /\ stopped' \in SUBSET Triggers
    BY <1>17, <2>1, AttachType DEF AttachOne
  <2> QED
    BY <1>5, <1>17, <2>3, <2>4, Parts, Assemble DEF AttachOne, Moved, rows, history, bounds
<1>18. ASSUME NEW t \in Triggers, AttachFails(p, t) PROVE Typed'
  <2>1. call[p].on \ {t} \in SUBSET Triggers /\ call[p].wf \in Workflows
    BY <1>1, <1>2, <1>18 DEF AttachFails
  <2>2. Continue(p, [call[p] EXCEPT !.on = call[p].on \ {t}]) \/ Return(p)
    BY <1>18 DEF AttachFails
  <2>3. Moved
    BY <1>3, <1>4, <1>6, <1>8, <2>1, <2>2
  <2>4. excused' \in SUBSET (Workflows \X Triggers)
    BY <1>18, <2>1, Parts DEF AttachFails
  <2>5. events' \in Nat /\ crashed' \in BOOLEAN
    BY <1>18, Parts DEF AttachFails, Event, bounds
  <2>6. hot' \in SUBSET Triggers /\ stopped' \in SUBSET Triggers
    BY <1>18, Parts DEF AttachFails, RegisterFails
  <2> QED
    BY <1>5, <1>18, <2>3, <2>4, <2>5, <2>6, Parts, Assemble DEF AttachFails, Moved, rows
<1>19. CASE RestartListener(p)
  <2>1. Moved
    BY <1>3, <1>19 DEF RestartListener
  <2>2. hot' \in SUBSET Triggers /\ stopped' \in SUBSET Triggers
    BY <1>1, <1>19, Parts DEF RestartListener, Register, RegisterFails
  <2>3. events' \in Nat /\ crashed' \in BOOLEAN
    BY <1>19, Parts DEF RestartListener, Event, bounds
  <2> QED
    BY <1>5, <1>19, <2>1, <2>2, <2>3, Parts, Assemble DEF RestartListener, Moved, rows
<1> QED
  BY <1>9, <1>10, <1>11, <1>12, <1>13, <1>14, <1>15, <1>16, <1>17, <1>18, <1>19 DEF Step

\* A step of the trigger service keeps the types.
LEMMA TriggerServiceType ==
    ASSUME Typed,
           \/ \E r \in Reporters, t \in Triggers : Report(r, t)
           \/ \E r \in Reporters : ReportStep(r)
           \/ \E p \in Callers, t \in Triggers : EditTrigger(p, t) \/ DeleteTrigger(p, t)
    PROVE  Typed'
<1> DEFINE Reported(r) == /\ report' \in [Reporters -> ReportRecord]
                          /\ \A q \in Reporters : report'[q].at # "idle"
                                                     => report'[q].trigger \in Triggers
<1>1. ASSUME NEW r \in Reporters, NEW c \in ReportRecord, report' = [report EXCEPT ![r] = c],
             c.at # "idle" => c.trigger \in Triggers
      PROVE  Reported(r)
  <2>1. report' \in [Reporters -> ReportRecord]
    BY <1>1, Parts
  <2>2. \A q \in Reporters : report'[q] = IF q = r THEN c ELSE report[q]
    BY <1>1, Parts
  <2> QED
    BY <1>1, <2>1, <2>2, Parts
<1>2. \A r \in Reporters : /\ report[r] \in ReportRecord
                           /\ report[r].todo \in SUBSET Workflows
                           /\ report[r].drop \in SUBSET Workflows
  BY Parts DEF ReportRecord
<1>3. ASSUME NEW r \in Reporters, Reported(r), UNCHANGED <<call, settle>> PROVE Named'
  BY <1>3, Parts DEF Named
<1> HIDE DEF Reported
<1>4. ASSUME NEW r \in Reporters, NEW t \in Triggers, Report(r, t) PROVE Typed'
  <2>1. [at |-> "append", trigger |-> t, todo |-> workflows[t], drop |-> workflows[t]]
          \in ReportRecord
    BY Parts DEF ReportRecord
  <2>2. Reported(r)
    BY <1>1, <1>4, <2>1 DEF Report
  <2>3. events' \in Nat /\ crashed' \in BOOLEAN
    BY <1>4, Parts DEF Report, Event
  <2> QED
    BY <1>3, <1>4, <2>2, <2>3, Parts, Assemble DEF Report, Reported, rows, registry
<1>5. ASSUME NEW r \in Reporters, NEW w \in Workflows, AppendFiring(r, w) PROVE Typed'
  <2> DEFINE c == [report[r] EXCEPT !.todo = report[r].todo \ {w}]
  <2>1. c \in ReportRecord /\ c.trigger = report[r].trigger /\ c.at = report[r].at
    BY <1>2 DEF ReportRecord
  <2>2. report' = [report EXCEPT ![r] = c]
    BY <1>5 DEF AppendFiring
  <2>3. report[r].trigger \in Triggers
    BY <1>5, Parts DEF AppendFiring
  <2> HIDE DEF c
  <2>4. Reported(r)
    BY <1>1, <2>1, <2>2, <2>3
  <2>5. queued[w] + 1 \in 0..MaxQueued
    BY <1>5, Parts, BoundAssumption DEF AppendFiring
  <2>6. queued' \in [Workflows -> 0..MaxQueued]
    BY <1>5, <2>5, Parts DEF AppendFiring
  <2> QED
    BY <1>3, <1>5, <2>4, <2>6, Parts, Assemble DEF AppendFiring, Reported, registry, history, bounds
<1>6. ASSUME NEW r \in Reporters, CollectOneShots(r) PROVE Typed'
  <2> DEFINE D == report[r].drop \cap once[report[r].trigger]
             c == [report[r] EXCEPT !.at = "detach", !.drop = D]
  <2>1. D \in SUBSET Workflows
    BY <1>2
  <2>2. c \in ReportRecord /\ c.trigger = report[r].trigger
    BY <1>2, <2>1 DEF ReportRecord
  <2>3. report' = [report EXCEPT ![r] = c]
    BY <1>6, <1>2 DEF CollectOneShots
  <2>4. report[r].trigger \in Triggers
    BY <1>6, Parts DEF CollectOneShots
  <2> HIDE DEF c
  <2>5. Reported(r)
    BY <1>1, <2>2, <2>3, <2>4
  <2> QED
    BY <1>3, <1>6, <2>5, Parts, Assemble DEF CollectOneShots, Reported, rows, registry, history, bounds
<1>7. ASSUME NEW r \in Reporters, NEW w \in Workflows, DetachOneShot(r, w) PROVE Typed'
  <2> DEFINE c == [report[r] EXCEPT !.drop = report[r].drop \ {w}]
  <2>1. c \in ReportRecord /\ c.trigger = report[r].trigger /\ c.at = report[r].at
    BY <1>2 DEF ReportRecord
  <2>2. report' = [report EXCEPT ![r] = c]
    BY <1>7 DEF DetachOneShot
  <2>3. report[r].trigger \in Triggers
    BY <1>7, Parts DEF DetachOneShot
  <2> HIDE DEF c
  <2>4. Reported(r)
    BY <1>1, <2>1, <2>2, <2>3
  <2>5. /\ workflows' \in [Triggers -> SUBSET Workflows]
        /\ once' \in [Triggers -> SUBSET Workflows] /\ hot' \in SUBSET Triggers /\ stopped' \in SUBSET Triggers
    BY <1>7, <2>3, DetachType DEF DetachOneShot
  <2> QED
    BY <1>3, <1>7, <2>4, <2>5, Parts, Assemble DEF DetachOneShot, Reported, rows, history, bounds
<1>8. ASSUME NEW r \in Reporters, EndReport(r) PROVE Typed'
  <2>1. Reported(r)
    BY <1>1, <1>8, IdleTypes DEF EndReport
  <2> QED
    BY <1>3, <1>8, <2>1, Parts, Assemble DEF EndReport, Reported, rows, registry, history, bounds
<1>9. ASSUME NEW p \in Callers, NEW t \in Triggers, EditTrigger(p, t) PROVE Typed'
  <2> DEFINE c == [IdleCall EXCEPT !.at = "restart", !.on = {t}]
  <2>1. c \in CallRecord /\ c.at = "restart"
    BY IdleTypes DEF CallRecord, CallStates
  <2>2. Continue(p, c)
    BY <1>9 DEF EditTrigger
  <2> HIDE DEF c
  <2>3. /\ call' \in [Callers -> CallRecord]
        /\ \A q \in Callers : call'[q].at \notin {"idle", "restart"} => call'[q].wf \in Workflows
    BY <2>1, <2>2, ContinueType
  <2>4. Named'
    BY <1>9, <2>3, Parts DEF EditTrigger, Named
  <2>5. events' \in Nat /\ crashed' \in BOOLEAN
    <3>1. Event
      BY <1>9 DEF EditTrigger
    <3> QED
      BY <3>1, Parts DEF Event
  <2> QED
    BY <1>9, <2>3, <2>4, <2>5, Parts, Assemble DEF EditTrigger, rows, registry
<1>10. ASSUME NEW p \in Callers, NEW t \in Triggers, DeleteTrigger(p, t) PROVE Typed'
  <2>1. /\ workflows' \in [Triggers -> SUBSET Workflows]
        /\ once' \in [Triggers -> SUBSET Workflows] /\ hot' \in SUBSET Triggers /\ stopped' \in SUBSET Triggers
        /\ gone' \in SUBSET Triggers /\ events' \in Nat /\ crashed' \in BOOLEAN
    BY <1>10, Parts DEF DeleteTrigger, Unregister, Event
  <2>2. Named'
    BY <1>10, Parts DEF DeleteTrigger, Named, routines
  <2> QED
    BY <1>10, <2>1, <2>2, Parts, Assemble DEF DeleteTrigger, routines
<1> QED
  BY <1>4, <1>5, <1>6, <1>7, <1>8, <1>9, <1>10 DEF ReportStep

\* A step of a run, a deletion, or a crash keeps the types.
LEMMA RunStepType ==
    ASSUME Typed,
           \/ \E w \in Workflows : Delete(w) \/ Claim(w)
           \/ \E s \in Settlers, w \in Workflows : EndRun(s, w)
           \/ \E s \in Settlers : CountSettled(s) \/ MarkInactiveIfDraining(s)
           \/ \E F \in SUBSET Triggers : CrashAndBoot(F)
    PROVE  Typed'
<1> DEFINE Settling == /\ settle' \in [Settlers -> SettleRecord]
                       /\ \A q \in Settlers : settle'[q].at # "idle" => settle'[q].wf \in Workflows
<1>1. ASSUME NEW s \in Settlers, NEW c \in SettleRecord, settle' = [settle EXCEPT ![s] = c],
             c.at # "idle" => c.wf \in Workflows
      PROVE  Settling
  <2>1. settle' \in [Settlers -> SettleRecord]
    BY <1>1, Parts
  <2>2. \A q \in Settlers : settle'[q] = IF q = s THEN c ELSE settle[q]
    BY <1>1, Parts
  <2> QED
    BY <1>1, <2>1, <2>2, Parts
<1>2. ASSUME Settling, UNCHANGED <<call, report>> PROVE Named'
  BY <1>2, Parts DEF Named
<1> HIDE DEF Settling
<1>3. ASSUME NEW w \in Workflows, Delete(w) PROVE Typed'
  <2>1. deleted' \in SUBSET Workflows /\ events' \in Nat /\ crashed' \in BOOLEAN
    BY <1>3, Parts DEF Delete, Event
  <2>2. Named'
    BY <1>3, Parts DEF Delete, Named, routines
  <2> QED
    BY <1>3, <2>1, <2>2, Parts, Assemble DEF Delete, registry, routines
<1>4. ASSUME NEW w \in Workflows, Claim(w) PROVE Typed'
  <2>1. queued[w] - 1 \in 0..MaxQueued
    BY <1>4, Parts, BoundAssumption DEF Claim
  <2>2. queued' \in [Workflows -> 0..MaxQueued]
    BY <1>4, <2>1, Parts DEF Claim
  <2>3. running' \in [Workflows -> Nat]
    BY <1>4, Parts DEF Claim
  <2>4. Named'
    BY <1>4, Parts DEF Claim, Named, routines
  <2> QED
    BY <1>4, <2>2, <2>3, <2>4, Parts, Assemble DEF Claim, registry, routines, history, bounds
<1>5. ASSUME NEW s \in Settlers, NEW w \in Workflows, EndRun(s, w) PROVE Typed'
  <2>1. running[w] - 1 \in Nat
    BY <1>5, Parts DEF EndRun
  <2>2. running' \in [Workflows -> Nat]
    BY <1>5, <2>1, Parts DEF EndRun
  <2>3. [at |-> "count", wf |-> w] \in SettleRecord
    BY DEF SettleRecord
  <2>4. Settling
    BY <1>1, <1>5, <2>3 DEF EndRun
  <2> QED
    BY <1>2, <1>5, <2>2, <2>4, Parts, Assemble DEF EndRun, Settling, registry, history, bounds
<1>6. ASSUME NEW s \in Settlers, CountSettled(s) PROVE Typed'
  <2> DEFINE c == IF running[settle[s].wf] > 0 THEN IdleSettle
                                               ELSE [settle[s] EXCEPT !.at = "reconcile"]
  <2>1. settle[s] \in SettleRecord
    BY Parts
  <2>2. c \in SettleRecord /\ (c.at # "idle" => c.wf = settle[s].wf)
    BY <2>1, IdleTypes DEF SettleRecord
  <2>3. settle' = [settle EXCEPT ![s] = c]
    BY <1>6 DEF CountSettled
  <2>4. settle[s].wf \in Workflows
    BY <1>6, Parts DEF CountSettled
  <2> HIDE DEF c
  <2>5. Settling
    BY <1>1, <2>2, <2>3, <2>4
  <2> QED
    BY <1>2, <1>6, <2>5, Parts, Assemble DEF CountSettled, Settling, rows, registry, history, bounds
<1>7. ASSUME NEW s \in Settlers, MarkInactiveIfDraining(s) PROVE Typed'
  <2>1. Settling
    BY <1>1, <1>7, IdleTypes DEF MarkInactiveIfDraining
  <2>2. life' \in [Workflows -> Lives]
    BY <1>7, Parts DEF MarkInactiveIfDraining, Lives
  <2> QED
    BY <1>2, <1>7, <2>1, <2>2, Parts, Assemble
       DEF MarkInactiveIfDraining, Settling, registry, history, bounds
<1>8. ASSUME NEW F \in SUBSET Triggers, CrashAndBoot(F) PROVE Typed'
  <2>1. /\ call' \in [Callers -> CallRecord] /\ report' \in [Reporters -> ReportRecord]
        /\ settle' \in [Settlers -> SettleRecord] /\ Named'
    BY <1>8, IdleTypes DEF CrashAndBoot, Named
  <2>2. /\ workflows' \in [Triggers -> SUBSET Workflows]
        /\ once' \in [Triggers -> SUBSET Workflows] /\ hot' \in SUBSET Triggers /\ stopped' \in SUBSET Triggers
    BY <1>8, Parts DEF CrashAndBoot
  <2>3. excused' \in SUBSET (Workflows \X Triggers)
    BY <1>8 DEF CrashAndBoot
  <2>4. events' \in Nat /\ crashed' \in BOOLEAN
    BY <1>8, Parts DEF CrashAndBoot
  <2> QED
    BY <1>8, <2>1, <2>2, <2>3, <2>4, Parts, Assemble DEF CrashAndBoot, rows
<1> QED
  BY <1>3, <1>4, <1>5, <1>6, <1>7, <1>8

\* Every step keeps the types.
LEMMA NextType == ASSUME Typed, [Next]_vars PROVE Typed'
<1>1. CASE UNCHANGED vars
  <2>1. Named'
    BY <1>1, Parts DEF vars, routines, Named
  <2> QED
    BY <1>1, <2>1, Parts, Assemble DEF vars, rows, registry, routines, history, bounds
<1>2. CASE Next
  BY <1>2, RequestType, StepType, TriggerServiceType, RunStepType DEF Next
<1> QED
  BY <1>1, <1>2

\* Every variable has its type in every reachable state (TypeOK).
THEOREM TypeCorrect == Spec => []TypeOK
<1>1. Init => Typed
  BY InitType
<1>2. Typed /\ [Next]_vars => Typed'
  BY NextType
<1>3. Typed => TypeOK
  BY DEF Typed
<1> QED
  BY <1>1, <1>2, <1>3, PTL DEF Spec

\* Registry operations keep every listener on a source that runs, or that a registration stopped.
LEMMA AttachHot ==
    ASSUME Typed, ListenersAreHot, NEW t \in Triggers, NEW w \in Workflows, NEW one \in BOOLEAN,
           Attach(t, w, one)
    PROVE  ListenersAreHot'
  BY DEF Typed, TypeOK, Attach, Register, ListenersAreHot

LEMMA DetachHot ==
    ASSUME Typed, ListenersAreHot, NEW t \in Triggers, NEW w \in Workflows, Detach(t, w)
    PROVE  ListenersAreHot'
  BY DEF Typed, TypeOK, Detach, Unregister, ListenersAreHot

\* Every step keeps every listener on a source that runs, or that a registration stopped.
LEMMA NextHot == ASSUME Typed, ListenersAreHot, [Next]_vars PROVE ListenersAreHot'
<1>1. ASSUME UNCHANGED registry PROVE ListenersAreHot'
  BY <1>1 DEF registry, ListenersAreHot
<1>2. ASSUME NEW p \in Callers, NEW t \in Triggers, DetachOne(p, t) PROVE ListenersAreHot'
  <2>1. call[p].wf \in Workflows
    BY <1>2, Parts DEF DetachOne
  <2> QED
    BY <1>2, <2>1, DetachHot DEF DetachOne
<1>3. ASSUME NEW p \in Callers, NEW t \in Triggers, AttachOne(p, t) PROVE ListenersAreHot'
  <2>1. call[p].wf \in Workflows
    BY <1>3, Parts DEF AttachOne
  <2> QED
    BY <1>3, <2>1, AttachHot DEF AttachOne
<1>4. ASSUME NEW r \in Reporters, NEW w \in Workflows, DetachOneShot(r, w) PROVE ListenersAreHot'
  <2>1. report[r].trigger \in Triggers
    BY <1>4, Parts DEF DetachOneShot
  <2> QED
    BY <1>4, <2>1, DetachHot DEF DetachOneShot
<1>5. ASSUME NEW p \in Callers, RestartListener(p) PROVE ListenersAreHot'
  BY <1>5 DEF RestartListener, Register, RegisterFails, ListenersAreHot
<1>6. ASSUME NEW p \in Callers, NEW t \in Triggers, DeleteTrigger(p, t) PROVE ListenersAreHot'
  BY <1>6, Parts DEF DeleteTrigger, Unregister, ListenersAreHot
<1>7. ASSUME NEW F \in SUBSET Triggers, CrashAndBoot(F) PROVE ListenersAreHot'
  BY <1>7 DEF CrashAndBoot, ListenersAreHot
<1>8. CASE UNCHANGED vars
  BY <1>1, <1>8 DEF vars
<1>9. ASSUME NEW p \in Callers, Step(p) PROVE ListenersAreHot'
  <2>1. CASE \E t \in Triggers : DetachOne(p, t) \/ AttachOne(p, t)
    BY <1>2, <1>3, <2>1
  <2>2. ASSUME NEW t \in Triggers, AttachFails(p, t) PROVE ListenersAreHot'
    BY <2>2 DEF AttachFails, RegisterFails, ListenersAreHot
  <2>3. CASE ~ \E t \in Triggers : DetachOne(p, t) \/ AttachOne(p, t) \/ AttachFails(p, t)
    <3>1. UNCHANGED registry
      BY <1>9, <2>3 DEF Step, Point, SaveRow, CountRunning, KillRuns, RebindNew, Attached,
                        SetLifecycle
    <3> QED
      BY <1>1, <3>1
  <2> QED
    BY <2>1, <2>2, <2>3
<1>10. ASSUME NEW p \in Callers, NEW w \in Workflows,
              Activate(p, w) \/ Stage(p, w) \/ Deactivate(p, w) \/ Kill(p, w) \/ UpdateMeta(p, w)
                \/ \E E \in EntrySets : Edit(p, w, E)
       PROVE  ListenersAreHot'
  <2>1. UNCHANGED registry
    BY <1>10 DEF Activate, Stage, Deactivate, Kill, UpdateMeta, Edit, Start
  <2> QED
    BY <1>1, <2>1
<1>11. ASSUME NEW r \in Reporters, ReportStep(r) PROVE ListenersAreHot'
  <2>1. CASE \E w \in Workflows : DetachOneShot(r, w)
    BY <1>4, <2>1
  <2>2. CASE ~ \E w \in Workflows : DetachOneShot(r, w)
    <3>1. UNCHANGED registry
      BY <1>11, <2>2 DEF ReportStep, CollectOneShots, EndReport, AppendFiring
    <3> QED
      BY <1>1, <3>1
  <2> QED
    BY <2>1, <2>2
<1>12. ASSUME \/ \E p \in Callers, t \in Triggers : EditTrigger(p, t)
              \/ \E w \in Workflows : Delete(w) \/ Claim(w)
              \/ \E r \in Reporters, t \in Triggers : Report(r, t)
              \/ \E s \in Settlers, w \in Workflows : EndRun(s, w)
              \/ \E s \in Settlers : CountSettled(s) \/ MarkInactiveIfDraining(s)
       PROVE  ListenersAreHot'
  <2>1. UNCHANGED registry
    BY <1>12 DEF EditTrigger, Delete, Claim, Report, EndRun, CountSettled, MarkInactiveIfDraining
  <2> QED
    BY <1>1, <2>1
<1> QED
  BY <1>5, <1>6, <1>7, <1>8, <1>9, <1>10, <1>11, <1>12 DEF Next

\* In every reachable state a trigger with a listener has its source running, or
\* its last registration failed and stopped it, and one-shot marks belong to
\* listeners (ListenersAreHot; lifecycle.go).
THEOREM ListenersHot == Spec => []ListenersAreHot
<1>1. Init => ListenersAreHot
  BY DEF Init, ListenersAreHot
<1>2. Typed /\ ListenersAreHot /\ [Next]_vars => ListenersAreHot'
  BY NextHot
<1>3. Init => Typed
  BY InitType
<1>4. Typed /\ [Next]_vars => Typed'
  BY NextType
<1> QED
  BY <1>1, <1>2, <1>3, <1>4, PTL DEF Spec

-----------------------------------------------------------------------------
(***************************************************************************)
(* Bindings follow the lifecycle, when no two calls work on one workflow   *)
(* at a time. Between two steps of a call the registry lags behind the     *)
(* rows it reads and writes: Expected says by how much.                    *)
(***************************************************************************)

\* No two calls under way are about the same workflow. Calls about different ones,
\* edits and deletions of triggers, reports and settling runs may go on beside each
\* other; nothing in the code keeps two calls about one workflow apart.
CallsApart ==
    \A p, q \in Callers : p # q /\ call[p].wf # NoWf => call[p].wf # call[q].wf

\* The triggers workflow w listens to while the call o goes on: what it listened
\* to before, less what o has detached, and what o has attached.
Expected(w, o) ==
    IF o.wf # w THEN Wanted(w)
    ELSE CASE o.op = "activate" -> (IF o.at = "attach" THEN Wanted(w) \cup (entry[w] \ o.on)
                                                       ELSE entry[w]) \ gone
           [] o.op = "stage" -> {}
           [] o.op \in {"deactivate", "kill"} -> IF o.at = "detach" THEN Wanted(w) \cap o.off
                                                                    ELSE {}
           [] o.op = "edit" -> IF o.at = "point" THEN Wanted(w)
                               ELSE IF o.read = "active" THEN ((entry[w] \ o.on) \cup o.off) \ gone
                               ELSE {}
           [] OTHER -> Wanted(w)

Holds(w, S) == \A t \in Triggers : (w \in workflows[t] <=> t \in S) \/ <<w, t>> \in excused

\* What a call knows of the workflow it works on, at each of its steps.
CallSound(o) ==
    LET w == o.wf
        same == o.read = "active" <=> life[w] = "active" IN
    /\ o.op = "none" <=> o.wf = NoWf
    /\ o.op = "none" => o.at \in {"idle", "restart"}
    /\ o.op = "activate" => /\ o.at \in {"attach", "lifecycle"}
                            /\ o.on \subseteq entry[w]
                            /\ o.at = "lifecycle" => o.read = "active"
    /\ o.op = "stage" => /\ o.at = "attach" /\ life[w] # "active"
                         /\ o.on \subseteq entry[w]
                         /\ \A t \in entry[w] : <<w, t>> \in excused
    /\ o.op \in {"deactivate", "kill"} => /\ o.at \in {"detach", "lifecycle"}
                                          /\ o.at = "lifecycle" => o.read # "active"
    /\ o.op = "edit" => /\ o.at \in {"point", "save", "detach", "attach"} /\ same
                        /\ o.at = "point" => /\ o.off = entry[w] \ o.refs
                                             /\ o.on = o.refs \ entry[w]
                        /\ o.at # "point" => /\ o.refs = entry[w] /\ o.off \cap entry[w] = {}
                                             /\ o.on \subseteq entry[w]
                        /\ o.at \in {"detach", "attach"} => o.read = "active"
                        /\ o.at = "attach" => o.off = {}
    /\ o.op = "meta" => o.at = "save" /\ o.refs = entry[w] /\ same

\* Only excused bindings carry a one-shot mark or are about to be detached for one.
MarksExcused == \A t \in Triggers : \A w \in once[t] : <<w, t>> \in excused
DropsExcused ==
    \A r \in Reporters : report[r].at = "detach" =>
        \A w \in report[r].drop : <<w, report[r].trigger>> \in excused

\* A workflow listens as the call about it expects, or as its row says.
Bound(w) ==
    /\ \A p \in Callers : call[p].wf = w => Holds(w, Expected(w, call[p]))
    /\ (\A p \in Callers : call[p].wf # w) => Holds(w, Wanted(w))

BindInv ==
    /\ \A p \in Callers : CallSound(call[p])
    /\ \A w \in Workflows \ deleted : Bound(w)
    /\ MarksExcused /\ DropsExcused

\* The records of the calls after a step of p.
LEMMA NextCall ==
    ASSUME Typed, NEW p \in Callers, NEW o, Continue(p, o)
    PROVE  call'[p] = o /\ \A q \in Callers \ {p} : call'[q] = call[q]
  BY Parts DEF Continue

\* An idle call works on no workflow.
LEMMA IdleNone ==
    ASSUME Typed, NEW p \in Callers, CallSound(call[p]), call[p].at \in {"idle", "restart"}
    PROVE  call[p].wf = NoWf
<1>1. call[p].op \in Ops \cup {"none"}
  BY Parts DEF CallRecord
<1> QED
  BY <1>1 DEF CallSound, Ops

\* The initial state: nobody listens.
LEMMA BindInit == ASSUME Init PROVE BindInv
<1>1. \A p \in Callers : call[p] = IdleCall
  BY DEF Init
<1>2. \A r \in Reporters : report[r].at = "idle"
  BY DEF Init, IdleReport
<1>3. \A w \in Workflows : Wanted(w) = {}
  BY DEF Init, Wanted
<1>4. CallSound(IdleCall) /\ IdleCall.wf = NoWf
  BY DEF CallSound, IdleCall
<1>5. \A w \in Workflows : Bound(w)
  BY <1>1, <1>3, <1>4, NoneAssumption DEF Bound, Holds, Init
<1>6. MarksExcused /\ DropsExcused
  BY <1>2 DEF MarksExcused, DropsExcused, Init
<1> QED
  BY <1>1, <1>4, <1>5, <1>6 DEF BindInv

\* What a call expects changes with its workflow's row alone.
LEMMA SameExpected ==
    ASSUME NEW v \in Workflows, NEW c, life'[v] = "active" <=> life[v] = "active",
           entry'[v] = entry[v], gone' = gone
    PROVE  Wanted(v)' = Wanted(v) /\ Expected(v, c)' = Expected(v, c)
<1>1. Wanted(v)' = Wanted(v)
  BY DEF Wanted
<1> QED
  BY <1>1 DEF Expected

\* What a call knows stays true while its workflow's row and excuses do.
LEMMA SameSound ==
    ASSUME NEW c, CallSound(c),
           c.wf # NoWf => /\ life'[c.wf] = "active" <=> life[c.wf] = "active"
                          /\ entry'[c.wf] = entry[c.wf]
                          /\ \A t \in entry[c.wf] : <<c.wf, t>> \in excused => <<c.wf, t>> \in excused'
    PROVE  CallSound(c)'
<1>1. CASE c.wf = NoWf
  BY <1>1 DEF CallSound
<1>2. CASE c.wf # NoWf
  BY <1>2 DEF CallSound
<1> QED
  BY <1>1, <1>2

\* A step of the only call that works on w, or of one that starts to or no longer
\* does, leaves the other workflows alone.
LEMMA BindFrame ==
    ASSUME Typed, NEW p \in Callers, BindInv, NEW w \in Workflows, call[p].wf \in {w, NoWf},
           \A q \in Callers \ {p} : call[q].wf # w,
           NEW o, Continue(p, o), CallSound(o)', o.wf \in {w, NoWf},
           deleted' = deleted, gone' = gone,
           \A v \in Workflows \ {w} : life'[v] = life[v] /\ entry'[v] = entry[v],
           \A v \in Workflows \ {w}, t \in Triggers :
               /\ v \in workflows'[t] <=> v \in workflows[t]
               /\ <<v, t>> \in excused => <<v, t>> \in excused',
           w \notin deleted => Holds(w, Expected(w, o))',
           MarksExcused', DropsExcused'
    PROVE  BindInv'
<1>1. call'[p] = o /\ \A q \in Callers \ {p} : call'[q] = call[q]
  BY NextCall
<1>2. w # NoWf /\ \A q \in Callers : call[q].wf \in Workflows \cup {NoWf}
  BY NoneAssumption, Parts DEF CallRecord
<1>3. ASSUME NEW q \in Callers PROVE CallSound(call[q])'
  <2>1. CASE q = p
    BY <1>1, <2>1
  <2>2. CASE q # p
    <3>1. PICK c : c = call[q]
      OBVIOUS
    <3>2. CallSound(c) /\ (c.wf # NoWf => c.wf \in Workflows \ {w})
      BY <1>2, <2>2, <3>1 DEF BindInv
    <3>3. c.wf # NoWf => entry[c.wf] \in SUBSET Triggers
      BY <3>2, Parts
    <3>4. CallSound(c)'
      BY <3>2, <3>3, SameSound
    <3> QED
      BY <1>1, <2>2, <3>1, <3>4
  <2> QED
    BY <2>1, <2>2
<1>4. ASSUME NEW v \in Workflows \ deleted PROVE Bound(v)'
  <2>1. CASE v = w
    <3>1. Holds(w, Expected(w, o))'
      BY <2>1
    <3>2. o.wf # w => Expected(w, o)' = Wanted(w)'
      BY DEF Expected
    <3>3. \A q \in Callers : call'[q].wf = w <=> q = p /\ o.wf = w
      BY <1>1
    <3>4. \A q \in Callers : call'[q].wf = w => Holds(w, Expected(w, call[q]))'
      BY <1>1, <3>1, <3>3
    <3>5. (\A q \in Callers : call'[q].wf # w) => Holds(w, Wanted(w))'
      BY <3>1, <3>2, <3>3
    <3> QED
      BY <2>1, <3>4, <3>5 DEF Bound
  <2>2. CASE v # w
    <3>1. \A q \in Callers : call'[q].wf = v <=> call[q].wf = v
      BY <1>1, <1>2, <2>2, NoneAssumption
    <3>2. \A q \in Callers : call'[q].wf = v => call'[q] = call[q]
      BY <1>1, <1>2, <2>2, NoneAssumption
    <3>3. Wanted(v)' = Wanted(v) /\ \A c : Expected(v, c)' = Expected(v, c)
      BY <2>2, SameExpected
    <3>4. Bound(v)
      BY DEF BindInv
    <3>5. ASSUME NEW q \in Callers, call'[q].wf = v PROVE Holds(v, Expected(v, call[q]))'
      <4>1. PICK c : c = call[q]
        OBVIOUS
      <4>2. Holds(v, Expected(v, c)) /\ call'[q] = c
        BY <3>1, <3>2, <3>4, <3>5, <4>1 DEF Bound
      <4>3. Holds(v, Expected(v, c))'
        BY <2>2, <3>3, <4>2 DEF Holds
      <4> QED
        BY <4>2, <4>3
    <3>6. ASSUME \A q \in Callers : call'[q].wf # v PROVE Holds(v, Wanted(v))'
      <4>1. Holds(v, Wanted(v))
        BY <3>1, <3>4, <3>6 DEF Bound
      <4> QED
        BY <2>2, <3>3, <4>1 DEF Holds
    <3> QED
      BY <3>5, <3>6 DEF Bound
  <2> QED
    BY <2>1, <2>2
<1> QED
  BY <1>3, <1>4 DEF BindInv

\* A request that starts finds its workflow bound as its row says.
LEMMA BindRequest ==
    ASSUME Typed, NEW p \in Callers, CallsApart', BindInv, NEW w \in Workflows,
           Activate(p, w) \/ Stage(p, w) \/ Deactivate(p, w) \/ Kill(p, w) \/ UpdateMeta(p, w)
             \/ \E E \in EntrySets : Edit(p, w, E)
    PROVE  BindInv'
<1>1. call[p].at = "idle" /\ w \notin deleted /\ w # NoWf
        /\ UNCHANGED <<rows, registry, report, settle>>
  BY NoneAssumption DEF Activate, Stage, Deactivate, Kill, UpdateMeta, Edit, Start
<1>2. call[p].wf = NoWf
  BY <1>1, IdleNone DEF BindInv
<1>3. excused \subseteq excused'
  BY DEF Activate, Stage, Deactivate, Kill, UpdateMeta, Edit
<1>4. MarksExcused' /\ DropsExcused'
  BY <1>1, <1>3 DEF BindInv, MarksExcused, DropsExcused, registry
<1>5. ASSUME NEW o, Continue(p, o), CallSound(o)', o.wf = w, Expected(w, o)' = Wanted(w)
      PROVE  BindInv'
  <2>1. call'[p] = o /\ \A q \in Callers \ {p} : call'[q] = call[q]
    BY <1>5, NextCall
  <2>2. \A q \in Callers \ {p} : call[q].wf # w
    BY <1>1, <1>5, <2>1 DEF CallsApart
  <2>3. Holds(w, Wanted(w))
    BY <1>1, <1>2, <2>2 DEF BindInv, Bound
  <2>4. Holds(w, Expected(w, o))'
    BY <1>1, <1>3, <1>5, <2>3 DEF Holds, registry
  <2> QED
    BY <1>1, <1>2, <1>3, <1>4, <1>5, <2>2, <2>4, BindFrame DEF rows, registry
<1>6. CASE Activate(p, w)
  <2>0. PICK o : o = [[IdleCall EXCEPT !.at = "attach", !.on = entry[w]] EXCEPT !.op = "activate", !.wf = w]
    OBVIOUS
  <2>1. Continue(p, o)
    BY <1>6, <2>0 DEF Activate, Start, Continue
  <2>2. o.wf = w /\ o.op = "activate" /\ o.at = "attach" /\ o.on = entry[w]
    BY <2>0 DEF IdleCall
  <2>3. CallSound(o)' /\ Expected(w, o)' = Wanted(w)
    BY <1>1, <1>6, <2>2 DEF CallSound, Expected, Activate, Runnable, rows, Wanted
  <2> QED
    BY <1>5, <2>1, <2>2, <2>3
<1>7. CASE Stage(p, w)
  <2>0. PICK o : o = [[IdleCall EXCEPT !.at = "attach", !.on = entry[w]] EXCEPT !.op = "stage", !.wf = w]
    OBVIOUS
  <2>1. Continue(p, o)
    BY <1>7, <2>0 DEF Stage, Start, Continue
  <2>2. o.wf = w /\ o.op = "stage" /\ o.at = "attach" /\ o.on = entry[w]
    BY <2>0 DEF IdleCall
  <2>3. CallSound(o)' /\ Expected(w, o)' = Wanted(w)
    BY <1>1, <1>7, <2>2 DEF CallSound, Expected, Stage, rows, Wanted
  <2> QED
    BY <1>5, <2>1, <2>2, <2>3
<1>8. CASE Deactivate(p, w) \/ Kill(p, w)
  <2>1. PICK a \in {"deactivate", "kill"} :
           Continue(p, [[IdleCall EXCEPT !.at = "detach", !.off = entry[w]] EXCEPT !.op = a, !.wf = w])
    BY <1>8 DEF Deactivate, Kill, Start, Continue
  <2>0. PICK o : o = [[IdleCall EXCEPT !.at = "detach", !.off = entry[w]] EXCEPT !.op = a, !.wf = w]
    OBVIOUS
  <2>2. o.wf = w /\ o.op = a /\ o.at = "detach" /\ o.off = entry[w]
    BY <2>0 DEF IdleCall
  <2>3. CallSound(o)' /\ Expected(w, o)' = Wanted(w)
    BY <1>1, <2>2 DEF CallSound, Expected, rows, Wanted
  <2> QED
    BY <1>5, <2>0, <2>1, <2>2, <2>3
<1>9. CASE UpdateMeta(p, w)
  <2>0. PICK o : o = [[IdleCall EXCEPT !.at = "save", !.refs = entry[w], !.read = life[w]]
                     EXCEPT !.op = "meta", !.wf = w]
    OBVIOUS
  <2>1. Continue(p, o)
    BY <1>9, <2>0 DEF UpdateMeta, Start, Continue
  <2>2. o.wf = w /\ o.op = "meta" /\ o.at = "save" /\ o.refs = entry[w] /\ o.read = life[w]
    BY <2>0 DEF IdleCall
  <2>3. CallSound(o)' /\ Expected(w, o)' = Wanted(w)
    BY <1>1, <2>2 DEF CallSound, Expected, rows, Wanted
  <2> QED
    BY <1>5, <2>1, <2>2, <2>3
<1>10. ASSUME NEW E \in EntrySets, Edit(p, w, E) PROVE BindInv'
  <2>0. PICK o : o = [[IdleCall EXCEPT !.at = "point", !.off = entry[w] \ E,
                                    !.on = E \ entry[w], !.refs = E, !.read = life[w]]
                     EXCEPT !.op = "edit", !.wf = w]
    OBVIOUS
  <2>1. Continue(p, o)
    BY <1>10, <2>0 DEF Edit, Start, Continue
  <2>2. /\ o.wf = w /\ o.op = "edit" /\ o.at = "point" /\ o.refs = E /\ o.read = life[w]
        /\ o.off = entry[w] \ E /\ o.on = E \ entry[w]
    BY <2>0 DEF IdleCall
  <2>3. CallSound(o)' /\ Expected(w, o)' = Wanted(w)
    BY <1>1, <2>2 DEF CallSound, Expected, rows, Wanted
  <2> QED
    BY <1>5, <2>1, <2>2, <2>3
<1> QED
  BY <1>6, <1>7, <1>8, <1>9, <1>10

\* Steps of a call that touch neither registry nor excuses.
LEMMA BindRowStep ==
    ASSUME Typed, NEW p \in Callers, CallsApart, BindInv,
           Point(p) \/ SaveRow(p) \/ CountRunning(p) \/ KillRuns(p) \/ RebindNew(p)
             \/ Attached(p) \/ SetLifecycle(p)
    PROVE  BindInv'
<1>1. call[p].wf \in Workflows /\ call[p] \in CallRecord
  BY Parts DEF Point, SaveRow, CountRunning, KillRuns, RebindNew, Detached, Attached, SetLifecycle
<1>2. PICK w \in Workflows, c \in CallRecord : call[p] = c /\ c.wf = w
  BY <1>1
<1>3. w # NoWf /\ CallSound(c) /\ (w \notin deleted => Holds(w, Expected(w, c)))
        /\ \A q \in Callers \ {p} : call[q].wf # w
  BY <1>2, NoneAssumption DEF BindInv, Bound, CallsApart
<1>4. UNCHANGED <<registry, report, deleted, gone, excused>>
  BY DEF Point, SaveRow, CountRunning, KillRuns, RebindNew, Attached, SetLifecycle, rows, history
<1>5. MarksExcused' /\ DropsExcused'
  BY <1>4 DEF BindInv, MarksExcused, DropsExcused, registry
<1>6. \A v \in Workflows \ {w} : life'[v] = life[v] /\ entry'[v] = entry[v]
  BY <1>2, Parts DEF Point, SaveRow, CountRunning, KillRuns, RebindNew, Attached, SetLifecycle, rows
<1>7. ASSUME NEW o, Continue(p, o), CallSound(o)', o.wf \in {w, NoWf},
             w \notin deleted => Expected(w, o)' = Expected(w, c)
      PROVE  BindInv'
  <2>2. w \notin deleted => Holds(w, Expected(w, o))'
    BY <1>3, <1>4, <1>7 DEF Holds, registry
  <2> QED
    BY <1>2, <1>3, <1>4, <1>5, <1>6, <1>7, <2>2, BindFrame DEF registry
<1>8. CallSound(IdleCall)' /\ IdleCall.wf = NoWf
  BY DEF CallSound, IdleCall
<1>9. ASSUME Return(p), w \notin deleted => Wanted(w)' = Expected(w, c) PROVE BindInv'
  <2>1. Expected(w, IdleCall)' = Wanted(w)'
    BY <1>3, <1>8 DEF Expected
  <2> QED
    BY <1>7, <1>8, <1>9, <2>1 DEF Return
<1>10. life \in [Workflows -> Lives] /\ entry \in [Workflows -> SUBSET Triggers]
  BY Parts
<1>11. c.op \in Ops \cup {"none"}
  BY DEF CallRecord
<1>12. CASE Point(p)
  <2>1. /\ c.at = "point" /\ c.op = "edit"
        /\ life' = life /\ gone' = gone /\ entry'[w] = c.refs
    BY <1>2, <1>3, <1>10, <1>11, <1>12 DEF Point, CallSound, Ops
  <2>2. /\ c.off = entry[w] \ c.refs /\ c.on = c.refs \ entry[w]
        /\ c.read = "active" <=> life[w] = "active"
    BY <1>2, <1>3, <2>1 DEF CallSound
  <2>3. ASSUME NEW a \in {"detach", "save"}, a = "detach" => c.read = "active",
               Continue(p, [c EXCEPT !.at = a])
        PROVE  BindInv'
    <3>0. PICK o : o = [c EXCEPT !.at = a]
      OBVIOUS
    <3>1. /\ o.wf = w /\ o.op = "edit" /\ o.at = a /\ o.refs = c.refs /\ o.read = c.read
          /\ o.off = c.off /\ o.on = c.on
      BY <1>2, <2>1, <3>0 DEF CallRecord
    <3>2. CallSound(o)'
      BY <1>3, <2>1, <2>2, <2>3, <3>1 DEF CallSound
    <3>3. Expected(w, o)' = Expected(w, c)
      BY <1>2, <1>10, <2>1, <2>2, <2>3, <3>1 DEF Expected, Wanted
    <3> QED
      BY <1>7, <2>3, <3>0, <3>1, <3>2, <3>3
  <2>4. ASSUME Return(p), c.read # "active" PROVE BindInv'
    BY <1>2, <1>9, <2>1, <2>2, <2>4 DEF Expected, Wanted
  <2> QED
    BY <1>2, <1>12, <2>3, <2>4 DEF Point, Rebind
<1>13. CASE SaveRow(p)
  <2>1. /\ c.at = "save" /\ c.op \in {"edit", "meta"} /\ c.refs = entry[w]
        /\ c.read = "active" <=> life[w] = "active"
        /\ gone' = gone /\ entry'[w] = c.refs /\ life'[w] = c.read
    BY <1>2, <1>3, <1>10, <1>11, <1>13 DEF SaveRow, CallSound, Ops
  <2>2. Wanted(w)' = Wanted(w)
    BY <2>1 DEF Wanted
  <2>3. c.op = "edit" => c.off \cap entry[w] = {} /\ c.on \subseteq entry[w]
    BY <1>3, <2>1, <1>2 DEF CallSound
  <2>4. CASE c.op = "edit" /\ c.read = "active"
    <3>0. PICK o : o = [c EXCEPT !.at = "detach"]
      OBVIOUS
    <3>1. /\ o.wf = w /\ o.op = "edit" /\ o.at = "detach" /\ o.refs = c.refs /\ o.read = c.read
          /\ o.off = c.off /\ o.on = c.on
      BY <1>2, <2>4, <3>0 DEF CallRecord
    <3>2. CallSound(o)'
      BY <1>3, <2>1, <2>3, <2>4, <3>1 DEF CallSound
    <3>3. Expected(w, o)' = Expected(w, c)
      BY <1>2, <2>1, <2>4, <3>1 DEF Expected
    <3>4. Continue(p, o)
      BY <1>2, <1>13, <2>4, <3>0 DEF SaveRow, Rebind
    <3> QED
      BY <1>7, <3>1, <3>2, <3>3, <3>4
  <2>5. CASE c.op = "edit" /\ c.read # "active"
    BY <1>2, <1>9, <1>13, <2>1, <2>2, <2>5 DEF SaveRow, Rebind, Expected, Wanted
  <2>6. CASE c.op = "meta"
    BY <1>2, <1>9, <1>13, <2>1, <2>2, <2>6 DEF SaveRow, Expected
  <2> QED
    BY <2>1, <2>4, <2>5, <2>6
<1>14. CASE CountRunning(p) \/ KillRuns(p)
  <2>1. /\ c.at = "detach" /\ c.op \in {"deactivate", "kill"} /\ c.off = {}
        /\ life' = life /\ entry' = entry /\ gone' = gone
    BY <1>2, <1>14 DEF CountRunning, KillRuns, Detached, rows
  <2>2. PICK l \in {"draining", "inactive"} :
           Continue(p, [c EXCEPT !.at = "lifecycle", !.read = l])
    BY <1>2, <1>14 DEF CountRunning, KillRuns
  <2>3. PICK o : o = [c EXCEPT !.at = "lifecycle", !.read = l]
    OBVIOUS
  <2>4. o.wf = w /\ o.op = c.op /\ o.at = "lifecycle" /\ o.read = l
    BY <1>2, <2>3 DEF CallRecord
  <2>5. CallSound(o)'
    BY <1>3, <2>1, <2>4 DEF CallSound
  <2>6. Expected(w, o)' = Expected(w, c)
    BY <1>2, <2>1, <2>4 DEF Expected
  <2> QED
    BY <1>7, <2>2, <2>3, <2>4, <2>5, <2>6
<1>15. CASE RebindNew(p)
  <2>1. /\ c.at = "detach" /\ c.op = "edit" /\ c.off = {}
        /\ life' = life /\ entry' = entry /\ gone' = gone
    BY <1>2, <1>15 DEF RebindNew, Detached, rows
  <2>2. PICK o : o = [c EXCEPT !.at = "attach"]
    OBVIOUS
  <2>3. /\ o.wf = w /\ o.op = "edit" /\ o.at = "attach" /\ o.refs = c.refs /\ o.read = c.read
        /\ o.off = c.off /\ o.on = c.on
    BY <1>2, <2>1, <2>2 DEF CallRecord
  <2>4. CallSound(o)'
    BY <1>2, <1>3, <2>1, <2>3 DEF CallSound
  <2>5. Expected(w, o)' = Expected(w, c)
    BY <1>2, <2>1, <2>3 DEF Expected
  <2> QED
    BY <1>2, <1>7, <1>15, <2>2, <2>3, <2>4, <2>5 DEF RebindNew
<1>16. CASE Attached(p)
  <2>1. /\ c.at = "attach" /\ c.on = {} /\ c.op \in {"activate", "stage", "edit"}
        /\ life' = life /\ entry' = entry /\ gone' = gone
    BY <1>2, <1>3, <1>11, <1>16 DEF Attached, CallSound, rows, Ops
  <2>2. CASE c.op = "activate"
    <3>1. PICK o : o = [c EXCEPT !.at = "lifecycle", !.read = "active"]
      OBVIOUS
    <3>2. o.wf = w /\ o.op = "activate" /\ o.at = "lifecycle" /\ o.read = "active" /\ o.on = c.on
      BY <1>2, <2>2, <3>1 DEF CallRecord
    <3>3. CallSound(o)'
      BY <1>2, <1>3, <2>1, <2>2, <3>2 DEF CallSound
    <3>4. Expected(w, o)' = Expected(w, c)
      BY <1>2, <2>1, <2>2, <3>2 DEF Expected, Wanted
    <3> QED
      BY <1>2, <1>7, <1>16, <2>2, <3>1, <3>2, <3>3, <3>4 DEF Attached
  <2>3. CASE c.op = "stage"
    <3>1. life[w] # "active"
      BY <1>2, <1>3, <2>3 DEF CallSound
    <3> QED
      BY <1>2, <1>9, <1>16, <2>1, <2>3, <3>1 DEF Attached, Expected, Wanted
  <2>4. CASE c.op = "edit"
    <3>1. life[w] = "active" /\ c.read = "active" /\ c.off = {}
      BY <1>2, <1>3, <2>1, <2>4 DEF CallSound
    <3> QED
      BY <1>2, <1>9, <1>16, <2>1, <2>4, <3>1 DEF Attached, Expected, Wanted
  <2> QED
    BY <2>1, <2>2, <2>3, <2>4
<1>17. CASE SetLifecycle(p)
  <2>1. /\ c.at = "lifecycle" /\ c.op \in {"activate", "deactivate", "kill"}
        /\ entry' = entry /\ gone' = gone /\ Return(p)
        /\ w \notin deleted => life'[w] = c.read
    BY <1>2, <1>3, <1>10, <1>11, <1>17 DEF SetLifecycle, CallSound, Ops
  <2>2. CASE c.op = "activate"
    <3>1. c.read = "active"
      BY <1>2, <1>3, <2>1, <2>2 DEF CallSound
    <3> QED
      BY <1>2, <1>9, <2>1, <2>2, <3>1 DEF Expected, Wanted
  <2>3. CASE c.op \in {"deactivate", "kill"}
    <3>1. c.read # "active"
      BY <1>2, <1>3, <2>1, <2>3 DEF CallSound
    <3> QED
      BY <1>2, <1>9, <2>1, <2>3, <3>1 DEF Expected, Wanted
  <2> QED
    BY <2>1, <2>2, <2>3
<1> QED
  BY <1>12, <1>13, <1>14, <1>15, <1>16, <1>17

\* Steps of a call that detach or attach, one trigger at a time.
LEMMA BindDetachOne ==
    ASSUME Typed, NEW p \in Callers, CallsApart, BindInv, NEW t \in Triggers, DetachOne(p, t)
    PROVE  BindInv'
<1>1. call[p].wf \in Workflows /\ call[p] \in CallRecord
  BY Parts DEF DetachOne
<1>2. PICK w \in Workflows, c \in CallRecord : call[p] = c /\ c.wf = w
  BY <1>1
<1>3. w # NoWf /\ CallSound(c) /\ (w \notin deleted => Holds(w, Expected(w, c)))
        /\ \A q \in Callers \ {p} : call[q].wf # w
  BY <1>2, NoneAssumption DEF BindInv, Bound, CallsApart
<1>4. /\ c.at = "detach" /\ t \in c.off /\ Detach(t, w)
      /\ Continue(p, [c EXCEPT !.off = c.off \ {t}])
      /\ UNCHANGED <<rows, report>>
  BY <1>2 DEF DetachOne
<1>5. c.op \in {"deactivate", "kill", "edit"}
  BY <1>3, <1>4 DEF CallSound, CallRecord, Ops
<1>6. PICK o : o = [c EXCEPT !.off = c.off \ {t}]
  OBVIOUS
<1>7. /\ o.wf = w /\ o.op = c.op /\ o.at = "detach" /\ o.refs = c.refs /\ o.read = c.read
      /\ o.off = c.off \ {t} /\ o.on = c.on
  BY <1>2, <1>4, <1>6 DEF CallRecord
<1>8. Continue(p, o)
  BY <1>4, <1>6
<1>9. CallSound(o)'
  BY <1>2, <1>3, <1>4, <1>5, <1>7 DEF CallSound, rows
<1>10. \A v \in Workflows, u \in Triggers :
          /\ v \in workflows'[u] <=> v \in workflows[u] /\ <<v, u>> # <<w, t>>
          /\ v \in once'[u] => v \in once[u] /\ <<v, u>> # <<w, t>>
  BY <1>4, Parts DEF Detach
<1>11. \A v \in Workflows, u \in Triggers : <<v, u>> \in excused /\ <<v, u>> # <<w, t>>
                                              => <<v, u>> \in excused'
  BY <1>2 DEF DetachOne
<1>12. Wanted(w)' = Wanted(w) /\ t \notin Expected(w, o)'
       /\ \A u \in Triggers : u # t => (u \in Expected(w, o)' <=> u \in Expected(w, c))
  <2>1. Wanted(w)' = Wanted(w)
    BY <1>4 DEF Wanted, rows
  <2>2. CASE c.op \in {"deactivate", "kill"}
    BY <1>2, <1>4, <1>7, <2>1, <2>2 DEF Expected
  <2>3. CASE c.op = "edit"
    <3>1. c.off \cap entry[w] = {} /\ c.read = "active"
      BY <1>2, <1>3, <1>4, <2>3 DEF CallSound
    <3>2. /\ Expected(w, o)' = ((entry[w] \ c.on) \cup (c.off \ {t})) \ gone
          /\ Expected(w, c) = ((entry[w] \ c.on) \cup c.off) \ gone
      BY <1>2, <1>4, <1>7, <2>3, <3>1 DEF Expected, rows
    <3> QED
      BY <1>4, <2>1, <3>1, <3>2
  <2> QED
    BY <1>5, <2>2, <2>3
<1>13. w \notin deleted => Holds(w, Expected(w, o))'
  BY <1>3, <1>10, <1>11, <1>12 DEF Holds
<1>14. MarksExcused'
  <2>1. once' \in [Triggers -> SUBSET Workflows]
    BY <1>4, DetachType
  <2> QED
    BY <1>10, <1>11, <2>1 DEF BindInv, MarksExcused
<1>15. DropsExcused'
  <2>1. ASSUME NEW r \in Reporters, report[r].at = "detach", NEW v \in report[r].drop
        PROVE  <<v, report[r].trigger>> \in excused'
    <3>1. <<v, report[r].trigger>> \in excused
      BY <2>1 DEF BindInv, DropsExcused
    <3>2. v \in Workflows /\ report[r].trigger \in Triggers
      BY <2>1, Parts DEF ReportRecord
    <3>3. CASE v = w /\ report[r].trigger = t
      BY <1>2, <2>1, <3>1, <3>3 DEF DetachOne
    <3> QED
      BY <1>11, <3>1, <3>2, <3>3
  <2> QED
    BY <1>4, <2>1 DEF DropsExcused
<1> QED
  BY <1>2, <1>3, <1>4, <1>7, <1>8, <1>9, <1>10, <1>11, <1>13, <1>14, <1>15, BindFrame DEF rows

LEMMA BindAttachOne ==
    ASSUME Typed, NEW p \in Callers, CallsApart, BindInv, NEW t \in Triggers, AttachOne(p, t)
    PROVE  BindInv'
<1>1. call[p].wf \in Workflows /\ call[p] \in CallRecord
  BY Parts DEF AttachOne
<1>2. PICK w \in Workflows, c \in CallRecord : call[p] = c /\ c.wf = w
  BY <1>1
<1>3. w # NoWf /\ CallSound(c) /\ (w \notin deleted => Holds(w, Expected(w, c)))
        /\ \A q \in Callers \ {p} : call[q].wf # w
  BY <1>2, NoneAssumption DEF BindInv, Bound, CallsApart
<1>4. /\ c.at = "attach" /\ t \in c.on \ gone /\ Attach(t, w, c.op = "stage")
      /\ Continue(p, [c EXCEPT !.on = c.on \ {t}])
      /\ UNCHANGED <<rows, report, excused>>
  BY <1>2 DEF AttachOne, history
<1>5. c.op \in {"activate", "stage", "edit"} /\ t \in entry[w]
  BY <1>2, <1>3, <1>4 DEF CallSound, CallRecord, Ops
<1>6. PICK o : o = [c EXCEPT !.on = c.on \ {t}]
  OBVIOUS
<1>7. /\ o.wf = w /\ o.op = c.op /\ o.at = "attach" /\ o.refs = c.refs /\ o.read = c.read
      /\ o.off = c.off /\ o.on = c.on \ {t}
  BY <1>2, <1>4, <1>6 DEF CallRecord
<1>8. Continue(p, o)
  BY <1>4, <1>6
<1>9. CallSound(o)'
  BY <1>2, <1>3, <1>4, <1>5, <1>7 DEF CallSound, rows
<1>10. \A v \in Workflows, u \in Triggers :
          /\ v \in workflows'[u] <=> v \in workflows[u] \/ <<v, u>> = <<w, t>>
          /\ v \in once'[u] => v \in once[u] \/ (c.op = "stage" /\ <<v, u>> = <<w, t>>)
  BY <1>4, Parts DEF Attach
<1>11. c.op = "stage" => <<w, t>> \in excused /\ Expected(w, o)' = {} /\ Expected(w, c) = {}
  BY <1>2, <1>3, <1>5, <1>7 DEF CallSound, Expected
<1>12. c.op # "stage" => /\ t \in Expected(w, o)'
                         /\ \A u \in Triggers : u # t => (u \in Expected(w, o)' <=> u \in Expected(w, c))
  <2>1. Wanted(w)' = Wanted(w)
    BY <1>4 DEF Wanted, rows
  <2>2. CASE c.op = "activate"
    BY <1>2, <1>4, <1>5, <1>7, <2>1, <2>2 DEF Expected, rows
  <2>3. CASE c.op = "edit"
    <3>1. c.read = "active"
      BY <1>2, <1>3, <1>4, <2>3 DEF CallSound
    <3>2. /\ Expected(w, o)' = ((entry[w] \ (c.on \ {t})) \cup c.off) \ gone
          /\ Expected(w, c) = ((entry[w] \ c.on) \cup c.off) \ gone
      BY <1>2, <1>4, <1>7, <2>3, <3>1 DEF Expected, rows
    <3> QED
      BY <1>4, <1>5, <3>2
  <2> QED
    BY <1>5, <2>2, <2>3
<1>13. w \notin deleted => Holds(w, Expected(w, o))'
  BY <1>3, <1>4, <1>10, <1>11, <1>12 DEF Holds
<1>14. MarksExcused'
  <2>1. once' \in [Triggers -> SUBSET Workflows]
    BY <1>4, AttachType
  <2> QED
    BY <1>4, <1>10, <1>11, <2>1 DEF BindInv, MarksExcused
<1>15. DropsExcused'
  BY <1>4 DEF BindInv, DropsExcused
<1> QED
  BY <1>2, <1>3, <1>4, <1>7, <1>8, <1>9, <1>10, <1>13, <1>14, <1>15, BindFrame DEF rows

LEMMA BindAttachFails ==
    ASSUME Typed, NEW p \in Callers, CallsApart, BindInv, NEW t \in Triggers, AttachFails(p, t)
    PROVE  BindInv'
<1>1. call[p].wf \in Workflows /\ call[p] \in CallRecord
  BY Parts DEF AttachFails
<1>2. PICK w \in Workflows, c \in CallRecord : call[p] = c /\ c.wf = w
  BY <1>1
<1>3. w # NoWf /\ CallSound(c) /\ (w \notin deleted => Holds(w, Expected(w, c)))
        /\ \A q \in Callers \ {p} : call[q].wf # w
  BY <1>2, NoneAssumption DEF BindInv, Bound, CallsApart
<1>4. /\ c.at = "attach" /\ t \in c.on
      /\ excused' = excused \cup {<<w, u>> : u \in entry[w]}
      /\ UNCHANGED <<rows, workflows, once, report>>
  BY <1>2 DEF AttachFails
<1>5. c.op \in {"activate", "stage", "edit"} /\ entry[w] \in SUBSET Triggers
  BY <1>2, <1>3, <1>4, Parts DEF CallSound, CallRecord, Ops
<1>6. MarksExcused' /\ DropsExcused'
  BY <1>4 DEF BindInv, MarksExcused, DropsExcused
<1>7. ASSUME NEW o, Continue(p, o), CallSound(o)', o.wf \in {w, NoWf},
             \A u \in Triggers \ entry[w] : u \in Expected(w, o)' <=> u \in Expected(w, c)
      PROVE  BindInv'
  <2>2. w \notin deleted => Holds(w, Expected(w, o))'
    BY <1>3, <1>4, <1>7 DEF Holds
  <2> QED
    BY <1>2, <1>3, <1>4, <1>6, <1>7, <2>2, BindFrame DEF rows
<1>8. Wanted(w)' = Wanted(w) /\ Wanted(w) \subseteq entry[w]
  BY <1>4 DEF Wanted, rows
<1>9. CASE c.op = "edit"
  <2>1. PICK o : o = [c EXCEPT !.on = c.on \ {t}]
    OBVIOUS
  <2>2. /\ o.wf = w /\ o.op = "edit" /\ o.at = "attach" /\ o.refs = c.refs /\ o.read = c.read
        /\ o.off = c.off /\ o.on = c.on \ {t}
    BY <1>2, <1>4, <1>9, <2>1 DEF CallRecord
  <2>3. CallSound(o)'
    BY <1>2, <1>3, <1>4, <1>9, <2>2 DEF CallSound, rows
  <2>4. c.read = "active"
    BY <1>2, <1>3, <1>4, <1>9 DEF CallSound
  <2>5. /\ Expected(w, o)' = ((entry[w] \ (c.on \ {t})) \cup c.off) \ gone
        /\ Expected(w, c) = ((entry[w] \ c.on) \cup c.off) \ gone
    BY <1>2, <1>4, <1>9, <2>2, <2>4 DEF Expected, rows
  <2>6. Continue(p, o)
    BY <1>2, <1>9, <2>1 DEF AttachFails
  <2> QED
    BY <1>7, <2>2, <2>3, <2>5, <2>6
<1>10. CASE c.op \in {"activate", "stage"}
  <2>1. Return(p)
    BY <1>2, <1>10 DEF AttachFails
  <2>2. CallSound(IdleCall)' /\ IdleCall.wf = NoWf
    BY DEF CallSound, IdleCall
  <2>3. Expected(w, IdleCall)' = Wanted(w)
    BY <1>3, <1>8, <2>2 DEF Expected
  <2>4. Expected(w, c) \subseteq entry[w]
    BY <1>2, <1>4, <1>8, <1>10 DEF Expected
  <2> QED
    BY <1>7, <1>8, <2>1, <2>2, <2>3, <2>4 DEF Return
<1> QED
  BY <1>5, <1>9, <1>10

\* What leaves the calls and the rows' bindings alone.
LEMMA BindKeep ==
    ASSUME Typed, BindInv, call' = call,
           entry' = entry, gone' = gone, deleted \subseteq deleted',
           \A w \in Workflows : life'[w] = "active" <=> life[w] = "active",
           \A w \in Workflows, t \in Triggers :
               (w \in workflows'[t] <=> w \in workflows[t]) \/ <<w, t>> \in excused',
           excused' = excused, MarksExcused', DropsExcused'
    PROVE  BindInv'
<1>1. \A q \in Callers : call[q].wf \in Workflows \cup {NoWf}
  BY Parts DEF CallRecord
<1>2. ASSUME NEW q \in Callers PROVE CallSound(call[q])'
  <2>1. PICK c : c = call[q]
    OBVIOUS
  <2>2. CallSound(c) /\ (c.wf # NoWf => c.wf \in Workflows)
    BY <1>1, <2>1 DEF BindInv
  <2>3. CallSound(c)'
    BY <2>2, SameSound
  <2> QED
    BY <2>1, <2>3
<1>3. ASSUME NEW v \in Workflows \ deleted' PROVE Bound(v)'
  <2>1. Bound(v)
    BY DEF BindInv
  <2>2. Wanted(v)' = Wanted(v) /\ \A c : Expected(v, c)' = Expected(v, c)
    BY SameExpected
  <2>3. ASSUME NEW q \in Callers, call'[q].wf = v PROVE Holds(v, Expected(v, call[q]))'
    <3>1. PICK c : c = call[q]
      OBVIOUS
    <3>2. Holds(v, Expected(v, c)) /\ call'[q] = c
      BY <2>1, <2>3, <3>1 DEF Bound
    <3>3. Holds(v, Expected(v, c))'
      BY <2>2, <3>2 DEF Holds
    <3> QED
      BY <3>2, <3>3
  <2>4. ASSUME \A q \in Callers : call'[q].wf # v PROVE Holds(v, Wanted(v))'
    BY <2>1, <2>2, <2>4 DEF Bound, Holds
  <2> QED
    BY <2>3, <2>4 DEF Bound
<1> QED
  BY <1>2, <1>3 DEF BindInv

\* A step of a report: only an excused binding is dropped.
LEMMA BindReport ==
    ASSUME Typed, BindInv, NEW r \in Reporters,
           (\E t \in Triggers : Report(r, t)) \/ ReportStep(r)
    PROVE  BindInv'
<1>2. \A w \in Workflows, t \in Triggers : w \in workflows[t] <=> w \in workflows[t]
  OBVIOUS
<1>3. ASSUME UNCHANGED <<life, entry, gone, deleted, registry, call, excused>>, DropsExcused'
      PROVE  BindInv'
  <2>1. MarksExcused'
    BY <1>3 DEF BindInv, MarksExcused, registry
  <2> QED
    BY <1>3, <2>1, BindKeep DEF registry
<1>4. ASSUME NEW t \in Triggers, Report(r, t) PROVE BindInv'
  <2>1. DropsExcused'
    BY <1>4, Parts DEF Report, BindInv, DropsExcused
  <2> QED
    BY <1>3, <1>4, <2>1 DEF Report, rows
<1>5. ASSUME NEW w \in Workflows, AppendFiring(r, w) PROVE BindInv'
  <2>1. \A q \in Reporters : /\ report'[q].at = report[q].at /\ report'[q].drop = report[q].drop
                             /\ report'[q].trigger = report[q].trigger
    BY <1>5, Parts DEF AppendFiring, ReportRecord
  <2>2. DropsExcused'
    BY <1>5, <2>1 DEF AppendFiring, BindInv, DropsExcused, history
  <2> QED
    BY <1>3, <1>5, <2>2 DEF AppendFiring, history
<1>6. CASE CollectOneShots(r)
  <2>1. /\ report'[r].drop = report[r].drop \cap once[report[r].trigger]
        /\ report'[r].trigger = report[r].trigger
        /\ \A q \in Reporters \ {r} : report'[q] = report[q]
    BY <1>6, Parts DEF CollectOneShots, ReportRecord
  <2>2. report[r].trigger \in Triggers
    BY <1>6, Parts DEF CollectOneShots
  <2>3. excused' = excused
    BY <1>6 DEF CollectOneShots, history
  <2>4. \A w \in report'[r].drop : <<w, report'[r].trigger>> \in excused
    BY <2>1, <2>2 DEF BindInv, MarksExcused
  <2>5. ASSUME NEW q \in Reporters, report'[q].at = "detach", q # r
        PROVE  \A w \in report'[q].drop : <<w, report'[q].trigger>> \in excused
    BY <2>1, <2>5 DEF BindInv, DropsExcused
  <2>6. DropsExcused'
    BY <2>3, <2>4, <2>5 DEF DropsExcused
  <2> QED
    BY <1>3, <1>6, <2>6 DEF CollectOneShots, history, rows
<1>7. CASE EndReport(r)
  <2>1. /\ report'[r].at = "idle"
        /\ \A q \in Reporters \ {r} : report'[q] = report[q]
    BY <1>7, Parts DEF EndReport, IdleReport
  <2>2. DropsExcused'
    BY <1>7, <2>1 DEF EndReport, BindInv, DropsExcused, history
  <2> QED
    BY <1>3, <1>7, <2>2 DEF EndReport, history, rows
<1>8. ASSUME NEW w \in Workflows, DetachOneShot(r, w) PROVE BindInv'
  <2>1. PICK t \in Triggers : t = report[r].trigger
    BY <1>8, Parts DEF DetachOneShot
  <2>2. <<w, t>> \in excused /\ Detach(t, w) /\ excused' = excused
    BY <1>8, <2>1 DEF DetachOneShot, BindInv, DropsExcused, history
  <2>3. \A v \in Workflows, u \in Triggers :
           /\ v \in workflows'[u] <=> v \in workflows[u] /\ <<v, u>> # <<w, t>>
           /\ v \in once'[u] => v \in once[u]
    BY <2>2, Parts DEF Detach
  <2>4. MarksExcused'
    <3>1. once' \in [Triggers -> SUBSET Workflows]
      BY <2>2, DetachType
    <3> QED
      BY <2>2, <2>3, <3>1 DEF BindInv, MarksExcused
  <2>5. \A q \in Reporters : /\ report'[q].at = report[q].at /\ report'[q].trigger = report[q].trigger
                             /\ report'[q].drop \subseteq report[q].drop
    BY <1>8, Parts DEF DetachOneShot, ReportRecord
  <2>6. DropsExcused'
    BY <2>2, <2>5 DEF BindInv, DropsExcused
  <2>7. UNCHANGED <<life, entry, gone, deleted, call>>
    BY <1>8 DEF DetachOneShot, rows
  <2> QED
    BY <2>2, <2>3, <2>4, <2>6, <2>7, BindKeep
<1> QED
  BY <1>4, <1>5, <1>6, <1>7, <1>8 DEF ReportStep

\* Everything else: restarts and deletions of triggers, deletions, runs, crashes.
LEMMA BindRest ==
    ASSUME Typed, BindInv,
           \/ \E p \in Callers : RestartListener(p)
           \/ \E p \in Callers, t \in Triggers : EditTrigger(p, t) \/ DeleteTrigger(p, t)
           \/ \E w \in Workflows : Delete(w) \/ Claim(w)
           \/ \E s \in Settlers, w \in Workflows : EndRun(s, w)
           \/ \E s \in Settlers : CountSettled(s) \/ MarkInactiveIfDraining(s)
           \/ \E F \in SUBSET Triggers : CrashAndBoot(F)
           \/ UNCHANGED vars
    PROVE  BindInv'
<1>1. \A q \in Callers : call[q].wf \in Workflows \cup {NoWf}
  BY Parts DEF CallRecord
<1>2. ASSUME UNCHANGED <<entry, gone, workflows, once, report, excused>>,
             deleted \subseteq deleted'
      PROVE  /\ MarksExcused' /\ DropsExcused'
             /\ \A w \in Workflows, t \in Triggers : w \in workflows'[t] <=> w \in workflows[t]
  BY <1>2 DEF BindInv, MarksExcused, DropsExcused
<1>3. ASSUME UNCHANGED <<life, entry, gone, workflows, once, call, report, excused>>,
             deleted \subseteq deleted'
      PROVE  BindInv'
  BY <1>2, <1>3, BindKeep
<1>4. ASSUME UNCHANGED <<life, entry, deleted, gone, workflows, once, report, excused>>,
             NEW p \in Callers, call[p].at \in {"idle", "restart"},
             NEW o, Continue(p, o), o.op = "none", o.wf = NoWf, o.at \in {"idle", "restart"}
      PROVE  BindInv'
  <2>1. call[p].wf = NoWf
    BY <1>4, IdleNone DEF BindInv
  <2>2. call'[p] = o /\ \A q \in Callers \ {p} : call'[q] = call[q]
    BY <1>4, NextCall
  <2>3. ASSUME NEW q \in Callers PROVE CallSound(call[q])'
    <3>1. PICK c : c = call'[q]
      OBVIOUS
    <3>2. CallSound(c)
      BY <1>4, <2>2, <3>1 DEF BindInv, CallSound
    <3>3. CallSound(c)'
      BY <1>4, <3>2, SameSound
    <3> QED
      BY <3>1, <3>3
  <2>4. ASSUME NEW v \in Workflows \ deleted PROVE Bound(v)'
    <3>1. Bound(v) /\ v # NoWf
      BY NoneAssumption DEF BindInv
    <3>2. \A q \in Callers : call'[q].wf = v \/ call[q].wf = v => call'[q] = call[q]
      BY <1>4, <2>1, <2>2, <3>1
    <3>3. Wanted(v)' = Wanted(v) /\ \A c : Expected(v, c)' = Expected(v, c)
      BY <1>4, SameExpected
    <3>4. ASSUME NEW q \in Callers, call'[q].wf = v PROVE Holds(v, Expected(v, call[q]))'
      <4>1. PICK c : c = call[q]
        OBVIOUS
      <4>2. Holds(v, Expected(v, c)) /\ call'[q] = c
        BY <3>1, <3>2, <3>4, <4>1 DEF Bound
      <4>3. Holds(v, Expected(v, c))'
        BY <1>4, <3>3, <4>2 DEF Holds
      <4> QED
        BY <4>2, <4>3
    <3>5. ASSUME \A q \in Callers : call'[q].wf # v PROVE Holds(v, Wanted(v))'
      BY <1>4, <3>1, <3>2, <3>3, <3>5 DEF Bound, Holds
    <3> QED
      BY <3>4, <3>5 DEF Bound
  <2> QED
    BY <1>2, <1>4, <2>3, <2>4 DEF BindInv
<1>5. ASSUME NEW p \in Callers, RestartListener(p) PROVE BindInv'
  <2>1. Continue(p, IdleCall) /\ call[p].at = "restart"
    BY <1>5 DEF RestartListener, Return
  <2> QED
    BY <1>4, <1>5, <2>1 DEF RestartListener, IdleCall, rows
<1>6. ASSUME NEW p \in Callers, NEW t \in Triggers, EditTrigger(p, t) PROVE BindInv'
  <2>1. PICK o : o = [IdleCall EXCEPT !.at = "restart", !.on = {t}]
    OBVIOUS
  <2>2. o.op = "none" /\ o.wf = NoWf /\ o.at = "restart"
    BY <2>1 DEF IdleCall
  <2>3. Continue(p, o) /\ call[p].at = "idle"
    BY <1>6, <2>1 DEF EditTrigger
  <2> QED
    BY <1>4, <1>6, <2>2, <2>3 DEF EditTrigger, rows, registry
<1>7. ASSUME NEW p \in Callers, NEW t \in Triggers, DeleteTrigger(p, t) PROVE BindInv'
  <2>1. /\ call' = call /\ report' = report /\ excused' = excused /\ gone' = gone \cup {t}
        /\ life' = life /\ entry' = entry /\ deleted' = deleted
    BY <1>7 DEF DeleteTrigger, routines
  <2>2. \A v \in Workflows, u \in Triggers :
           /\ v \in workflows'[u] <=> v \in workflows[u] /\ u # t
           /\ v \in once'[u] => v \in once[u]
    BY <1>7, Parts DEF DeleteTrigger
  <2>3. ASSUME NEW q \in Callers PROVE CallSound(call[q])'
    <3>1. PICK c : c = call[q]
      OBVIOUS
    <3>2. CallSound(c) /\ call'[q] = c
      BY <2>1, <3>1 DEF BindInv
    <3>3. CallSound(c)'
      BY <2>1, <3>2, SameSound
    <3> QED
      BY <3>2, <3>3
  <2>4. ASSUME NEW v \in Workflows \ deleted PROVE Bound(v)'
    <3>1. Bound(v) /\ Wanted(v)' = Wanted(v) \ {t}
      BY <2>1 DEF BindInv, Wanted
    <3>2. ASSUME NEW q \in Callers, call'[q].wf = v PROVE Holds(v, Expected(v, call[q]))'
      <4>1. PICK c \in CallRecord : c = call[q]
        BY Parts
      <4>2. Holds(v, Expected(v, c)) /\ call'[q] = c /\ c.wf = v
        BY <2>1, <3>1, <3>2, <4>1 DEF Bound
      <4>3. Expected(v, c)' = Expected(v, c) \ {t}
        BY <2>1, <3>1, <4>2 DEF Expected
      <4>4. Holds(v, Expected(v, c))'
        BY <2>1, <2>2, <4>2, <4>3 DEF Holds
      <4> QED
        BY <4>2, <4>4
    <3>3. ASSUME \A q \in Callers : call'[q].wf # v PROVE Holds(v, Wanted(v))'
      BY <2>1, <2>2, <3>1, <3>3 DEF Bound, Holds
    <3> QED
      BY <3>2, <3>3 DEF Bound
  <2>5. MarksExcused' /\ DropsExcused'
    <3>1. once' \in [Triggers -> SUBSET Workflows]
      BY <1>7, Parts DEF DeleteTrigger
    <3> QED
      BY <2>1, <2>2, <3>1 DEF BindInv, MarksExcused, DropsExcused
  <2> QED
    BY <2>1, <2>3, <2>4, <2>5 DEF BindInv
<1>8. ASSUME NEW w \in Workflows, Delete(w) \/ Claim(w) PROVE BindInv'
  BY <1>3, <1>8 DEF Delete, Claim, registry, routines, history
<1>9. ASSUME NEW s \in Settlers, (\E w \in Workflows : EndRun(s, w)) \/ CountSettled(s)
      PROVE  BindInv'
  BY <1>3, <1>9 DEF EndRun, CountSettled, rows, registry, history
<1>10. ASSUME NEW s \in Settlers, MarkInactiveIfDraining(s) PROVE BindInv'
  <2>1. \A w \in Workflows : life'[w] = "active" <=> life[w] = "active"
    BY <1>10, Parts DEF MarkInactiveIfDraining
  <2>2. UNCHANGED <<entry, deleted, gone, registry, call, report, excused>>
    BY <1>10 DEF MarkInactiveIfDraining, history
  <2> QED
    BY <1>2, <2>1, <2>2, BindKeep DEF registry
<1>11. ASSUME NEW F \in SUBSET Triggers, CrashAndBoot(F) PROVE BindInv'
  <2>1. /\ \A q \in Callers : call'[q] = IdleCall
        /\ \A r \in Reporters : report'[r].at = "idle"
        /\ UNCHANGED rows /\ once' = [t \in Triggers |-> {}]
    BY <1>11 DEF CrashAndBoot, IdleReport
  <2>2. MarksExcused' /\ DropsExcused'
    BY <2>1 DEF MarksExcused, DropsExcused
  <2>3. CallSound(IdleCall)' /\ IdleCall.wf = NoWf
    BY DEF CallSound, IdleCall
  <2>4. \A w \in Workflows \ deleted, t \in Triggers :
           w \in workflows'[t] <=> life[w] = "active" /\ t \in entry[w] \ (gone \cup F)
    BY <1>11 DEF CrashAndBoot
  <2>5. \A w \in Workflows, t \in Triggers :
           life[w] = "active" /\ t \in entry[w] /\ t \in F => <<w, t>> \in excused'
    BY <1>11 DEF CrashAndBoot
  <2>6. ASSUME NEW v \in Workflows \ deleted PROVE Bound(v)'
    <3>1. Holds(v, Wanted(v))'
      BY <2>1, <2>4, <2>5 DEF Holds, Wanted, rows
    <3>2. \A q \in Callers : call'[q].wf # v
      BY <2>1, <2>3, NoneAssumption
    <3> QED
      BY <3>1, <3>2 DEF Bound
  <2>7. ASSUME NEW q \in Callers PROVE CallSound(call[q])'
    BY <2>1, <2>3
  <2> QED
    BY <2>1, <2>2, <2>6, <2>7 DEF BindInv, rows
<1>12. CASE UNCHANGED vars
  BY <1>3, <1>12 DEF vars, rows, registry, routines, history
<1> QED
  BY <1>5, <1>6, <1>7, <1>8, <1>9, <1>10, <1>11, <1>12

\* Every step keeps the bindings as the calls that go on expect them.
LEMMA BindNext ==
    ASSUME Typed, CallsApart, CallsApart', BindInv, [Next]_vars
    PROVE  BindInv'
<1>1. ASSUME NEW p \in Callers, Step(p) PROVE BindInv'
  BY <1>1, BindRowStep, BindDetachOne, BindAttachOne, BindAttachFails DEF Step
<1>2. ASSUME NEW p \in Callers, NEW w \in Workflows,
             Activate(p, w) \/ Stage(p, w) \/ Deactivate(p, w) \/ Kill(p, w) \/ UpdateMeta(p, w)
               \/ \E E \in EntrySets : Edit(p, w, E)
      PROVE  BindInv'
  BY <1>2, BindRequest
<1>3. ASSUME NEW r \in Reporters, (\E t \in Triggers : Report(r, t)) \/ ReportStep(r)
      PROVE  BindInv'
  BY <1>3, BindReport
<1> QED
  BY <1>1, <1>2, <1>3, BindRest DEF Next

\* What is kept says what was promised of the workflows no call works on.
LEMMA BindFollow == BindInv => BindingsFollowLifecycle
<1>1. ASSUME BindInv, NEW w \in Workflows, Settled(w), NEW t \in Triggers
      PROVE  (w \in workflows[t] <=> t \in Wanted(w)) \/ <<w, t>> \in excused
  BY <1>1 DEF BindInv, Bound, Holds, Settled
<1> QED
  BY <1>1 DEF BindingsFollowLifecycle

\* While no two calls work on one workflow at a time, a workflow nobody is changing
\* listens to the triggers of its active graph when it is active and to none
\* otherwise, whatever calls about other workflows, changes of triggers, reports,
\* settling runs and restarts go on (execution.go rebindIfListening, lifecycle.go
\* attach and Detach).
THEOREM BindingsFollow == Spec /\ []CallsApart => []BindingsFollowLifecycle
<1>1. Init => Typed /\ BindInv
  BY InitType, BindInit
<1>2. Typed /\ BindInv /\ CallsApart /\ CallsApart' /\ [Next]_vars => Typed' /\ BindInv'
  BY NextType, BindNext
<1>3. Typed /\ BindInv => BindingsFollowLifecycle
  BY BindFollow
<1> QED
  BY <1>1, <1>2, <1>3, PTL DEF Spec

\* So it is when requests are served one at a time.
COROLLARY OneCallerFollows ==
    ASSUME NEW caller, Callers = {caller}
    PROVE  Spec => []BindingsFollowLifecycle
<1>1. CallsApart
  BY DEF CallsApart
<1> QED
  BY <1>1, BindingsFollow, PTL
=============================================================================
