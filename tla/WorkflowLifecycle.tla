-------------------------- MODULE WorkflowLifecycle --------------------------
(***************************************************************************)
(* Which workflows listen to which triggers. The workflow service keeps    *)
(* the lifecycle and the active graph in the database (app/workflow/       *)
(* execution.go, crud.go); the trigger service keeps the reference-counted *)
(* registry in memory and fans reports out (app/trigger/lifecycle.go,      *)
(* report.go); the scheduler completes a drain when the last run settles   *)
(* (app/scheduler/kill.go). No lock spans two of them: a call is a         *)
(* sequence of database statements and of registry operations, each atomic *)
(* under Service.mu, between which reports, settling runs and other calls  *)
(* go on.                                                                  *)
(***************************************************************************)
EXTENDS Naturals, FiniteSets

CONSTANTS
    Workflows,
    Triggers,
    NoWf, NoTrigger,
    Entry,      \* workflow -> the triggers of its first active graph
    Callers,    \* requests served at a time
    Reporters,  \* reports in flight at a time
    Settlers,   \* runs settling at a time
    MaxQueued,  \* bound on a workflow's pending firings
    MaxEvents   \* bound on requests, reports, refusals and crashes

Lives == {"inactive", "active", "draining"}
EntrySets == (SUBSET Triggers) \ {{}}
Ops == {"activate", "stage", "deactivate", "kill", "edit", "meta"}

ASSUME EntryAssumption == Entry \in [Workflows -> EntrySets]
ASSUME NoneAssumption == NoWf \notin Workflows /\ NoTrigger \notin Triggers
ASSUME BoundAssumption == MaxQueued \in Nat /\ MaxEvents \in Nat

VARIABLES
    \* database
    life,      \* Workflow.LifecycleState; Active = (life = "active")
    entry,     \* trigger refs of the active version's graph
    deleted,   \* soft-deleted workflows
    gone,      \* soft-deleted triggers
    queued,    \* pending firings of a workflow
    running,   \* running runs of a workflow
    \* the trigger service's registry
    workflows, \* listenEntry.workflows; no entry is the empty set
    once,      \* listenEntry.once
    hot,       \* triggers whose source listener is registered
    stopped,   \* history: triggers whose source a failed registration stopped
    \* goroutines
    call, report, settle,
    \* history
    excused,   \* bindings that a stage or a failed attach made, or missed
    events,    \* events so far
    crashed

rows == <<life, entry, deleted, gone, queued, running>>
registry == <<workflows, once, hot, stopped>>
routines == <<call, report, settle>>
bounds == <<events, crashed>>
history == <<excused, bounds>>
vars == <<rows, registry, routines, history>>

\* A call in progress: its next step, the registry operations left to do, and
\* the row it will write: its graph's triggers and its lifecycle.
IdleCall == [at |-> "idle", op |-> "none", wf |-> NoWf, off |-> {}, on |-> {},
             refs |-> {}, read |-> "inactive"]
IdleReport == [at |-> "idle", trigger |-> NoTrigger, todo |-> {}, drop |-> {}]
IdleSettle == [at |-> "idle", wf |-> NoWf]

Init ==
    /\ life = [w \in Workflows |-> "inactive"]
    /\ entry = Entry
    /\ deleted = {} /\ gone = {}
    /\ queued = [w \in Workflows |-> 0]
    /\ running = [w \in Workflows |-> 0]
    /\ workflows = [t \in Triggers |-> {}]
    /\ once = [t \in Triggers |-> {}]
    /\ hot = {} /\ stopped = {}
    /\ call = [p \in Callers |-> IdleCall]
    /\ report = [r \in Reporters |-> IdleReport]
    /\ settle = [s \in Settlers |-> IdleSettle]
    /\ excused = {}
    /\ events = 0 /\ crashed = FALSE

Event == events < MaxEvents /\ events' = events + 1 /\ UNCHANGED crashed

-----------------------------------------------------------------------------
(***************************************************************************)
(* The registry. Each operation is one critical section.                   *)
(***************************************************************************)
\* Register of a listener.  A failed one leaves the old source alone, or has
\* dropped it already.
Register(t) == hot' = hot \cup {t} /\ stopped' = stopped \ {t}
RegisterFails(t) ==
    \/ UNCHANGED <<hot, stopped>>
    \/ hot' = hot \ {t} /\ stopped' = stopped \cup {t}

Unregister(t) == hot' = hot \ {t} /\ stopped' = stopped \ {t}

\* attach: the first listener starts the source, the others join; a mark left by
\* an earlier stage stays.
Attach(t, w, one) ==
    /\ workflows' = [workflows EXCEPT ![t] = @ \cup {w}]
    /\ once' = IF one THEN [once EXCEPT ![t] = @ \cup {w}] ELSE once
    /\ IF workflows[t] = {} THEN Register(t) ELSE UNCHANGED <<hot, stopped>>

Detach(t, w) ==
    /\ workflows' = [workflows EXCEPT ![t] = @ \ {w}]
    /\ once' = [once EXCEPT ![t] = @ \ {w}]
    /\ IF workflows[t] = {w} THEN Unregister(t) ELSE UNCHANGED <<hot, stopped>>

-----------------------------------------------------------------------------
(***************************************************************************)
(* Calls of the workflow service.                                          *)
(***************************************************************************)
Start(p, op, w, c) ==
    /\ call[p].at = "idle" /\ w \notin deleted
    /\ Event
    /\ call' = [call EXCEPT ![p] = [c EXCEPT !.op = op, !.wf = w]]
    /\ UNCHANGED <<rows, registry, report, settle>>

\* ensureRunnable: every referenced trigger exists.
Runnable(w) == entry[w] \cap gone = {}

Activate(p, w) ==
    /\ Runnable(w)
    /\ Start(p, "activate", w, [IdleCall EXCEPT !.at = "attach", !.on = entry[w]])
    /\ UNCHANGED excused

Stage(p, w) ==
    /\ Runnable(w) /\ life[w] # "active"
    /\ Start(p, "stage", w, [IdleCall EXCEPT !.at = "attach", !.on = entry[w]])
    /\ excused' = excused \cup {<<w, t>> : t \in entry[w]}

Deactivate(p, w) ==
    /\ Start(p, "deactivate", w, [IdleCall EXCEPT !.at = "detach", !.off = entry[w]])
    /\ UNCHANGED excused

Kill(p, w) ==
    /\ Start(p, "kill", w, [IdleCall EXCEPT !.at = "detach", !.off = entry[w]])
    /\ UNCHANGED excused

\* Edit and Revert: the old graph and the row are read first.
Edit(p, w, E) ==
    /\ E # entry[w]
    /\ Start(p, "edit", w, [IdleCall EXCEPT !.at = "point", !.off = entry[w] \ E,
                                            !.on = E \ entry[w], !.refs = E, !.read = life[w]])
    /\ UNCHANGED excused

UpdateMeta(p, w) ==
    /\ Start(p, "meta", w, [IdleCall EXCEPT !.at = "save", !.refs = entry[w], !.read = life[w]])
    /\ UNCHANGED excused

Continue(p, c) == call' = [call EXCEPT ![p] = c]
Return(p) == Continue(p, IdleCall)

\* rebindIfListening has work when the row read was active.
Rebind(p) == IF call[p].read = "active" THEN Continue(p, [call[p] EXCEPT !.at = "detach"])
                                        ELSE Return(p)

\* Mutant: an edit of a live workflow moves the pointer and rebinds nothing.
PointOnly(p) ==
    /\ call[p].at = "point"
    /\ entry' = [entry EXCEPT ![call[p].wf] = call[p].refs]
    /\ Return(p)
    /\ UNCHANGED <<life, deleted, gone, queued, running, registry, report, settle, history>>

\* SetActiveVersion. An edit that has a set_meta op saves the row next.
Point(p) ==
    /\ call[p].at = "point"
    /\ entry' = [entry EXCEPT ![call[p].wf] = call[p].refs]
    /\ Rebind(p) \/ Continue(p, [call[p] EXCEPT !.at = "save"])
    /\ UNCHANGED <<life, deleted, gone, queued, running, registry, report, settle, history>>

\* SaveWorkflow writes the whole row as it was read, the new version in an edit.
SaveRow(p) ==
    /\ call[p].at = "save"
    /\ life' = [life EXCEPT ![call[p].wf] = call[p].read]
    /\ entry' = [entry EXCEPT ![call[p].wf] = call[p].refs]
    /\ IF call[p].op = "edit" THEN Rebind(p) ELSE Return(p)
    /\ UNCHANGED <<deleted, gone, queued, running, registry, report, settle, history>>

DetachOne(p, t) ==
    /\ call[p].at = "detach" /\ t \in call[p].off
    /\ Detach(t, call[p].wf)
    /\ Continue(p, [call[p] EXCEPT !.off = @ \ {t}])
    /\ excused' = IF \E r \in Reporters : report[r].trigger = t /\ call[p].wf \in report[r].drop
                  THEN excused ELSE excused \ {<<call[p].wf, t>>}
    /\ UNCHANGED <<rows, report, settle, bounds>>

Detached(p) == call[p].at = "detach" /\ call[p].off = {}

\* Deactivate: CountRunning decides between draining and inactive.
CountRunning(p) ==
    /\ Detached(p) /\ call[p].op = "deactivate"
    /\ LET w == call[p].wf IN
         Continue(p, [call[p] EXCEPT !.at = "lifecycle",
                                     !.read = IF running[w] > 0 THEN "draining" ELSE "inactive"])
    /\ UNCHANGED <<rows, registry, report, settle, history>>

\* KillWorkflow: every running run is marked cancelled in the
\* store; the drain is not reconciled.
KillRuns(p) ==
    /\ Detached(p) /\ call[p].op = "kill"
    /\ running' = [running EXCEPT ![call[p].wf] = 0]
    /\ Continue(p, [call[p] EXCEPT !.at = "lifecycle", !.read = "inactive"])
    /\ UNCHANGED <<life, entry, deleted, gone, queued, registry, report, settle, history>>

RebindNew(p) ==
    /\ Detached(p) /\ call[p].op = "edit"
    /\ Continue(p, [call[p] EXCEPT !.at = "attach"])
    /\ UNCHANGED <<rows, registry, report, settle, history>>

AttachOne(p, t) ==
    /\ call[p].at = "attach" /\ t \in call[p].on \ gone
    /\ Attach(t, call[p].wf, call[p].op = "stage")
    /\ Continue(p, [call[p] EXCEPT !.on = @ \ {t}])
    /\ UNCHANGED <<rows, report, settle, history>>

\* The trigger is gone or cannot be read, or its source cannot start: Activate
\* and Stage return the error, a rebind logs it and goes on.
AttachFails(p, t) ==
    /\ call[p].at = "attach" /\ t \in call[p].on
    /\ IF t \in gone THEN UNCHANGED bounds ELSE Event
    /\ IF t \in gone \/ workflows[t] # {} THEN UNCHANGED <<hot, stopped>> ELSE RegisterFails(t)
    /\ IF call[p].op = "edit" THEN Continue(p, [call[p] EXCEPT !.on = @ \ {t}]) ELSE Return(p)
    /\ excused' = excused \cup {<<call[p].wf, u>> : u \in entry[call[p].wf]}
    /\ UNCHANGED <<rows, workflows, once, report, settle>>

Attached(p) ==
    /\ call[p].at = "attach" /\ call[p].on = {}
    /\ IF call[p].op = "activate"
       THEN Continue(p, [call[p] EXCEPT !.at = "lifecycle", !.read = "active"])
       ELSE Return(p)
    /\ UNCHANGED <<rows, registry, report, settle, history>>

SetLifecycle(p) ==
    /\ call[p].at = "lifecycle"
    /\ LET w == call[p].wf IN
         life' = IF w \in deleted THEN life ELSE [life EXCEPT ![w] = call[p].read]
    /\ Return(p)
    /\ UNCHANGED <<entry, deleted, gone, queued, running, registry, report, settle, history>>

\* Delete detaches nothing.
Delete(w) ==
    /\ Event
    /\ w \notin deleted
    /\ deleted' = deleted \cup {w}
    /\ UNCHANGED <<life, entry, gone, queued, running, registry, routines, excused>>

Step(p) ==
    \/ Point(p) \/ SaveRow(p) \/ CountRunning(p) \/ KillRuns(p) \/ RebindNew(p)
    \/ Attached(p) \/ SetLifecycle(p)
    \/ \E t \in Triggers : DetachOne(p, t) \/ AttachOne(p, t) \/ AttachFails(p, t)

-----------------------------------------------------------------------------
(***************************************************************************)
(* The trigger service: reports, and edits of triggers.                    *)
(***************************************************************************)
\* onReport and FireManual copy the listening workflows under the lock.
Report(r, t) ==
    /\ report[r].at = "idle" /\ workflows[t] # {}
    /\ Event
    /\ report' = [report EXCEPT ![r] = [at |-> "append", trigger |-> t,
                                        todo |-> workflows[t], drop |-> workflows[t]]]
    /\ UNCHANGED <<rows, registry, call, settle, excused>>

AppendFiring(r, w) ==
    /\ report[r].at = "append" /\ w \in report[r].todo
    /\ queued[w] < MaxQueued
    /\ queued' = [queued EXCEPT ![w] = @ + 1]
    /\ report' = [report EXCEPT ![r].todo = @ \ {w}]
    /\ UNCHANGED <<life, entry, deleted, gone, running, registry, call, settle, history>>

\* detachOneShots reads the marks, then detaches one by one.
CollectOneShots(r) ==
    /\ report[r].at = "append" /\ report[r].todo = {}
    /\ report' = [report EXCEPT ![r].at = "detach", ![r].drop = @ \cap once[report[r].trigger]]
    /\ UNCHANGED <<rows, registry, call, settle, history>>

DetachOneShot(r, w) ==
    /\ report[r].at = "detach" /\ w \in report[r].drop
    /\ Detach(report[r].trigger, w)
    /\ report' = [report EXCEPT ![r].drop = @ \ {w}]
    /\ UNCHANGED <<rows, call, settle, history>>

EndReport(r) ==
    /\ report[r].at = "detach" /\ report[r].drop = {}
    /\ report' = [report EXCEPT ![r] = IdleReport]
    /\ UNCHANGED <<rows, registry, call, settle, history>>

ReportStep(r) ==
    \/ CollectOneShots(r) \/ EndReport(r)
    \/ \E w \in Workflows : AppendFiring(r, w) \/ DetachOneShot(r, w)

\* Edit of a trigger: restartIfListening looks, then registers without the lock.
EditTrigger(p, t) ==
    /\ call[p].at = "idle" /\ t \notin gone /\ workflows[t] # {}
    /\ Event
    /\ Continue(p, [IdleCall EXCEPT !.at = "restart", !.on = {t}])
    /\ UNCHANGED <<rows, registry, report, settle, excused>>

\* A failed registration is only logged.
RestartListener(p) ==
    /\ call[p].at = "restart"
    /\ \E t \in call[p].on :
          \/ Register(t) /\ UNCHANGED bounds
          \/ RegisterFails(t) /\ Event
    /\ Return(p)
    /\ UNCHANGED <<rows, workflows, once, report, settle, excused>>

\* Mutant: the source goes, the entry stays until the last workflow detaches.
DeleteSource(p, t) ==
    /\ call[p].at = "idle" /\ t \notin gone
    /\ Event
    /\ Unregister(t)
    /\ gone' = gone \cup {t}
    /\ UNCHANGED <<life, entry, deleted, queued, running, workflows, once, routines, excused>>

\* Delete of a trigger drops its entry, then its row.
DeleteTrigger(p, t) ==
    /\ call[p].at = "idle" /\ t \notin gone
    /\ Event
    /\ workflows' = [workflows EXCEPT ![t] = {}]
    /\ once' = [once EXCEPT ![t] = {}]
    /\ IF workflows[t] # {} THEN Unregister(t) ELSE UNCHANGED <<hot, stopped>>
    /\ gone' = gone \cup {t}
    /\ UNCHANGED <<life, entry, deleted, queued, running, routines, excused>>

-----------------------------------------------------------------------------
(***************************************************************************)
(* Runs. The drain ticker claims a pending firing whatever the lifecycle   *)
(* (run.go overlapDecision); TriggerInbox models how.                      *)
(***************************************************************************)
Claim(w) ==
    /\ queued[w] > 0
    /\ queued' = [queued EXCEPT ![w] = @ - 1]
    /\ running' = IF w \in deleted THEN running ELSE [running EXCEPT ![w] = @ + 1]
    /\ UNCHANGED <<life, entry, deleted, gone, registry, routines, history>>

\* markRunTerminal: the run is marked, then afterRunSettled counts and reconciles.
EndRun(s, w) ==
    /\ settle[s].at = "idle" /\ running[w] > 0
    /\ running' = [running EXCEPT ![w] = @ - 1]
    /\ settle' = [settle EXCEPT ![s] = [at |-> "count", wf |-> w]]
    /\ UNCHANGED <<life, entry, deleted, gone, queued, registry, call, report, history>>

\* Mutant: the settling run is still counted.
CountSelf(s) ==
    /\ settle[s].at = "count"
    /\ settle' = [settle EXCEPT ![s] = IdleSettle]
    /\ UNCHANGED <<rows, registry, call, report, history>>

CountSettled(s) ==
    /\ settle[s].at = "count"
    /\ settle' = [settle EXCEPT ![s] = IF running[@.wf] > 0 THEN IdleSettle
                                                            ELSE [@ EXCEPT !.at = "reconcile"]]
    /\ UNCHANGED <<rows, registry, call, report, history>>

MarkInactiveIfDraining(s) ==
    /\ settle[s].at = "reconcile"
    /\ LET w == settle[s].wf IN
         life' = IF life[w] = "draining" /\ w \notin deleted
                 THEN [life EXCEPT ![w] = "inactive"] ELSE life
    /\ settle' = [settle EXCEPT ![s] = IdleSettle]
    /\ UNCHANGED <<entry, deleted, gone, queued, running, registry, call, report, history>>

\* A crash, and the boot that follows: ReattachActive attaches every active
\* workflow to the triggers whose source can start.
CrashAndBoot(F) ==
    /\ events < MaxEvents /\ events' = events + 1 /\ crashed' = TRUE
    /\ LET on(t) == {w \in Workflows \ deleted :
                        life[w] = "active" /\ t \in entry[w] \ (gone \cup F)} IN
         /\ workflows' = [t \in Triggers |-> on(t)]
         /\ hot' = {t \in Triggers : on(t) # {}} /\ stopped' = {}
         /\ excused' = {b \in Workflows \X F : life[b[1]] = "active" /\ b[2] \in entry[b[1]]}
    /\ once' = [t \in Triggers |-> {}]
    /\ call' = [p \in Callers |-> IdleCall]
    /\ report' = [r \in Reporters |-> IdleReport]
    /\ settle' = [s \in Settlers |-> IdleSettle]
    /\ UNCHANGED rows

Next ==
    \/ \E p \in Callers, w \in Workflows :
         \/ Activate(p, w) \/ Stage(p, w) \/ Deactivate(p, w) \/ Kill(p, w) \/ UpdateMeta(p, w)
         \/ \E E \in EntrySets : Edit(p, w, E)
    \/ \E p \in Callers : Step(p) \/ RestartListener(p)
    \/ \E p \in Callers, t \in Triggers : EditTrigger(p, t) \/ DeleteTrigger(p, t)
    \/ \E w \in Workflows : Delete(w) \/ Claim(w)
    \/ \E r \in Reporters, t \in Triggers : Report(r, t)
    \/ \E r \in Reporters : ReportStep(r)
    \/ \E s \in Settlers, w \in Workflows : EndRun(s, w)
    \/ \E s \in Settlers : CountSettled(s) \/ MarkInactiveIfDraining(s)
    \/ \E F \in SUBSET Triggers : CrashAndBoot(F)

Spec == Init /\ [][Next]_vars

(***************************************************************************)
(* Calls and settling runs go on, and every run ends. Reports, requests    *)
(* and claims are not fair.                                                *)
(***************************************************************************)
FairSpec ==
    /\ Spec
    /\ \A p \in Callers : WF_vars(Step(p))
    /\ \A s \in Settlers : WF_vars(CountSettled(s) \/ MarkInactiveIfDraining(s))
    /\ \A w \in Workflows : WF_vars(\E s \in Settlers : EndRun(s, w))

-----------------------------------------------------------------------------
TypeOK ==
    /\ life \in [Workflows -> Lives]
    /\ entry \in [Workflows -> SUBSET Triggers]
    /\ deleted \in SUBSET Workflows
    /\ gone \in SUBSET Triggers
    /\ queued \in [Workflows -> 0..MaxQueued]
    /\ running \in [Workflows -> Nat]
    /\ workflows \in [Triggers -> SUBSET Workflows]
    /\ once \in [Triggers -> SUBSET Workflows]
    /\ hot \in SUBSET Triggers /\ stopped \in SUBSET Triggers
    /\ call \in [Callers -> [at : {"idle", "point", "save", "detach", "attach", "lifecycle", "restart"},
                             op : Ops \cup {"none"}, wf : Workflows \cup {NoWf},
                             off : SUBSET Triggers, on : SUBSET Triggers, refs : SUBSET Triggers,
                             read : Lives]]
    /\ report \in [Reporters -> [at : {"idle", "append", "detach"},
                                 trigger : Triggers \cup {NoTrigger},
                                 todo : SUBSET Workflows, drop : SUBSET Workflows]]
    /\ settle \in [Settlers -> [at : {"idle", "count", "reconcile"}, wf : Workflows \cup {NoWf}]]
    /\ excused \in SUBSET (Workflows \X Triggers)
    /\ events \in Nat /\ crashed \in BOOLEAN

\* No call is changing the workflow.
Settled(w) == w \notin deleted /\ \A p \in Callers : call[p].wf # w

\* The triggers a workflow ought to listen to.
Wanted(w) == IF life[w] = "active" THEN entry[w] \ gone ELSE {}

\* A workflow listens to the triggers of its active graph while it is active, and
\* to nothing otherwise, whatever was edited, fired, drained or restarted before
\* (execution.go rebindIfListening "the old trigger keeps firing this workflow
\* forever"). Excepted are bindings that a stage or a failed attach made or missed.
BindingsFollowLifecycle ==
    \A w \in Workflows : Settled(w) =>
        \A t \in Triggers : (w \in workflows[t] <=> t \in Wanted(w)) \/ <<w, t>> \in excused

\* A trigger someone listens to has its source running, unless the last
\* registration of it failed and took the old source down, and a one-shot mark
\* belongs to a listener: neither a detach nor the delete of the trigger between
\* the look and the registration of a restart leaves workflows on a source that
\* was stopped (lifecycle.go attach, Detach, restartIfListening; crud.go Delete).
ListenersAreHot ==
    \A t \in Triggers :
        once[t] \subseteq workflows[t] /\ (workflows[t] # {} => t \in hot \cup stopped)

\* A drain ends when the runs it waits for have ended, unless a crash falls
\* between the end of the last run and the reconcile (kill.go afterRunSettled).
DrainEnds ==
    \A w \in Workflows :
        (life[w] = "draining" /\ running[w] > 0)
            ~> (life[w] # "draining" \/ w \in deleted \/ crashed)
=============================================================================
