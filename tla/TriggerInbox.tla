---------------------------- MODULE TriggerInbox ----------------------------
(***************************************************************************)
(* The automatic path from a trigger's report to a run: listeners append   *)
(* firings to the durable inbox (app/trigger/report.go over infra/store/   *)
(* trigger/firings.go), the drain ticker applies each workflow's overlap   *)
(* policy and claims firings into runs (app/scheduler/run.go), the pool    *)
(* runs them. What a run does inside is FlowRun's subject: here it is      *)
(* running, then ended, or parked on an approval for good.                 *)
(*                                                                         *)
(* A step is one SQL statement or transaction. Statements that only the    *)
(* drain goroutine can disturb are taken in one step.                      *)
(***************************************************************************)
EXTENDS Naturals, Sequences, FiniteSets

CONSTANTS
    Workflows,
    Triggers,
    Keys,        \* dedup keys: a cron tick, a webhook body in its minute
    Choices,     \* the assignments of Workflow.Concurrency to start from
    Entry,       \* workflow -> the triggers its first graph listens to
    Parking,     \* workflows whose runs await an approval that never comes
    DrainLimit,  \* ListPendingFirings' limit, 100 in the code
    Budget       \* bound on each of Events

Policies == {"serial", "skip", "buffer_one", "replace", "allow_all"}
Events == {"report", "manual", "replay", "edit", "delete", "crash"}

\* ValidateGraph: at least one trigger node.
EntrySets == (SUBSET Triggers) \ {{}}

ASSUME ChoicesAssumption == Choices \subseteq [Workflows -> Policies]
ASSUME EntryAssumption == Entry \in [Workflows -> EntrySets]
ASSUME ParkingAssumption == Parking \subseteq Workflows
ASSUME LimitAssumption == DrainLimit \in Nat \ {0}
ASSUME EventsAssumption == Budget \in [Events -> Nat]

VARIABLES
    \* durable tables
    policy,      \* workflows: Concurrency
    entry,       \* workflows, versions: triggers of the active graph
    deleted,     \* soft-deleted workflows
    firings,     \* trigger_firings, in order of creation
    runs,        \* flowruns, in order of creation
    \* memory
    reports,     \* appends that reporters are still to make
    step,        \* the drain goroutine's next step
    batch,       \* DrainFirings: ids listed and not decided yet
    hand,        \* DrainFirings: the firing being decided
    running,     \* overlapDecision: CountRunningByWorkflow was positive
    newest,      \* SupersedeAllButNewestPending: the row found first
    victims,     \* cancelRunningForReplace: the runs listed
    seeded,      \* DrainFirings: runs claimed in phase 1
    pooled,      \* running runs the pool or a caller drives, or parked
    used         \* events so far

tables == <<policy, entry, deleted, firings, runs>>
drain == <<step, batch, hand, running, newest, victims, seeded>>
vars == <<tables, drain, reports, pooled, used>>

-----------------------------------------------------------------------------
NoFiring == 0
FiringIds == DOMAIN firings
RunIds == DOMAIN runs
Pending == {f \in FiringIds : firings[f].status = "pending"}
PendingOf(w) == {f \in Pending : firings[f].wf = w}
RunningOf(w) == {r \in RunIds : runs[r].wf = w /\ runs[r].status = "running"}

\* ORDER BY created_at ASC LIMIT n.
Oldest(S, n) == {f \in S : Cardinality({g \in S : g < f}) < n}

First(S) == {f \in S : \A g \in S : f <= g}
Last(S) == {f \in S : \A g \in S : g <= f}
Wf == firings[hand].wf

Spend(e) == used[e] < Budget[e] /\ used' = [used EXCEPT ![e] = @ + 1]
SetFirings(S, s) ==
    firings' = [f \in FiringIds |->
                  IF f \in S THEN [firings[f] EXCEPT !.status = s] ELSE firings[f]]

Init ==
    /\ policy \in Choices
    /\ entry = Entry
    /\ deleted = {}
    /\ firings = << >> /\ runs = << >>
    /\ reports = {}
    /\ step = "idle" /\ batch = {} /\ hand = NoFiring /\ running = FALSE /\ newest = NoFiring
    /\ victims = {} /\ seeded = {}
    /\ pooled = {}
    /\ used = [e \in Events |-> 0]

-----------------------------------------------------------------------------
(***************************************************************************)
(* Listeners. A report copies the listening workflows under the registry's *)
(* lock, then appends one firing each without it: meanwhile the workflow   *)
(* may be edited, deleted or drained. Deleting a workflow detaches nothing *)
(* (app/workflow/crud.go Delete), so a deleted one still listens.          *)
(***************************************************************************)
Report(t, k) ==
    /\ Spend("report")
    /\ reports' = reports \cup {[trigger |-> t, key |-> k, wf |-> w] :
                                   w \in {w \in Workflows : t \in entry[w]}}
    /\ UNCHANGED <<tables, drain, pooled>>

SameFire(f, x) ==
    firings[f].wf = x.wf /\ firings[f].trigger = x.trigger /\ firings[f].key = x.key

\* AppendFiring: UNIQUE(workflow_id, trigger_id, dedup_key).
AppendFiring(x) ==
    /\ x \in reports
    /\ reports' = reports \ {x}
    /\ firings' = IF \E f \in FiringIds : SameFire(f, x)
                  THEN firings
                  ELSE Append(firings, [wf |-> x.wf, trigger |-> x.trigger,
                                        key |-> x.key, status |-> "pending"])
    /\ UNCHANGED <<policy, entry, deleted, runs, drain, pooled, used>>

-----------------------------------------------------------------------------
(***************************************************************************)
(* DrainFirings, phase 1: decide and claim the listed firings in order.    *)
(***************************************************************************)
ListPending ==
    /\ step = "idle" /\ Pending # {}
    /\ batch' = Oldest(Pending, DrainLimit)
    /\ step' = "decide"
    /\ UNCHANGED <<tables, hand, running, newest, victims, seeded, reports, pooled, used>>

\* Go on with the next firing.
Leave(f) ==
    /\ batch' = batch \ {f}
    /\ step' = "decide"
    /\ hand' = NoFiring /\ running' = FALSE /\ newest' = NoFiring

\* Mutant: a deleted workflow's firing fails like any other and is retried.
ShedRetries(f) ==
    /\ step = "decide" /\ f \in First(batch) /\ firings[f].wf \in deleted
    /\ Leave(f)
    /\ UNCHANGED <<tables, victims, seeded, reports, pooled, used>>

\* overlapDecision's ErrNotFound: the workflow is gone, shed the firing.
Shed(f) ==
    /\ step = "decide" /\ f \in First(batch) /\ firings[f].wf \in deleted
    /\ SetFirings({f}, "shed")
    /\ Leave(f)
    /\ UNCHANGED <<policy, entry, deleted, runs, victims, seeded,
                   reports, pooled, used>>

\* Mutant: siblings claimed in this batch are not counted yet.
CountDriven(f) ==
    /\ step = "decide" /\ f \in First(batch) /\ firings[f].wf \notin deleted
    /\ running' = (RunningOf(firings[f].wf) \cap pooled # {})
    /\ hand' = f
    /\ step' = "policy"
    /\ UNCHANGED <<tables, batch, newest, victims, seeded, reports, pooled, used>>

\* GetWorkflow and CountRunningByWorkflow.
CountRunning(f) ==
    /\ step = "decide" /\ f \in First(batch) /\ firings[f].wf \notin deleted
    /\ running' = (RunningOf(firings[f].wf) # {})
    /\ hand' = f
    /\ step' = "policy"
    /\ UNCHANGED <<tables, batch, newest, victims, seeded, reports, pooled, used>>

Skip ==
    /\ step = "policy" /\ policy[Wf] = "skip" /\ running
    /\ SetFirings({hand}, "skipped")
    /\ Leave(hand)
    /\ UNCHANGED <<policy, entry, deleted, runs, victims, seeded,
                   reports, pooled, used>>

\* serial behind a run; buffer_one behind a run, or not the newest.
Defer ==
    /\ \/ step = "policy" /\ policy[Wf] = "serial" /\ running
       \/ step = "survivor" /\ (hand # newest \/ running)
    /\ Leave(hand)
    /\ UNCHANGED <<tables, victims, seeded, reports, pooled, used>>

\* SupersedeAllButNewestPending: a SELECT, then an UPDATE of all the others.
FindNewest ==
    /\ step = "policy" /\ policy[Wf] = "buffer_one"
    /\ IF PendingOf(Wf) = {}
       THEN newest' = NoFiring /\ step' = "survivor"
       ELSE newest' \in Last(PendingOf(Wf)) /\ step' = "supersede"
    /\ UNCHANGED <<tables, batch, hand, running, victims, seeded, reports, pooled, used>>

\* Mutant: the UPDATE misses its condition on status.
SupersedeAll ==
    /\ step = "supersede"
    /\ SetFirings({f \in FiringIds : firings[f].wf = Wf} \ {newest}, "superseded")
    /\ step' = "survivor"
    /\ UNCHANGED <<policy, entry, deleted, runs, batch, hand, running, newest, victims, seeded,
                   reports, pooled, used>>

Supersede ==
    /\ step = "supersede"
    /\ SetFirings(PendingOf(Wf) \ {newest}, "superseded")
    /\ step' = "survivor"
    /\ UNCHANGED <<policy, entry, deleted, runs, batch, hand, running, newest, victims, seeded,
                   reports, pooled, used>>

\* replace: list the workflow's running runs, then cancel them one by one.
ListVictims ==
    /\ step = "policy" /\ policy[Wf] = "replace" /\ running
    /\ victims' = RunningOf(Wf)
    /\ step' = "cancel"
    /\ UNCHANGED <<tables, batch, hand, running, newest, seeded, reports, pooled, used>>

\* MarkRunTerminal is conditional on running; the pool's advance is interrupted.
CancelVictim(r) ==
    /\ step = "cancel" /\ r \in victims
    /\ victims' = victims \ {r}
    /\ runs' = IF runs[r].status = "running"
               THEN [runs EXCEPT ![r].status = "cancelled"] ELSE runs
    /\ pooled' = pooled \ {r}
    /\ UNCHANGED <<policy, entry, deleted, firings, step, batch, hand, running, newest, seeded,
                   reports, used>>

ToBuild ==
    \/ step = "policy" /\ policy[Wf] = "allow_all"
    \/ step = "policy" /\ policy[Wf] \in {"serial", "skip", "replace"} /\ ~running
    \/ step = "survivor" /\ hand = newest /\ ~running
    \/ step = "cancel" /\ victims = {}

\* buildRun: the active version must exist and reference the firing's trigger.
Buildable == Wf \notin deleted /\ firings[hand].trigger \in entry[Wf]
BuildRun ==
    /\ ToBuild
    /\ IF Buildable
       THEN step' = "claim" /\ UNCHANGED <<batch, hand, running, newest>>
       ELSE Leave(hand)
    /\ UNCHANGED <<tables, victims, seeded, reports, pooled, used>>

\* Mutant: the run is seeded in a transaction of its own, the backfill is lost.
ClaimWithoutMark ==
    /\ step = "claim"
    /\ runs' = Append(runs, [wf |-> Wf, firing |-> hand, byHand |-> FALSE,
                             status |-> "running"])
    /\ seeded' = seeded \cup {Len(runs) + 1}
    /\ Leave(hand)
    /\ UNCHANGED <<policy, entry, deleted, firings, victims, reports,
                   pooled, used>>

\* ClaimFiring: pending -> claimed -> started and the seeded run, in one transaction.
ClaimFiring ==
    /\ step = "claim"
    /\ IF firings[hand].status = "pending"
       THEN /\ SetFirings({hand}, "started")
            /\ runs' = Append(runs, [wf |-> Wf, firing |-> hand, byHand |-> FALSE,
                                   status |-> "running"])
            /\ seeded' = seeded \cup {Len(runs) + 1}
       ELSE UNCHANGED <<firings, runs, seeded>>
    /\ Leave(hand)
    /\ UNCHANGED <<policy, entry, deleted, victims, reports, pooled, used>>

(***************************************************************************)
(* Phase 2: enqueue what phase 1 seeded. A run that was replaced meanwhile *)
(* is enqueued too; its advance stops at the status check.                 *)
(***************************************************************************)
EnqueueSeeded ==
    /\ step = "decide" /\ batch = {}
    /\ pooled' = pooled \cup {r \in seeded : runs[r].status = "running"}
    /\ seeded' = {}
    /\ step' = "idle"
    /\ UNCHANGED <<tables, batch, hand, running, newest, victims, reports, used>>

-----------------------------------------------------------------------------
(***************************************************************************)
(* Runs, requests and crashes.                                             *)
(***************************************************************************)
\* A run in the pool ends, unless it is parked on an approval for good.
EndRun(r, s) ==
    /\ r \in pooled /\ runs[r].wf \notin Parking
    /\ runs' = [runs EXCEPT ![r].status = s]
    /\ pooled' = pooled \ {r}
    /\ UNCHANGED <<policy, entry, deleted, firings, drain, reports, used>>

\* StartRun: "run now" asks no policy and is driven by the caller.
StartRun(w) ==
    /\ Spend("manual")
    /\ w \notin deleted
    /\ runs' = Append(runs, [wf |-> w, firing |-> NoFiring, byHand |-> TRUE,
                           status |-> "running"])
    /\ pooled' = pooled \cup {Len(runs) + 1}
    /\ UNCHANGED <<policy, entry, deleted, firings, drain, reports>>

\* ReopenForReplay: a failed run runs again, driven by the caller.
ReplayRun(r) ==
    /\ Spend("replay")
    /\ runs[r].status = "failed"
    /\ runs' = [runs EXCEPT ![r].status = "running", ![r].byHand = TRUE]
    /\ pooled' = pooled \cup {r}
    /\ UNCHANGED <<policy, entry, deleted, firings, drain, reports>>

\* Edit and Revert move the active version to a graph with other triggers.
EditEntry(w, E) ==
    /\ Spend("edit")
    /\ w \notin deleted /\ entry[w] # E
    /\ entry' = [entry EXCEPT ![w] = E]
    /\ UNCHANGED <<policy, deleted, firings, runs, drain, reports, pooled>>

DeleteWorkflow(w) ==
    /\ Spend("delete")
    /\ w \notin deleted
    /\ deleted' = deleted \cup {w}
    /\ UNCHANGED <<policy, entry, firings, runs, drain, reports, pooled>>

\* Mutant: boot does not recover the running runs.
CrashUnrecovered ==
    /\ Spend("crash")
    /\ reports' = {}
    /\ step' = "idle" /\ batch' = {} /\ victims' = {} /\ seeded' = {}
    /\ hand' = NoFiring /\ running' = FALSE /\ newest' = NoFiring
    /\ pooled' = {}
    /\ UNCHANGED tables

\* A crash empties memory; the next boot's Recover enqueues every running run
\* before the drain ticker, the listeners and the requests are back.
CrashAndBoot ==
    /\ Spend("crash")
    /\ reports' = {}
    /\ step' = "idle" /\ batch' = {} /\ victims' = {} /\ seeded' = {}
    /\ hand' = NoFiring /\ running' = FALSE /\ newest' = NoFiring
    /\ pooled' = {r \in RunIds : runs[r].status = "running"}
    /\ UNCHANGED tables

DrainStep ==
    \/ ListPending \/ Skip \/ Defer
    \/ \E f \in batch : Shed(f) \/ CountRunning(f)
    \/ FindNewest \/ Supersede \/ ListVictims \/ BuildRun
    \/ ClaimFiring \/ EnqueueSeeded
    \/ \E r \in victims : CancelVictim(r)

Next ==
    \/ DrainStep
    \/ \E t \in Triggers, k \in Keys : Report(t, k)
    \/ \E x \in reports : AppendFiring(x)
    \/ \E r \in RunIds, s \in {"completed", "failed"} : EndRun(r, s)
    \/ \E r \in RunIds : ReplayRun(r)
    \/ \E w \in Workflows : StartRun(w) \/ DeleteWorkflow(w)
    \/ \E w \in Workflows : \E E \in EntrySets : EditEntry(w, E)
    \/ CrashAndBoot

Spec == Init /\ [][Next]_vars

(***************************************************************************)
(* The drain ticker goes on ticking, an append is made, and a run that is  *)
(* not parked for good ends. Nothing is fair about reports and requests.   *)
(***************************************************************************)
EndSome(r) == \E s \in {"completed", "failed"} : EndRun(r, s)
FairSpec ==
    /\ Spec
    /\ WF_vars(DrainStep)
    /\ WF_vars(\E x \in reports : AppendFiring(x))
    /\ WF_vars(\E r \in RunIds : EndSome(r))

-----------------------------------------------------------------------------
Statuses == {"pending", "started", "skipped", "superseded", "shed"}
FiringRecord == [wf : Workflows, trigger : Triggers, key : Keys, status : Statuses]
RunRecord == [wf : Workflows, firing : Nat, byHand : BOOLEAN,
              status : {"running", "completed", "failed", "cancelled"}]
TypeOK ==
    /\ policy \in [Workflows -> Policies]
    /\ entry \in [Workflows -> SUBSET Triggers]
    /\ deleted \in SUBSET Workflows
    /\ firings \in Seq(FiringRecord)
    /\ runs \in Seq(RunRecord)
    /\ reports \in SUBSET [trigger : Triggers, key : Keys, wf : Workflows]
    /\ step \in {"idle", "decide", "policy", "supersede", "survivor", "cancel", "claim"}
    /\ batch \in SUBSET FiringIds
    /\ running \in BOOLEAN
    /\ hand \in FiringIds \cup {NoFiring}
    /\ newest \in FiringIds \cup {NoFiring}
    /\ victims \in SUBSET RunIds
    /\ seeded \in SUBSET RunIds
    /\ pooled \in SUBSET RunIds
    /\ used \in [Events -> Nat]

AutoRunning(w) == {r \in RunningOf(w) : ~runs[r].byHand}
RunsFor(f) == {r \in RunIds : runs[r].firing = f}

\* Exactly-once consumption: a started firing has one run and no other firing
\* has any, whatever crashes between claim and enqueue (firings.go ClaimFiring).
OneRunPerFiring ==
    \A f \in FiringIds :
        IF firings[f].status = "started" THEN \E r \in RunIds : RunsFor(f) = {r}
                                         ELSE RunsFor(f) = {}

\* Overlap policies other than allow_all never let two runs they started run
\* together; runs started or replayed by hand ask no policy (run.go overlapDecision).
OneAtATime ==
    \A w \in Workflows :
        policy[w] # "allow_all" => \A r, s \in AutoRunning(w) : r = s

\* No run is forgotten between phase 1 and phase 2, nor by a crash there: what
\* is running is enqueued, or about to be (run.go DrainFirings, Recover).
RunningIsPooled == \A r \in RunIds : runs[r].status = "running" => r \in seeded \cup pooled

\* What was disposed of never runs, and what runs is never disposed of: no
\* decision is taken back, by a batch listed earlier either (firings.go "every
\* firing reaches a terminal status").
DisposedNeverRuns ==
    [][\A f \in FiringIds :
          firings[f].status # "pending" =>
              /\ firings'[f].status # "pending"
              /\ firings'[f].status = "started" <=> firings[f].status = "started"]_vars

\* Every firing of a live trigger reaches a terminal status: the overlap
\* policies postpone, they do not lose (run.go DrainFirings "one bad firing
\* must not stall the queue").
Waiting(f) ==
    /\ f \in Pending
    /\ firings[f].wf \in deleted \/ firings[f].trigger \in entry[firings[f].wf]
    /\ firings[f].wf \notin Parking
FiringsSettle == \A f \in 1..(Budget["report"] * Cardinality(Workflows)) : Waiting(f) ~> ~Waiting(f)
=============================================================================
