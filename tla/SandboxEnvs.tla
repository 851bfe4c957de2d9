----------------------------- MODULE SandboxEnvs -----------------------------
(***************************************************************************)
(* The environments of the sandbox (app/sandbox/sandbox.go): for every     *)
(* owner at most one row in the manifest and one directory, built on       *)
(* demand from a runtime that all environments share.  An operation works  *)
(* on an owner under that owner's mutex; the mutexes live in a map, from   *)
(* which a Destroy takes its own out again.  Spawn and DeleteRuntime take  *)
(* no mutex at all.                                                        *)
(*                                                                         *)
(* A statement on the manifest or a change of the disk is one step, and    *)
(* each may fail: most run on the context of the caller, who may be gone.  *)
(* What is written back to the manifest is a whole row, as read or made    *)
(* before, and writing a row that is gone inserts it again (orm Save is an *)
(* upsert).                                                                *)
(***************************************************************************)
EXTENDS Naturals, FiniteSets

CONSTANTS
  Owners,       \* owners of environments: a handler's version, a server, ...
  Deps,         \* the dependency lists an owner may ask for
  Callers,      \* goroutines
  NoCaller,     \* a mutex nobody holds
  MaxRequests,  \* bound on the operations
  MaxFaults     \* bound on the crashes and on the statements that fail

ASSUME NoCallerAssumption == NoCaller \notin Callers

ASSUME NamesAssumption == Owners # {} /\ Deps # {}

ASSUME BoundsAssumption == MaxRequests \in Nat /\ MaxFaults \in Nat

VARIABLES
  env,          \* the manifest's row of an owner, or NoEnv
  dir,          \* the owner's directory
  runtime,      \* the id of the runtime's row, 0 if there is none
  files,        \* whether the runtime's directory is there
  lockOf,       \* the map of the owners' mutexes, 0 if there is none
  holder,       \* who holds a mutex
  kindHolder,   \* who holds the mutex of the runtime's kind
  caller,       \* what each goroutine is doing
  requests,     \* operations so far; their numbers name rows and mutexes
  faults,       \* crashes and failed statements so far
  split,        \* owners two operations may work on at once, or whose row
                \* was deleted beside a spawn
  mixed,        \* rows left behind when that was over
  stuck,        \* rows whose destruction or last write failed or was cut
                \* short by a crash
  torn          \* runtimes deleted beside another operation or half way

manifest == <<env, runtime>>
disk == <<dir, files>>
locks == <<lockOf, holder, kindHolder>>
ghosts == <<split, mixed, stuck, torn>>
vars == <<manifest, disk, locks, caller, requests, faults, ghosts>>

Ids == 1..MaxRequests
NoEnv == [id |-> 0, status |-> "none", deps |-> CHOOSE d \in Deps : TRUE,
          runtime |-> 0]
Absent == [deps |-> NoEnv.deps, there |-> FALSE, whole |-> FALSE]
Idle == [at |-> "idle", op |-> "none", of |-> CHOOSE o \in Owners : TRUE,
         id |-> 0, mutex |-> 0, row |-> NoEnv, deps |-> NoEnv.deps,
         runtime |-> 0]

Init ==
  /\ env = [o \in Owners |-> NoEnv]
  /\ dir = [o \in Owners |-> Absent]
  /\ runtime = 0
  /\ files = FALSE
  /\ lockOf = [o \in Owners |-> 0]
  /\ holder = [m \in Ids |-> NoCaller]
  /\ kindHolder = NoCaller
  /\ caller = [c \in Callers |-> Idle]
  /\ requests = 0
  /\ faults = 0
  /\ split = {} /\ mixed = {}
  /\ stuck = {}
  /\ torn = {}

-----------------------------------------------------------------------------
(* Helpers. *)

\* Where an operation holds the owner's mutex, or a spawn a copy of its row.
Critical == {"find", "touch", "rm", "row", "drop", "runtime", "kind",
             "install", "create", "build", "deps", "save"}

\* Where it builds the environment whose row it has inserted.
Building == {"build", "deps", "save"}

Go(c, at) == caller' = [caller EXCEPT ![c].at = at]

\* The operation returns; a mutex it holds is released.
Return(c) ==
  /\ caller' = [caller EXCEPT ![c] = Idle]
  /\ holder' = [m \in Ids |-> IF holder[m] = c THEN NoCaller ELSE holder[m]]

\* Save writes the whole row: over the row with its id, or, when there is
\* none, as a new row, which fails if the owner has another.
Save(o, r) ==
  env' = IF env[o].id \in {r.id, 0} THEN [env EXCEPT ![o] = r] ELSE env

\* The runtime is chosen for an environment and deleted at the same time.
Tear(both) ==
  torn' = IF both /\ runtime # 0 THEN torn \cup {runtime} ELSE torn

Deleting ==
  \E d \in Callers : caller[d].at \in {"unpack", "unlist"} /\ caller[d].runtime = runtime

\* Another goroutine that touches the row with this id from its own copy.
Copied(c, id) ==
  \E d \in Callers \ {c} : caller[d].at = "touch" /\ caller[d].row.id = id

-----------------------------------------------------------------------------
(* Operations begin; those under a mutex fetch it from the map. *)

Begin(c, o, op, at) ==
  /\ caller[c].at = "idle" /\ requests < MaxRequests
  /\ requests' = requests + 1
  /\ caller' = [caller EXCEPT ![c] =
       [Idle EXCEPT !.at = at, !.op = op, !.of = o, !.id = requests + 1]]
  /\ UNCHANGED <<manifest, disk, locks, faults, ghosts>>

BeginLocked(c, o, op, d) ==
  LET m == IF lockOf[o] = 0 THEN requests + 1 ELSE lockOf[o] IN
  /\ caller[c].at = "idle" /\ requests < MaxRequests
  /\ requests' = requests + 1
  /\ lockOf' = [lockOf EXCEPT ![o] = m]
  /\ caller' = [caller EXCEPT ![c] =
       [Idle EXCEPT !.at = "lock", !.op = op, !.of = o, !.id = requests + 1,
                    !.mutex = m, !.deps = d]]
  /\ UNCHANGED <<manifest, disk, holder, kindHolder, faults, ghosts>>

EnsureEnv(c, o, d) == BeginLocked(c, o, "ensure", d)

\* Destroy, also by GC for what its list found unused.
Destroy(c, o) == BeginLocked(c, o, "destroy", NoEnv.deps)

Spawn(c, o) == Begin(c, o, "spawn", "prepare")

DeleteRuntime(c) == \E o \in Owners : Begin(c, o, "delete", "refs")

\* Nobody works on the owner, or waits to, but by the mutex in the map.
Calm(c) ==
  LET o == caller[c].of IN
  /\ lockOf[o] = caller[c].mutex
  /\ \A d \in Callers \ {c} : caller[d].of = o =>
       caller[d].at \notin Critical /\ caller[d].mutex \in {0, lockOf[o]}

Lock(c) ==
  LET o == caller[c].of
      m == caller[c].mutex IN
  /\ caller[c].at = "lock" /\ holder[m] = NoCaller
  /\ holder' = [holder EXCEPT ![m] = c]
  /\ IF o \in split /\ Calm(c)
       THEN split' = split \ {o} /\ mixed' = mixed \cup {env[o].id}
       ELSE UNCHANGED <<split, mixed>>
  /\ Go(c, "find")
  /\ UNCHANGED <<manifest, disk, lockOf, kindHolder, requests, faults, stuck, torn>>

-----------------------------------------------------------------------------
(* Under the owner's mutex. *)

\* The row is looked up: a ready one with the same dependencies is used, any
\* other is destroyed.
FindEnv(c) ==
  LET o == caller[c].of IN
  /\ caller[c].at = "find"
  /\ caller' = [caller EXCEPT
       ![c].row = env[o],
       ![c].at = CASE env[o] = NoEnv /\ caller[c].op = "ensure"  -> "runtime"
                   [] env[o] = NoEnv /\ caller[c].op = "destroy" -> "drop"
                   [] env[o] # NoEnv /\ caller[c].op = "ensure"
                        /\ env[o].status = "ready"
                        /\ env[o].deps = caller[c].deps          -> "touch"
                   [] OTHER                                      -> "rm"]
  /\ UNCHANGED <<manifest, disk, locks, requests, faults, ghosts>>

\* The directory is removed first, the row afterwards.
RemoveDir(c) ==
  /\ caller[c].at = "rm"
  /\ dir' = [dir EXCEPT ![caller[c].of] = Absent]
  /\ Go(c, "row")
  /\ UNCHANGED <<manifest, files, locks, requests, faults, ghosts>>

DeleteRow(c) ==
  LET o == caller[c].of
      r == caller[c].row IN
  /\ caller[c].at = "row"
  /\ env' = IF env[o].id = r.id THEN [env EXCEPT ![o] = NoEnv] ELSE env
  /\ split' = IF Copied(c, r.id) THEN split \cup {o} ELSE split
  /\ Go(c, IF caller[c].op = "ensure" THEN "runtime" ELSE "drop")
  /\ UNCHANGED <<runtime, disk, locks, requests, faults, mixed, stuck, torn>>

\* Mutant of DropOwnerLock: the mutex is dropped and never unlocked.
DropOwnerLockHeld(c) ==
  LET o == caller[c].of IN
  /\ caller[c].at = "drop"
  /\ lockOf' = [lockOf EXCEPT ![o] = 0]
  /\ split' = IF \E d \in Callers \ {c} : caller[d].of = o /\ caller[d].mutex # 0
                THEN split \cup {o} ELSE split
  /\ caller' = [caller EXCEPT ![c] = Idle]
  /\ UNCHANGED <<manifest, disk, holder, kindHolder, requests, faults, mixed, stuck, torn>>

\* dropOwnerLock: the mutex leaves the map, and is unlocked after that.
DropOwnerLock(c) ==
  LET o == caller[c].of IN
  /\ caller[c].at = "drop"
  /\ lockOf' = [lockOf EXCEPT ![o] = 0]
  /\ split' = IF \E d \in Callers \ {c} : caller[d].of = o /\ caller[d].mutex # 0
                THEN split \cup {o} ELSE split
  /\ Return(c)
  /\ UNCHANGED <<manifest, disk, kindHolder, requests, faults, mixed, stuck, torn>>

\* EnsureRuntime: the row is looked up, once more under the kind's mutex, and
\* the runtime installed if there is none.
FindRuntime(c) ==
  /\ caller[c].at = "runtime"
  /\ caller' = [caller EXCEPT ![c].runtime = runtime,
                              ![c].at = IF runtime # 0 THEN "create" ELSE "kind"]
  /\ Tear(Deleting)
  /\ UNCHANGED <<manifest, disk, locks, requests, faults, split, mixed, stuck>>

LockKind(c) ==
  /\ caller[c].at = "kind" /\ kindHolder = NoCaller
  /\ kindHolder' = IF runtime # 0 THEN NoCaller ELSE c
  /\ caller' = [caller EXCEPT ![c].runtime = runtime,
                              ![c].at = IF runtime # 0 THEN "create" ELSE "install"]
  /\ Tear(Deleting)
  /\ UNCHANGED <<manifest, disk, lockOf, holder, requests, faults, split, mixed, stuck>>

InstallRuntime(c) ==
  /\ caller[c].at = "install"
  /\ files' = TRUE
  /\ runtime' = caller[c].id
  /\ kindHolder' = NoCaller
  /\ caller' = [caller EXCEPT ![c].runtime = caller[c].id, ![c].at = "create"]
  /\ UNCHANGED <<env, dir, lockOf, holder, requests, faults, ghosts>>

\* The installation fails, or the insertion of its row.
InstallFails(c) ==
  /\ caller[c].at = "install"
  /\ files' \in {files, TRUE}
  /\ kindHolder' = NoCaller
  /\ Return(c)
  /\ UNCHANGED <<manifest, dir, lockOf, requests, faults, ghosts>>

\* The row is inserted as installing; an owner with a row has no second one.
CreateRow(c) ==
  LET o == caller[c].of
      r == [id |-> caller[c].id, status |-> "installing",
            deps |-> caller[c].deps, runtime |-> caller[c].runtime] IN
  /\ caller[c].at = "create"
  /\ IF env[o] = NoEnv
       THEN /\ env' = [env EXCEPT ![o] = r]
            /\ caller' = [caller EXCEPT ![c].row = r, ![c].at = "build"]
            /\ UNCHANGED holder
       ELSE Return(c) /\ UNCHANGED env
  /\ UNCHANGED <<runtime, disk, lockOf, kindHolder, requests, faults, ghosts>>

\* The directory is made, and the dependencies are installed into it.
CreateDir(c) ==
  /\ caller[c].at = "build"
  /\ dir' = [dir EXCEPT ![caller[c].of] =
               [deps |-> caller[c].deps, there |-> TRUE, whole |-> FALSE]]
  /\ Go(c, "deps")
  /\ UNCHANGED <<manifest, files, locks, requests, faults, ghosts>>

InstallDeps(c) ==
  LET o == caller[c].of IN
  /\ caller[c].at = "deps" /\ dir[o].there
  /\ dir' = [dir EXCEPT ![o] =
               [deps |-> caller[c].deps, there |-> TRUE, whole |-> TRUE]]
  /\ caller' = [caller EXCEPT ![c].row.status = "ready", ![c].at = "save"]
  /\ UNCHANGED <<manifest, files, locks, requests, faults, ghosts>>

\* Mutant of BuildFails: who is gone does not see to the row.
BuildFailsUnmarked(c) ==
  /\ caller[c].at \in {"build", "deps"}
  /\ Return(c)
  /\ UNCHANGED <<manifest, disk, lockOf, kindHolder, requests, faults, ghosts>>

\* Either fails, and the row is marked.
BuildFails(c) ==
  /\ caller[c].at \in {"build", "deps"}
  /\ caller' = [caller EXCEPT ![c].row.status = "failed", ![c].at = "save"]
  /\ UNCHANGED <<manifest, disk, locks, requests, faults, ghosts>>

\* The row is written back: ready, failed, or as it was read and now used.
SaveRow(c) ==
  /\ caller[c].at \in {"save", "touch"}
  /\ Save(caller[c].of, caller[c].row)
  /\ Return(c)
  /\ UNCHANGED <<runtime, disk, lockOf, kindHolder, requests, faults, ghosts>>

-----------------------------------------------------------------------------
(* Without a mutex. *)

\* prepareSpawn reads the row and its runtime, and writes the row back.
PrepareSpawn(c) ==
  LET r == env[caller[c].of] IN
  /\ caller[c].at = "prepare"
  /\ IF r.status = "ready" /\ r.runtime = runtime
       THEN /\ caller' = [caller EXCEPT ![c].row = r, ![c].at = "touch"]
            /\ UNCHANGED holder
       ELSE Return(c)
  /\ UNCHANGED <<manifest, disk, lockOf, kindHolder, requests, faults, ghosts>>

\* Mutant of CheckRefs: the environments are not asked.
CheckNoRefs(c) ==
  /\ caller[c].at = "refs"
  /\ IF runtime # 0
       THEN /\ caller' = [caller EXCEPT ![c].runtime = runtime,
                                        ![c].at = "unpack"]
            /\ Tear(\E d \in Callers : caller[d].at = "create")
            /\ UNCHANGED holder
       ELSE Return(c) /\ UNCHANGED torn
  /\ UNCHANGED <<manifest, disk, lockOf, kindHolder, requests, faults, split, mixed, stuck>>

\* DeleteRuntime refuses while an environment refers to the runtime.
CheckRefs(c) ==
  /\ caller[c].at = "refs"
  /\ IF runtime # 0 /\ \A o \in Owners : env[o].runtime # runtime
       THEN /\ caller' = [caller EXCEPT ![c].runtime = runtime,
                                        ![c].at = "unpack"]
            /\ Tear(\E d \in Callers : caller[d].at = "create")
            /\ UNCHANGED holder
       ELSE Return(c) /\ UNCHANGED torn
  /\ UNCHANGED <<manifest, disk, lockOf, kindHolder, requests, faults, split, mixed, stuck>>

RemoveRuntimeDir(c) ==
  /\ caller[c].at = "unpack"
  /\ files' = FALSE
  /\ Tear(runtime # caller[c].runtime)
  /\ Go(c, "unlist")
  /\ UNCHANGED <<manifest, dir, locks, requests, faults, split, mixed, stuck>>

DeleteRuntimeRow(c) ==
  LET r == caller[c].runtime IN
  /\ caller[c].at = "unlist"
  /\ runtime' = IF runtime = r THEN 0 ELSE runtime
  /\ Return(c)
  /\ UNCHANGED <<env, disk, lockOf, kindHolder, requests, faults, ghosts>>

\* Some or all of a directory cannot be removed: that is logged, and the row is
\* deleted all the same.
RemovalFails(c) ==
  LET o == caller[c].of IN
  /\ faults < MaxFaults
  /\ faults' = faults + 1
  /\ \/ /\ caller[c].at = "rm"
        /\ dir' \in {dir, [dir EXCEPT ![o].whole = FALSE]}
        /\ Go(c, "row")
        /\ UNCHANGED torn
     \/ /\ caller[c].at = "unpack"
        /\ Tear(runtime # caller[c].runtime)
        /\ Go(c, "unlist")
        /\ UNCHANGED dir
  /\ UNCHANGED <<manifest, files, locks, requests, split, mixed, stuck>>

\* A statement on the manifest fails, and the operation returns: what it has done
\* before stays.  A row that could not be touched is used all the same.
StatementFails(c) ==
  /\ faults < MaxFaults
  /\ faults' = faults + 1
  /\ caller[c].at \in {"find", "row", "runtime", "kind", "create", "save", "touch",
                       "prepare", "refs", "unlist"}
  /\ caller[c].at = "kind" => kindHolder = NoCaller
  /\ stuck' = IF caller[c].at \in {"row", "save"} THEN stuck \cup {caller[c].row.id} ELSE stuck
  /\ torn' = IF caller[c].at = "unlist" THEN torn \cup {caller[c].runtime} ELSE torn
  /\ Return(c)
  /\ UNCHANGED <<manifest, disk, lockOf, kindHolder, requests, split, mixed>>

\* The program dies and starts again: rows and directories stay as they are.
Crash ==
  /\ faults < MaxFaults
  /\ faults' = faults + 1
  /\ split' = {}
  /\ mixed' = mixed \cup {env[o].id : o \in split}
  /\ stuck' = stuck \cup {caller[c].row.id : c \in {d \in Callers :
                 caller[d].at \in {"row"} \cup Building}}
  /\ torn' = torn \cup {caller[c].runtime : c \in {d \in Callers :
                 caller[d].at = "unlist"}}
  /\ lockOf' = [o \in Owners |-> 0]
  /\ holder' = [m \in Ids |-> NoCaller]
  /\ kindHolder' = NoCaller
  /\ caller' = [c \in Callers |-> Idle]
  /\ UNCHANGED <<manifest, disk, requests>>

-----------------------------------------------------------------------------

Request(c) ==
  \/ \E o \in Owners : Destroy(c, o) \/ Spawn(c, o)
                         \/ \E d \in Deps : EnsureEnv(c, o, d)
  \/ DeleteRuntime(c)

Step(c) ==
  \/ Lock(c) \/ FindEnv(c) \/ RemoveDir(c) \/ DeleteRow(c) \/ DropOwnerLock(c)
  \/ FindRuntime(c) \/ LockKind(c) \/ InstallRuntime(c) \/ InstallFails(c)
  \/ CreateRow(c) \/ CreateDir(c) \/ InstallDeps(c) \/ BuildFails(c)
  \/ SaveRow(c) \/ PrepareSpawn(c) \/ CheckRefs(c) \/ RemoveRuntimeDir(c)
  \/ DeleteRuntimeRow(c)

Next ==
  \/ \E c \in Callers : Request(c) \/ Step(c) \/ RemovalFails(c) \/ StatementFails(c)
  \/ Crash

Spec == Init /\ [][Next]_vars

\* Every operation goes on.
Fairness == \A c \in Callers : WF_vars(Step(c))

FairSpec == Spec /\ Fairness

-----------------------------------------------------------------------------
(* Properties. *)

Places == Critical \cup
  {"idle", "lock", "prepare", "refs", "unpack", "unlist"}

Rows == [id : 0..MaxRequests, status : {"none", "installing", "ready", "failed"},
         deps : Deps, runtime : 0..MaxRequests]

Dirs == [deps : Deps, there : BOOLEAN, whole : BOOLEAN]

\* An operation that works under its owner's mutex, and holds it.
Works(c) == caller[c].at \in Critical /\ caller[c].op # "spawn"

CallerStates ==
  [at : Places, op : {"none", "ensure", "destroy", "spawn", "delete"},
   of : Owners, id : 0..MaxRequests, mutex : 0..MaxRequests, row : Rows,
   deps : Deps, runtime : 0..MaxRequests]

TypeOK ==
  /\ env \in [Owners -> Rows]
  /\ dir \in [Owners -> Dirs]
  /\ runtime \in 0..MaxRequests /\ files \in BOOLEAN
  /\ lockOf \in [Owners -> 0..MaxRequests]
  /\ holder \in [Ids -> Callers \cup {NoCaller}]
  /\ kindHolder \in Callers \cup {NoCaller}
  /\ caller \in [Callers -> CallerStates]
  /\ requests \in 0..MaxRequests /\ faults \in 0..MaxFaults
  /\ split \subseteq Owners
  /\ mixed \subseteq 0..MaxRequests /\ stuck \subseteq 0..MaxRequests
  /\ torn \subseteq 0..MaxRequests

\* What the manifest says of an environment is so, whatever overlapped, failed or
\* was cut short on this owner before its row was inserted: a ready one has its
\* directory with its dependencies, or is being destroyed; one said to be installing
\* has somebody who installs it.  Excepted are an owner two operations work on and
\* the row they leave, and a row that was itself left half destroyed or unwritten
\* (sandbox.go EnsureEnv, destroyLocked, markEnvFailed "terminal-state write").
RowsAreTrue ==
  \A o \in Owners \ split : env[o].id \notin mixed \cup stuck =>
    /\ env[o].status = "ready" =>
         \/ dir[o].whole /\ dir[o].deps = env[o].deps
         \/ \E c \in Callers : caller[c].at = "row" /\ caller[c].of = o
    /\ env[o].status = "installing" =>
         \E c \in Callers : caller[c].at \in Building /\ caller[c].of = o

\* The runtime of an environment is registered and unpacked, unless it was
\* deleted beside the operation that chose it, or the deletion did not get through
\* (sandbox.go DeleteRuntime).
EnvHasRuntime ==
  \A o \in Owners \ split : env[o] # NoEnv /\ env[o].id \notin mixed =>
    \/ env[o].runtime \in torn
    \/ /\ env[o].runtime = runtime
       /\ files \/ \E c \in Callers : caller[c].at = "unlist"

\* Every operation comes to an end.
OperationsEnd == \A c \in Callers : caller[c].at # "idle" ~> caller[c].at = "idle"
=============================================================================
