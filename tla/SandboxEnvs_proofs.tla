-------------------------- MODULE SandboxEnvs_proofs --------------------------
(***************************************************************************)
(* Proofs about SandboxEnvs for any owners, callers and number of          *)
(* operations and failures: types, mutual exclusion on an owner and on the  *)
(* installation of the runtime, that the manifest tells the truth, and     *)
(* that an environment has its runtime.                                    *)
(***************************************************************************)
EXTENDS SandboxEnvs, TLAPS

-----------------------------------------------------------------------------
(* Types. *)

LEMMA EmptyTypes ==
    /\ NoEnv \in Rows /\ NoEnv.id = 0 /\ NoEnv.runtime = 0 /\ NoEnv.status = "none"
    /\ Absent \in Dirs /\ ~Absent.whole
    /\ Idle \in CallerStates /\ Idle.at = "idle" /\ Idle.mutex = 0 /\ Idle.id = 0
    /\ Idle.op = "none" /\ Idle.runtime = 0 /\ Idle.row = NoEnv
<1>1. (CHOOSE d \in Deps : TRUE) \in Deps /\ (CHOOSE o \in Owners : TRUE) \in Owners
  BY NamesAssumption
<1>2. 0 \in 0..MaxRequests
  BY BoundsAssumption
<1>3. NoEnv \in Rows
  BY <1>1, <1>2 DEF NoEnv, Rows
<1>4. Absent \in Dirs
  BY <1>3 DEF Absent, Dirs, Rows
<1>5. Idle \in CallerStates
  BY <1>1, <1>2, <1>3 DEF Idle, CallerStates, Places, Rows
<1> QED
  BY <1>3, <1>4, <1>5 DEF NoEnv, Absent, Idle

\* A caller returns: it rests, and its mutexes are free.
LEMMA ReturnType ==
    ASSUME TypeOK, NEW c \in Callers, Return(c)
    PROVE  /\ caller' \in [Callers -> CallerStates]
           /\ holder' \in [Ids -> Callers \cup {NoCaller}]
  BY EmptyTypes DEF Return, TypeOK

\* The runtime's row is marked as torn, if there is one.
LEMMA TearType ==
    ASSUME TypeOK, NEW both, Tear(both)
    PROVE  torn' \subseteq 0..MaxRequests
  BY DEF Tear, TypeOK

LEMMA InitType == ASSUME Init PROVE TypeOK
<1>1. /\ env \in [Owners -> Rows] /\ dir \in [Owners -> Dirs]
      /\ caller \in [Callers -> CallerStates]
  BY EmptyTypes DEF Init
<1>2. /\ runtime \in 0..MaxRequests /\ lockOf \in [Owners -> 0..MaxRequests]
      /\ requests \in 0..MaxRequests /\ faults \in 0..MaxFaults
  BY BoundsAssumption DEF Init
<1> QED
  BY <1>1, <1>2 DEF Init, TypeOK

\* An operation begins.
LEMMA RequestType == ASSUME TypeOK, NEW c \in Callers, Request(c) PROVE TypeOK'
<1>1. ASSUME requests < MaxRequests, requests' = requests + 1
      PROVE  requests' \in 0..MaxRequests /\ requests + 1 \in 0..MaxRequests
  BY <1>1, BoundsAssumption DEF TypeOK
<1>2. ASSUME NEW o \in Owners, NEW op \in {"spawn", "delete"}, NEW at \in {"prepare", "refs"},
             Begin(c, o, op, at)
      PROVE  TypeOK'
  <2>1. [Idle EXCEPT !.at = at, !.op = op, !.of = o, !.id = requests + 1] \in CallerStates
    BY <1>1, <1>2, EmptyTypes DEF Begin, CallerStates, Places
  <2> QED
    BY <1>1, <1>2, <2>1 DEF Begin, TypeOK, manifest, disk, locks, ghosts
<1>3. ASSUME NEW o \in Owners, NEW op \in {"ensure", "destroy"}, NEW d \in Deps,
             BeginLocked(c, o, op, d)
      PROVE  TypeOK'
  <2> DEFINE m == IF lockOf[o] = 0 THEN requests + 1 ELSE lockOf[o]
  <2>1. m \in 0..MaxRequests
    BY <1>1, <1>3 DEF BeginLocked, TypeOK
  <2>2. /\ caller' = [caller EXCEPT ![c] =
              [Idle EXCEPT !.at = "lock", !.op = op, !.of = o, !.id = requests + 1,
                           !.mutex = m, !.deps = d]]
        /\ lockOf' = [lockOf EXCEPT ![o] = m]
    BY <1>3 DEF BeginLocked
  <2> HIDE DEF m
  <2>3. [Idle EXCEPT !.at = "lock", !.op = op, !.of = o, !.id = requests + 1,
                     !.mutex = m, !.deps = d] \in CallerStates
    BY <1>1, <1>3, <2>1, EmptyTypes DEF BeginLocked, CallerStates, Places
  <2>4. caller' \in [Callers -> CallerStates] /\ lockOf' \in [Owners -> 0..MaxRequests]
    BY <2>1, <2>2, <2>3 DEF TypeOK
  <2> QED
    BY <1>1, <1>3, <2>4 DEF BeginLocked, TypeOK, manifest, disk, ghosts
<1>4. NoEnv.deps \in Deps
  BY EmptyTypes DEF Rows
<1> QED
  BY <1>2, <1>3, <1>4 DEF Request, Destroy, Spawn, EnsureEnv, DeleteRuntime

\* A step under the owner's mutex up to the choice of the runtime.
LEMMA EarlyType ==
    ASSUME TypeOK, NEW c \in Callers,
           Lock(c) \/ FindEnv(c) \/ RemoveDir(c) \/ DeleteRow(c) \/ DropOwnerLock(c)
    PROVE  TypeOK'
<1>0. caller[c] \in CallerStates /\ caller[c].of \in Owners
  BY DEF TypeOK, CallerStates
<1>1. CASE Lock(c)
  <2>1. caller' \in [Callers -> CallerStates] /\ holder' \in [Ids -> Callers \cup {NoCaller}]
    BY <1>0, <1>1 DEF Lock, Go, TypeOK, CallerStates, Places, Critical
  <2>2. split' \subseteq Owners /\ mixed' \subseteq 0..MaxRequests
    <3>1. env[caller[c].of].id \in 0..MaxRequests
      BY <1>0 DEF TypeOK, Rows
    <3> QED
      BY <1>1, <3>1 DEF Lock, TypeOK
  <2> QED
    BY <1>1, <2>1, <2>2 DEF Lock, TypeOK, manifest, disk
<1>2. CASE FindEnv(c)
  <2>1. caller' \in [Callers -> CallerStates]
    BY <1>0, <1>2 DEF FindEnv, TypeOK, CallerStates, Places, Critical
  <2> QED
    BY <1>2, <2>1 DEF FindEnv, TypeOK, manifest, disk, locks, ghosts
<1>3. CASE RemoveDir(c)
  BY <1>0, <1>3, EmptyTypes DEF RemoveDir, Go, TypeOK, CallerStates, Places, Critical,
                                manifest, locks, ghosts
<1>4. CASE DeleteRow(c)
  <2>1. caller' \in [Callers -> CallerStates]
    BY <1>0, <1>4 DEF DeleteRow, Go, TypeOK, CallerStates, Places, Critical
  <2>2. env' \in [Owners -> Rows] /\ split' \subseteq Owners
    BY <1>0, <1>4, EmptyTypes DEF DeleteRow, TypeOK
  <2> QED
    BY <1>4, <2>1, <2>2 DEF DeleteRow, TypeOK, disk, locks
<1>5. CASE DropOwnerLock(c)
  <2>1. lockOf' \in [Owners -> 0..MaxRequests] /\ split' \subseteq Owners
    BY <1>0, <1>5, BoundsAssumption DEF DropOwnerLock, TypeOK
  <2> QED
    BY <1>5, <2>1, ReturnType DEF DropOwnerLock, TypeOK, manifest, disk
<1> QED
  BY <1>1, <1>2, <1>3, <1>4, <1>5

\* The choice of the runtime.
LEMMA RuntimeType ==
    ASSUME TypeOK, NEW c \in Callers,
           FindRuntime(c) \/ LockKind(c) \/ InstallRuntime(c) \/ InstallFails(c)
    PROVE  TypeOK'
<1>0. caller[c] \in CallerStates /\ runtime \in 0..MaxRequests
  BY DEF TypeOK
<1>1. CASE FindRuntime(c)
  <2>1. caller' \in [Callers -> CallerStates]
    BY <1>0, <1>1 DEF FindRuntime, TypeOK, CallerStates, Places, Critical
  <2> QED
    BY <1>1, <2>1, TearType DEF FindRuntime, TypeOK, manifest, disk, locks
<1>2. CASE LockKind(c)
  <2>1. caller' \in [Callers -> CallerStates]
    BY <1>0, <1>2 DEF LockKind, TypeOK, CallerStates, Places, Critical
  <2>2. kindHolder' \in Callers \cup {NoCaller}
    BY <1>2 DEF LockKind
  <2> QED
    BY <1>2, <2>1, <2>2, TearType DEF LockKind, TypeOK, manifest, disk
<1>3. CASE InstallRuntime(c)
  <2>1. caller' \in [Callers -> CallerStates] /\ runtime' \in 0..MaxRequests
    BY <1>0, <1>3 DEF InstallRuntime, TypeOK, CallerStates, Places, Critical
  <2> QED
    BY <1>3, <2>1 DEF InstallRuntime, TypeOK, ghosts
<1>4. CASE InstallFails(c)
  BY <1>4, ReturnType DEF InstallFails, TypeOK, manifest, ghosts
<1> QED
  BY <1>1, <1>2, <1>3, <1>4

\* The environment is built.
LEMMA BuildType ==
    ASSUME TypeOK, NEW c \in Callers,
           CreateRow(c) \/ CreateDir(c) \/ InstallDeps(c) \/ BuildFails(c) \/ SaveRow(c)
    PROVE  TypeOK'
<1>0. /\ caller[c] \in CallerStates /\ caller[c].of \in Owners /\ caller[c].row \in Rows
      /\ caller[c].deps \in Deps /\ caller[c].id \in 0..MaxRequests
      /\ caller[c].runtime \in 0..MaxRequests
  BY DEF TypeOK, CallerStates
<1>1. CASE CreateRow(c)
  <2> DEFINE r == [id |-> caller[c].id, status |-> "installing",
                   deps |-> caller[c].deps, runtime |-> caller[c].runtime]
  <2>1. r \in Rows
    BY <1>0 DEF Rows
  <2>2. CASE env[caller[c].of] = NoEnv
    <3>1. /\ env' = [env EXCEPT ![caller[c].of] = r] /\ holder' = holder
          /\ caller' = [caller EXCEPT ![c].row = r, ![c].at = "build"]
      BY <1>1, <2>2 DEF CreateRow
    <3> HIDE DEF r
    <3>2. env' \in [Owners -> Rows] /\ caller' \in [Callers -> CallerStates]
      BY <1>0, <2>1, <3>1 DEF TypeOK, CallerStates, Places, Critical
    <3> QED
      BY <1>1, <3>1, <3>2 DEF CreateRow, TypeOK, disk, ghosts
  <2>3. CASE env[caller[c].of] # NoEnv
    BY <1>1, <2>3, ReturnType DEF CreateRow, TypeOK, disk, ghosts
  <2> QED
    BY <2>2, <2>3
<1>2. CASE CreateDir(c)
  <2>1. dir' \in [Owners -> Dirs] /\ caller' \in [Callers -> CallerStates]
    BY <1>0, <1>2 DEF CreateDir, Go, TypeOK, CallerStates, Places, Critical, Dirs
  <2> QED
    BY <1>2, <2>1 DEF CreateDir, TypeOK, manifest, locks, ghosts
<1>3. CASE InstallDeps(c)
  <2>1. [caller[c].row EXCEPT !.status = "ready"] \in Rows
    BY <1>0 DEF Rows
  <2>2. dir' \in [Owners -> Dirs]
    BY <1>0, <1>3 DEF InstallDeps, TypeOK, Dirs
  <2>3. caller' \in [Callers -> CallerStates]
    BY <1>0, <1>3, <2>1 DEF InstallDeps, TypeOK, CallerStates, Places, Critical
  <2> QED
    BY <1>3, <2>2, <2>3 DEF InstallDeps, TypeOK, manifest, locks, ghosts
<1>4. CASE BuildFails(c)
  <2>1. [caller[c].row EXCEPT !.status = "failed"] \in Rows
    BY <1>0 DEF Rows
  <2>2. caller' \in [Callers -> CallerStates]
    BY <1>0, <1>4, <2>1 DEF BuildFails, TypeOK, CallerStates, Places, Critical
  <2> QED
    BY <1>4, <2>2 DEF BuildFails, TypeOK, manifest, disk, locks, ghosts
<1>5. CASE SaveRow(c)
  <2>1. env' \in [Owners -> Rows]
    BY <1>0, <1>5 DEF SaveRow, Save, TypeOK
  <2> QED
    BY <1>5, <2>1, ReturnType DEF SaveRow, TypeOK, disk, ghosts
<1> QED
  BY <1>1, <1>2, <1>3, <1>4, <1>5

\* What takes no mutex.
LEMMA FreeType ==
    ASSUME TypeOK, NEW c \in Callers,
           PrepareSpawn(c) \/ CheckRefs(c) \/ RemoveRuntimeDir(c) \/ DeleteRuntimeRow(c)
    PROVE  TypeOK'
<1>0. caller[c] \in CallerStates /\ caller[c].of \in Owners /\ runtime \in 0..MaxRequests
  BY DEF TypeOK, CallerStates
<1>1. CASE PrepareSpawn(c)
  <2>1. caller' \in [Callers -> CallerStates] /\ holder' \in [Ids -> Callers \cup {NoCaller}]
    BY <1>0, <1>1, ReturnType DEF PrepareSpawn, TypeOK, CallerStates, Places, Critical
  <2> QED
    BY <1>1, <2>1 DEF PrepareSpawn, TypeOK, manifest, disk, ghosts
<1>2. CASE CheckRefs(c)
  <2>1. caller' \in [Callers -> CallerStates] /\ holder' \in [Ids -> Callers \cup {NoCaller}]
    <3>1. CASE runtime # 0 /\ \A o \in Owners : env[o].runtime # runtime
      <4>1. holder' = holder /\ caller' = [caller EXCEPT ![c].runtime = runtime, ![c].at = "unpack"]
        BY <1>2, <3>1 DEF CheckRefs
      <4> QED
        BY <1>0, <4>1 DEF TypeOK, CallerStates, Places
    <3>2. CASE ~(runtime # 0 /\ \A o \in Owners : env[o].runtime # runtime)
      BY <1>2, <3>2, ReturnType DEF CheckRefs
    <3> QED
      BY <3>1, <3>2
  <2>2. torn' \subseteq 0..MaxRequests
    BY <1>2, TearType DEF CheckRefs, TypeOK
  <2> QED
    BY <1>2, <2>1, <2>2 DEF CheckRefs, TypeOK, manifest, disk
<1>3. CASE RemoveRuntimeDir(c)
  <2>1. caller' \in [Callers -> CallerStates]
    BY <1>0, <1>3 DEF RemoveRuntimeDir, Go, TypeOK, CallerStates, Places
  <2> QED
    BY <1>3, <2>1, TearType DEF RemoveRuntimeDir, TypeOK, manifest, locks
<1>4. CASE DeleteRuntimeRow(c)
  <2>1. runtime' \in 0..MaxRequests
    BY <1>0, <1>4, BoundsAssumption DEF DeleteRuntimeRow
  <2> QED
    BY <1>4, <2>1, ReturnType DEF DeleteRuntimeRow, TypeOK, disk, ghosts
<1> QED
  BY <1>1, <1>2, <1>3, <1>4

\* A statement or a removal fails.
LEMMA FailType ==
    ASSUME TypeOK, NEW c \in Callers, RemovalFails(c) \/ StatementFails(c)
    PROVE  TypeOK'
<1>0. /\ caller[c] \in CallerStates /\ caller[c].of \in Owners
      /\ caller[c].row.id \in 0..MaxRequests /\ caller[c].runtime \in 0..MaxRequests
  BY DEF TypeOK, CallerStates, Rows
<1>1. faults < MaxFaults /\ faults' = faults + 1
  BY DEF RemovalFails, StatementFails
<1>2. faults' \in 0..MaxFaults
  BY <1>1, BoundsAssumption DEF TypeOK
<1>3. CASE RemovalFails(c)
  <2>1. dir' \in [Owners -> Dirs]
    <3>0. dir[caller[c].of] \in Dirs
      BY <1>0 DEF TypeOK
    <3>1. [dir[caller[c].of] EXCEPT !.whole = FALSE] \in Dirs
      BY <3>0 DEF Dirs
    <3>2. [dir EXCEPT ![caller[c].of].whole = FALSE]
            = [dir EXCEPT ![caller[c].of] = [dir[caller[c].of] EXCEPT !.whole = FALSE]]
      BY <1>0 DEF TypeOK
    <3> QED
      BY <1>0, <1>3, <3>1, <3>2 DEF RemovalFails, TypeOK
  <2>2. caller' \in [Callers -> CallerStates]
    BY <1>0, <1>3 DEF RemovalFails, Go, TypeOK, CallerStates, Places, Critical
  <2>3. torn' \subseteq 0..MaxRequests
    BY <1>3, TearType DEF RemovalFails, TypeOK
  <2> QED
    BY <1>2, <1>3, <2>1, <2>2, <2>3 DEF RemovalFails, TypeOK, manifest, locks
<1>4. CASE StatementFails(c)
  <2>1. stuck' \subseteq 0..MaxRequests /\ torn' \subseteq 0..MaxRequests
    BY <1>0, <1>4 DEF StatementFails, TypeOK
  <2> QED
    BY <1>2, <1>4, <2>1, ReturnType DEF StatementFails, TypeOK, manifest, disk
<1> QED
  BY <1>3, <1>4

LEMMA CrashType == ASSUME TypeOK, Crash PROVE TypeOK'
<1>1. /\ \A c \in Callers : /\ caller[c].of \in Owners /\ caller[c].runtime \in 0..MaxRequests
                             /\ caller[c].row.id \in 0..MaxRequests
      /\ \A o \in Owners : env[o].id \in 0..MaxRequests
  BY DEF TypeOK, CallerStates, Rows
<1>2. split' \subseteq Owners /\ torn' \subseteq 0..MaxRequests
  BY <1>1, ZenonT(60) DEF Crash, TypeOK
<1>3. mixed' \subseteq 0..MaxRequests /\ stuck' \subseteq 0..MaxRequests
  BY <1>1, ZenonT(60) DEF Crash, TypeOK
<1>4. faults' \in 0..MaxFaults /\ 0 \in 0..MaxRequests
  BY BoundsAssumption DEF Crash, TypeOK
<1> QED
  BY <1>2, <1>3, <1>4, EmptyTypes DEF Crash, TypeOK, manifest, disk

LEMMA NextType == ASSUME TypeOK, [Next]_vars PROVE TypeOK'
<1>1. CASE UNCHANGED vars
  BY <1>1 DEF vars, manifest, disk, locks, ghosts, TypeOK
<1> QED
  BY <1>1, RequestType, EarlyType, RuntimeType, BuildType, FreeType, FailType, CrashType
     DEF Next, Step

\* Rows, directories, mutexes and goroutines have their types (app/sandbox).
THEOREM TypeCorrect == Spec => []TypeOK
<1>1. Init => TypeOK
  BY InitType
<1>2. TypeOK /\ [Next]_vars => TypeOK'
  BY NextType
<1> QED
  BY <1>1, <1>2, PTL DEF Spec

-----------------------------------------------------------------------------
(* Who works on an owner.                                                   *)

\* What a caller does once its operation has begun.
Acts(c) == Step(c) \/ RemovalFails(c) \/ StatementFails(c)

\* An overlap of operations is over, and leaves its row behind.
Heals(c) ==
  /\ Lock(c) /\ Calm(c)
  /\ split' = split \ {caller[c].of} /\ mixed' = mixed \cup {env[caller[c].of].id}

\* A step leaves the other callers alone; its own goes on, or is through.
Others(c) == \A d \in Callers \ {c} : caller'[d] = caller[d]
Moves(c) ==
  /\ Others(c)
  /\ caller'[c].of = caller[c].of /\ caller'[c].op = caller[c].op
  /\ caller'[c].id = caller[c].id /\ caller'[c].mutex = caller[c].mutex
  /\ caller[c].at \notin {"idle", "touch"} /\ caller'[c].at \notin {"idle", "lock", "prepare"}
  /\ caller[c].at = "prepare" => caller'[c].at = "touch"
  /\ caller'[c].at \in Critical => caller[c].at \in Critical \cup {"prepare", "lock"}
  /\ UNCHANGED lockOf /\ (split \subseteq split' \/ Heals(c))
Stays(c) ==
  /\ Moves(c) /\ caller[c].at # "lock"
  /\ UNCHANGED holder /\ split \subseteq split'
Ends(c) ==
  /\ Others(c)
  /\ Return(c) /\ caller'[c] = Idle
  /\ (UNCHANGED lockOf /\ split \subseteq split') \/ DropOwnerLock(c)

\* Every step of a caller is of one of three kinds.
LEMMA StepShape ==
    ASSUME TypeOK, NEW c \in Callers, Acts(c)
    PROVE  (Lock(c) /\ Moves(c)) \/ Stays(c) \/ Ends(c)
<1>0. caller \in [Callers -> CallerStates] /\ caller[c] \in CallerStates
  BY DEF TypeOK
<1>1. ASSUME Return(c) PROVE Others(c) /\ caller'[c] = Idle
  BY <1>0, <1>1 DEF Return, Others
<1>2. CASE Lock(c)
  <2>1. split \subseteq split' \/ Heals(c)
    BY <1>2 DEF Lock, Heals
  <2> QED
    BY <1>0, <1>2, <2>1 DEF Lock, Go, Moves, Others, CallerStates, Critical
<1>3. CASE FindEnv(c)
  BY <1>0, <1>3 DEF FindEnv, Stays, Moves, Others, CallerStates, Critical, ghosts, locks
<1>4. CASE RemoveDir(c)
  BY <1>0, <1>4 DEF RemoveDir, Go, Stays, Moves, Others, CallerStates, Critical, ghosts, locks
<1>5. CASE DeleteRow(c)
  BY <1>0, <1>5 DEF DeleteRow, Go, Stays, Moves, Others, CallerStates, Critical, locks
<1>6. CASE DropOwnerLock(c)
  BY <1>0, <1>1, <1>6 DEF DropOwnerLock, Ends
<1>7. CASE FindRuntime(c)
  BY <1>0, <1>7 DEF FindRuntime, Stays, Moves, Others, CallerStates, Critical, locks
<1>8. CASE LockKind(c)
  BY <1>0, <1>8 DEF LockKind, Stays, Moves, Others, CallerStates, Critical
<1>9. CASE InstallRuntime(c)
  BY <1>0, <1>9 DEF InstallRuntime, Stays, Moves, Others, CallerStates, Critical, ghosts
<1>10. CASE InstallFails(c) \/ SaveRow(c)
  BY <1>0, <1>1, <1>10 DEF InstallFails, SaveRow, Ends, ghosts
<1>11. CASE CreateRow(c)
  <2>1. CASE env[caller[c].of] = NoEnv
    BY <1>0, <1>11, <2>1 DEF CreateRow, Stays, Moves, Others, CallerStates, Critical, ghosts
  <2>2. CASE env[caller[c].of] # NoEnv
    BY <1>1, <1>11, <2>2 DEF CreateRow, Ends, ghosts
  <2> QED
    BY <2>1, <2>2
<1>12. CASE CreateDir(c)
  BY <1>0, <1>12 DEF CreateDir, Go, Stays, Moves, Others, CallerStates, Critical, ghosts, locks
<1>13. CASE InstallDeps(c)
  BY <1>0, <1>13 DEF InstallDeps, Stays, Moves, Others, CallerStates, Critical, ghosts, locks
<1>14. CASE BuildFails(c)
  BY <1>0, <1>14 DEF BuildFails, Stays, Moves, Others, CallerStates, Critical, ghosts, locks
<1>15. CASE PrepareSpawn(c)
  <2>1. CASE Return(c)
    BY <1>1, <1>15, <2>1 DEF PrepareSpawn, Ends, ghosts
  <2>2. CASE ~Return(c)
    BY <1>0, <1>15, <2>2 DEF PrepareSpawn, Stays, Moves, Others, CallerStates, Critical, ghosts
  <2> QED
    BY <2>1, <2>2
<1>16. CASE CheckRefs(c)
  <2>1. CASE Return(c)
    BY <1>1, <1>16, <2>1 DEF CheckRefs, Ends
  <2>2. CASE ~Return(c)
    <3>1. /\ caller[c].at = "refs" /\ UNCHANGED <<holder, lockOf, split>>
          /\ caller' = [caller EXCEPT ![c].runtime = runtime, ![c].at = "unpack"]
      BY <1>16, <2>2 DEF CheckRefs
    <3> QED
      BY <1>0, <3>1 DEF Stays, Moves, Others, CallerStates, Critical
  <2> QED
    BY <2>1, <2>2
<1>17. CASE RemoveRuntimeDir(c)
  BY <1>0, <1>17 DEF RemoveRuntimeDir, Go, Stays, Moves, Others, CallerStates, Critical, locks
<1>18. CASE DeleteRuntimeRow(c)
  BY <1>0, <1>1, <1>18 DEF DeleteRuntimeRow, Ends, ghosts
<1>19. CASE RemovalFails(c)
  BY <1>0, <1>19 DEF RemovalFails, Go, Stays, Moves, Others, CallerStates, Critical, locks
<1>20. CASE StatementFails(c)
  BY <1>1, <1>20 DEF StatementFails, Ends
<1> QED
  BY <1>2, <1>3, <1>4, <1>5, <1>6, <1>7, <1>8, <1>9, <1>10, <1>11, <1>12, <1>13, <1>14,
     <1>15, <1>16, <1>17, <1>18, <1>19, <1>20 DEF Acts, Step

\* How an operation begins.
Begun(c) == [Idle EXCEPT !.at = caller'[c].at, !.op = caller'[c].op, !.of = caller'[c].of,
                         !.id = requests + 1, !.mutex = caller'[c].mutex, !.deps = caller'[c].deps]
LEMMA RequestShape ==
    ASSUME TypeOK, NEW c \in Callers, Request(c)
    PROVE  /\ Others(c) /\ caller[c].at = "idle" /\ caller'[c] = Begun(c)
           /\ requests' = requests + 1
           /\ UNCHANGED <<env, runtime, dir, files, holder, kindHolder, ghosts>>
           /\ \/ UNCHANGED lockOf /\ caller'[c].mutex = 0
                 /\ <<caller'[c].at, caller'[c].op>> \in {<<"prepare", "spawn">>, <<"refs", "delete">>}
              \/ /\ caller'[c].at = "lock" /\ caller'[c].op # "spawn" /\ caller'[c].mutex # 0
                 /\ lockOf' = [lockOf EXCEPT ![caller'[c].of] = caller'[c].mutex]
                 /\ lockOf[caller'[c].of] \in {0, caller'[c].mutex}
<1>0. /\ caller \in [Callers -> CallerStates] /\ Idle \in CallerStates /\ Idle.mutex = 0
      /\ requests \in 0..MaxRequests /\ lockOf \in [Owners -> 0..MaxRequests]
  BY EmptyTypes DEF TypeOK
<1>1. ASSUME NEW o \in Owners, NEW op, NEW at, Begin(c, o, op, at)
      PROVE  /\ Others(c) /\ caller[c].at = "idle" /\ caller'[c] = Begun(c)
             /\ requests' = requests + 1 /\ UNCHANGED lockOf /\ caller'[c].mutex = 0
             /\ caller'[c].at = at /\ caller'[c].op = op
             /\ UNCHANGED <<env, runtime, dir, files, holder, kindHolder, ghosts>>
  <2>1. caller'[c] = [Idle EXCEPT !.at = at, !.op = op, !.of = o, !.id = requests + 1]
    BY <1>0, <1>1 DEF Begin
  <2>2. caller'[c].at = at /\ caller'[c].op = op /\ caller'[c].of = o
        /\ caller'[c].mutex = Idle.mutex /\ caller'[c].deps = Idle.deps
    BY <1>0, <2>1 DEF CallerStates
  <2>3. caller'[c] = Begun(c)
    BY <1>0, <2>1, <2>2 DEF Begun, CallerStates
  <2> QED
    BY <1>0, <1>1, <2>2, <2>3 DEF Begin, Others, manifest, disk, locks, ghosts
<1>2. ASSUME NEW o \in Owners, NEW op \in {"ensure", "destroy"}, NEW d, BeginLocked(c, o, op, d)
      PROVE  /\ Others(c) /\ caller[c].at = "idle" /\ caller'[c] = Begun(c)
             /\ requests' = requests + 1
             /\ caller'[c].at = "lock" /\ caller'[c].op # "spawn" /\ caller'[c].mutex # 0
             /\ lockOf' = [lockOf EXCEPT ![caller'[c].of] = caller'[c].mutex]
             /\ lockOf[caller'[c].of] \in {0, caller'[c].mutex}
             /\ UNCHANGED <<env, runtime, dir, files, holder, kindHolder, ghosts>>
  <2> DEFINE m == IF lockOf[o] = 0 THEN requests + 1 ELSE lockOf[o]
  <2>1. m # 0 /\ lockOf[o] \in {0, m}
    BY <1>0
  <2>2. /\ caller' = [caller EXCEPT ![c] =
              [Idle EXCEPT !.at = "lock", !.op = op, !.of = o, !.id = requests + 1,
                           !.mutex = m, !.deps = d]]
        /\ lockOf' = [lockOf EXCEPT ![o] = m]
    BY <1>2 DEF BeginLocked
  <2> HIDE DEF m
  <2>3. caller'[c] = [Idle EXCEPT !.at = "lock", !.op = op, !.of = o, !.id = requests + 1,
                                  !.mutex = m, !.deps = d]
    BY <1>0, <2>2
  <2>4. /\ caller'[c].at = "lock" /\ caller'[c].op = op /\ caller'[c].of = o
        /\ caller'[c].mutex = m /\ caller'[c].deps = d
    BY <1>0, <2>3 DEF CallerStates
  <2>5. caller'[c] = Begun(c)
    BY <1>0, <2>3, <2>4 DEF Begun
  <2>6. Others(c)
    BY <1>0, <2>2 DEF Others
  <2> QED
    BY <1>2, <2>1, <2>2, <2>4, <2>5, <2>6 DEF BeginLocked, manifest, disk, ghosts
<1>3. CASE \E o \in Owners : Destroy(c, o) \/ \E d \in Deps : EnsureEnv(c, o, d)
  BY <1>2, <1>3 DEF Destroy, EnsureEnv
<1>4. CASE DeleteRuntime(c) \/ \E o \in Owners : Spawn(c, o)
  BY <1>1, <1>4 DEF DeleteRuntime, Spawn
<1> QED
  BY <1>3, <1>4 DEF Request

\* An operation past the lock holds a mutex, the owner's own unless the map has
\* a younger one.
MutexedAt(d) ==
  /\ caller[d].at = "idle" => caller[d] = Idle
  /\ caller[d].op = "spawn" => caller[d].at \in {"prepare", "touch"}
  /\ caller[d].at = "prepare" => caller[d].op = "spawn"
  /\ caller[d].at = "lock" => caller[d].mutex # 0
  /\ caller[d].mutex # 0 =>
       lockOf[caller[d].of] = caller[d].mutex \/ caller[d].of \in split
  /\ Works(d) => caller[d].mutex # 0 /\ holder[caller[d].mutex] = d
Mutexed == \A d \in Callers : MutexedAt(d)

\* Two operations never work on one owner at the same time, as long as no Destroy
\* has dropped the owner's mutex while another waited for it.
OneAtATime ==
  \A c, d \in Callers :
    Works(c) /\ Works(d) /\ caller[c].of = caller[d].of
      /\ caller[c].of \notin split => c = d

LEMMA MutexExcludes == ASSUME Mutexed PROVE OneAtATime
  BY DEF Mutexed, MutexedAt, OneAtATime

LEMMA InitMutexed == ASSUME Init PROVE Mutexed
  BY EmptyTypes DEF Init, Mutexed, MutexedAt, Works, Critical

\* Steps of the kinds above keep it.
LEMMA MovesMutexed ==
    ASSUME TypeOK, TypeOK', Mutexed, NEW c \in Callers, (Lock(c) /\ Moves(c)) \/ Stays(c)
    PROVE  Mutexed'
<1> SUFFICES ASSUME NEW d \in Callers PROVE MutexedAt(d)'
  BY DEF Mutexed
<1>0. MutexedAt(d) /\ MutexedAt(c) /\ Moves(c)
  BY DEF Mutexed, Stays
<1>1. holder \in [Ids -> Callers \cup {NoCaller}] /\ NoCaller # d
  BY NoCallerAssumption DEF TypeOK
<1>2. ASSUME Works(d) PROVE holder'[caller[d].mutex] = d
  <2>1. CASE Lock(c)
    BY <1>0, <1>1, <1>2, <2>1 DEF Lock, MutexedAt
  <2>2. CASE Stays(c)
    BY <1>0, <1>2, <2>2 DEF Stays, MutexedAt
  <2> QED
    BY <2>1, <2>2
<1>3. CASE d # c
  <2>1. caller'[d] = caller[d] /\ lockOf' = lockOf /\ (split \subseteq split' \/ Heals(c))
    BY <1>0, <1>3 DEF Moves, Others
  <2>2. caller[d].mutex # 0 => lockOf[caller[d].of] = caller[d].mutex \/ caller[d].of \in split'
    BY <1>0, <1>3, <2>1 DEF MutexedAt, Heals, Calm
  <2> QED
    BY <1>0, <1>2, <2>1, <2>2 DEF MutexedAt, Works
<1>4. CASE d = c
  <2>1. /\ caller'[c].of = caller[c].of /\ caller'[c].op = caller[c].op
        /\ caller'[c].mutex = caller[c].mutex /\ lockOf' = lockOf
        /\ split \subseteq split' \/ Heals(c)
        /\ caller[c].at \notin {"idle", "touch"} /\ caller'[c].at \notin {"idle", "lock", "prepare"}
        /\ caller[c].at = "prepare" => caller'[c].at = "touch"
        /\ caller'[c].at \in Critical => caller[c].at \in Critical \cup {"prepare", "lock"}
    BY <1>0 DEF Moves
  <2>2. ASSUME Works(c)' PROVE caller[c].mutex # 0 /\ holder'[caller[c].mutex] = c
    <3>1. CASE Works(c)
      BY <1>0, <1>2, <1>4, <3>1 DEF MutexedAt
    <3>2. CASE caller[c].at = "lock"
      <4>1. Lock(c)
        BY <3>2 DEF Stays
      <4>2. caller[c].mutex \in Ids
        <5>1. caller[c].mutex \in 0..MaxRequests /\ caller[c].mutex # 0
          BY <1>0, <3>2 DEF MutexedAt, TypeOK, CallerStates
        <5> QED
          BY <5>1, BoundsAssumption DEF Ids
      <4> QED
        BY <1>0, <1>1, <3>2, <4>1, <4>2 DEF Lock, MutexedAt
    <3>3. CASE caller[c].at = "prepare"
      BY <1>0, <2>1, <2>2, <3>3 DEF MutexedAt, Works
    <3> QED
      BY <2>1, <2>2, <3>1, <3>2, <3>3 DEF Works
  <2>3. caller[c].mutex # 0 => lockOf[caller[c].of] = caller[c].mutex \/ caller[c].of \in split'
    BY <1>0, <2>1 DEF MutexedAt, Heals, Calm
  <2> QED
    BY <1>0, <1>4, <2>1, <2>2, <2>3 DEF MutexedAt
<1> QED
  BY <1>3, <1>4

LEMMA EndsMutexed ==
    ASSUME TypeOK, Mutexed, NEW c \in Callers, Ends(c)
    PROVE  Mutexed'
<1> SUFFICES ASSUME NEW d \in Callers PROVE MutexedAt(d)'
  BY DEF Mutexed
<1>0. MutexedAt(d)
  BY DEF Mutexed
<1>1. CASE d = c
  BY <1>1, EmptyTypes DEF Ends, MutexedAt, Works, Critical
<1>2. CASE d # c
  <2>1. caller'[d] = caller[d]
    BY <1>2 DEF Ends, Others
  <2>2. caller[d].mutex # 0 =>
           lockOf'[caller[d].of] = caller[d].mutex \/ caller[d].of \in split'
    <3>1. CASE UNCHANGED lockOf /\ split \subseteq split'
      BY <1>0, <3>1 DEF MutexedAt
    <3>2. CASE DropOwnerLock(c)
      <4>1. /\ lockOf' = [lockOf EXCEPT ![caller[c].of] = 0] /\ split \subseteq split'
            /\ caller[d].of = caller[c].of /\ caller[d].mutex # 0 => caller[c].of \in split'
        BY <1>2, <3>2 DEF DropOwnerLock
      <4>2. lockOf \in [Owners -> 0..MaxRequests]
        BY DEF TypeOK
      <4> QED
        BY <1>0, <4>1, <4>2 DEF MutexedAt
    <3> QED
      BY <3>1, <3>2 DEF Ends
  <2>3. Works(d) => holder'[caller[d].mutex] = d
    <3>1. ASSUME Works(d) PROVE caller[d].mutex \in Ids
      <4>1. caller[d].mutex \in 0..MaxRequests /\ caller[d].mutex # 0
        BY <1>0, <3>1 DEF MutexedAt, TypeOK, CallerStates
      <4> QED
        BY <4>1, BoundsAssumption DEF Ids
    <3> QED
      BY <1>0, <1>2, <3>1 DEF Ends, Return, MutexedAt
  <2> QED
    BY <1>0, <2>1, <2>2, <2>3 DEF MutexedAt, Works
<1> QED
  BY <1>1, <1>2

LEMMA RequestMutexed ==
    ASSUME TypeOK, Mutexed, NEW c \in Callers, Request(c)
    PROVE  Mutexed'
<1> SUFFICES ASSUME NEW d \in Callers PROVE MutexedAt(d)'
  BY DEF Mutexed
<1>0. MutexedAt(d) /\ lockOf \in [Owners -> 0..MaxRequests]
  BY DEF Mutexed, TypeOK
<1>1. CASE d = c
  <2>1. TypeOK'
    BY RequestType
  <2>2. caller'[c].of \in Owners
    BY <2>1 DEF TypeOK, CallerStates
  <2>3. CASE UNCHANGED lockOf /\ caller'[c].mutex = 0
    BY <1>0, <1>1, <2>3, RequestShape DEF MutexedAt, Works, Critical
  <2>4. CASE ~(UNCHANGED lockOf /\ caller'[c].mutex = 0)
    BY <1>0, <1>1, <2>2, <2>4, RequestShape DEF MutexedAt, Works, Critical
  <2> QED
    BY <2>3, <2>4
<1>2. CASE d # c
  <2>1. caller'[d] = caller[d] /\ holder' = holder /\ split' = split
    BY <1>2, RequestShape DEF Others, ghosts
  <2>2. caller[d].mutex # 0 => lockOf'[caller[d].of] = lockOf[caller[d].of] \/ caller[d].of \in split
    <3>1. caller[d].of \in Owners
      BY DEF TypeOK, CallerStates
    <3>2. \/ lockOf' = lockOf
          \/ /\ lockOf' = [lockOf EXCEPT ![caller'[c].of] = caller'[c].mutex]
             /\ lockOf[caller'[c].of] \in {0, caller'[c].mutex}
      BY RequestShape
    <3> QED
      BY <1>0, <3>1, <3>2 DEF MutexedAt
  <2> QED
    BY <1>0, <2>1, <2>2 DEF MutexedAt, Works
<1> QED
  BY <1>1, <1>2

LEMMA NextMutexed == ASSUME TypeOK, Mutexed, [Next]_vars PROVE Mutexed'
<1>1. CASE UNCHANGED vars
  BY <1>1 DEF vars, locks, ghosts, Mutexed, MutexedAt, Works
<1>2. CASE Crash
  BY <1>2, EmptyTypes DEF Crash, Mutexed, MutexedAt, Works, Critical
<1>3. ASSUME NEW c \in Callers, Request(c) PROVE Mutexed'
  BY <1>3, RequestMutexed
<1>4. ASSUME NEW c \in Callers, Acts(c) PROVE Mutexed'
  BY <1>4, StepShape, NextType, MovesMutexed, EndsMutexed DEF Next
<1> QED
  BY <1>1, <1>2, <1>3, <1>4 DEF Next, Acts

\* Two operations never work on one owner at the same time (sandbox.go lockOwner,
\* dropOwnerLock), except beside a Destroy others waited for.
THEOREM OneAtATimeInvariant == Spec => []OneAtATime
<1>1. Init => Mutexed
  BY InitMutexed
<1>2. TypeOK /\ Mutexed /\ [Next]_vars => Mutexed'
  BY NextMutexed
<1>3. Mutexed => OneAtATime
  BY MutexExcludes
<1> QED
  BY <1>1, <1>2, <1>3, TypeCorrect, PTL DEF Spec

-----------------------------------------------------------------------------
(* The installation of the runtime.                                         *)

\* The runtime is installed under the mutex of its kind, when there is none.
Installing ==
  \A c \in Callers : caller[c].at = "install" => kindHolder = c /\ runtime = 0

\* The runtime is installed by one goroutine at a time, and never over one that
\* is registered.
InstallAlone ==
  \A c \in Callers : caller[c].at = "install" =>
    /\ runtime = 0
    /\ \A d \in Callers : caller[d].at = "install" => c = d

LEMMA NextInstalling == ASSUME TypeOK, Installing, [Next]_vars PROVE Installing'
<1>0. caller \in [Callers -> CallerStates] /\ \A c \in Callers : c # NoCaller
  BY NoCallerAssumption DEF TypeOK
<1>1. ASSUME UNCHANGED <<runtime, kindHolder>>,
             \A d \in Callers : caller'[d].at = "install" => caller[d].at = "install"
      PROVE  Installing'
  BY <1>1 DEF Installing
<1>2. CASE UNCHANGED vars
  BY <1>1, <1>2 DEF vars, manifest, locks
<1>3. CASE Crash
  BY <1>3, EmptyTypes DEF Crash, Installing
<1>4. ASSUME NEW c \in Callers, Request(c) PROVE Installing'
  <2>1. \A d \in Callers : caller'[d].at = "install" => caller[d].at = "install"
    BY <1>4, RequestShape DEF Others
  <2> QED
    BY <1>1, <1>4, <2>1, RequestShape
<1>5. ASSUME NEW c \in Callers, Step(c) PROVE Installing'
  <2>0. ASSUME Return(c), NEW d \in Callers
        PROVE  caller'[d].at = "install" => caller[d].at = "install" /\ d # c
    BY <1>0, <2>0, EmptyTypes DEF Return
  <2>1. ASSUME NEW x, Go(c, x), x # "install", NEW d \in Callers
        PROVE  caller'[d].at = "install" => caller[d].at = "install" /\ d # c
    BY <1>0, <2>1 DEF Go, CallerStates
  <2>2. CASE Lock(c) \/ RemoveDir(c) \/ CreateDir(c) \/ RemoveRuntimeDir(c)
    BY <1>1, <2>1, <2>2 DEF Lock, RemoveDir, CreateDir, RemoveRuntimeDir, manifest, locks
  <2>3. CASE DeleteRow(c)
    BY <1>1, <2>1, <2>3 DEF DeleteRow, locks
  <2>4. CASE DropOwnerLock(c) \/ SaveRow(c)
    BY <1>1, <2>0, <2>4 DEF DropOwnerLock, SaveRow, manifest
  <2>5. CASE FindEnv(c)
    <3>1. caller'[c].at # "install" /\ Others(c)
      BY <1>0, <2>5 DEF FindEnv, Others, CallerStates
    <3> QED
      BY <1>1, <2>5, <3>1 DEF FindEnv, Others, manifest, locks
  <2>6. CASE FindRuntime(c) \/ InstallDeps(c) \/ BuildFails(c)
    <3>1. caller'[c].at # "install" /\ Others(c)
      BY <1>0, <2>6 DEF FindRuntime, InstallDeps, BuildFails, Others, CallerStates
    <3> QED
      BY <1>1, <2>6, <3>1 DEF FindRuntime, InstallDeps, BuildFails, Others, manifest, locks
  <2>11. CASE CreateRow(c) \/ PrepareSpawn(c) \/ CheckRefs(c)
    <3>1. \/ Return(c)
          \/ caller'[c].at # "install" /\ Others(c)
      BY <1>0, <2>11, ZenonT(60) DEF CreateRow, PrepareSpawn, CheckRefs, Others, CallerStates
    <3>2. UNCHANGED <<runtime, kindHolder>>
      BY <2>11 DEF CreateRow, PrepareSpawn, CheckRefs, manifest
    <3> QED
      BY <1>1, <2>0, <3>1, <3>2 DEF Others
  <2>7. CASE LockKind(c)
    <3>1. \A d \in Callers : caller[d].at # "install"
      BY <1>0, <2>7 DEF LockKind, Installing
    <3> QED
      BY <1>0, <2>7, <3>1 DEF LockKind, Installing, manifest
  <2>8. CASE InstallRuntime(c) \/ InstallFails(c)
    <3>1. \A d \in Callers : caller[d].at = "install" => d = c
      BY <1>0, <2>8 DEF InstallRuntime, InstallFails, Installing
    <3>2. Return(c) \/ (caller'[c].at # "install" /\ Others(c))
      BY <1>0, <2>8 DEF InstallRuntime, InstallFails, Others, CallerStates
    <3>3. \A d \in Callers : caller'[d].at # "install"
      BY <2>0, <3>1, <3>2 DEF Others
    <3> QED
      BY <3>3 DEF Installing
  <2>9. CASE DeleteRuntimeRow(c)
    BY <1>0, <2>0, <2>9 DEF DeleteRuntimeRow, Installing
  <2> QED
    BY <1>5, <2>1, <2>2, <2>3, <2>4, <2>5, <2>6, <2>7, <2>8, <2>9, <2>11 DEF Step
<1>6. ASSUME NEW c \in Callers, RemovalFails(c) \/ StatementFails(c) PROVE Installing'
  <2>1. ASSUME NEW d \in Callers PROVE caller'[d].at = "install" => caller[d].at = "install"
    <3>1. CASE Return(c)
      BY <1>0, <3>1, EmptyTypes DEF Return
    <3>2. CASE Go(c, "row") \/ Go(c, "unlist")
      BY <1>0, <3>2 DEF Go, CallerStates
    <3> QED
      BY <1>6, <3>1, <3>2 DEF RemovalFails, StatementFails
  <2>2. UNCHANGED <<runtime, kindHolder>>
    BY <1>6 DEF RemovalFails, StatementFails, manifest, locks
  <2> QED
    BY <1>1, <2>1, <2>2
<1> QED
  BY <1>2, <1>3, <1>4, <1>5, <1>6 DEF Next

\* The runtime is installed once, whoever asks for it (sandbox.go EnsureRuntime).
THEOREM InstallAloneInvariant == Spec => []InstallAlone
<1>1. Init => Installing
  BY EmptyTypes DEF Init, Installing
<1>2. TypeOK /\ Installing /\ [Next]_vars => Installing'
  BY NextInstalling
<1>3. Installing => InstallAlone
  BY DEF Installing, InstallAlone
<1> QED
  BY <1>1, <1>2, <1>3, TypeCorrect, PTL DEF Spec

-----------------------------------------------------------------------------
(* The rows of the manifest.                                                *)

\* What an operation knows of its owner's row and directory.
HoldsAt(c) ==
  LET o == caller[c].of
      r == caller[c].row IN
  o \notin split =>
    /\ caller[c].at \in {"rm", "row"} => env[o] = r
    /\ caller[c].at \in {"drop", "runtime", "kind", "install", "create"} => env[o] = NoEnv
    /\ caller[c].at \in {"build", "deps"} =>
         env[o] = r /\ r.status = "installing" /\ r.deps = caller[c].deps
    /\ caller[c].at = "save" =>
         /\ env[o] = [r EXCEPT !.status = "installing"] /\ r.status \in {"ready", "failed"}
         /\ r.status = "ready" => dir[o].whole /\ dir[o].deps = r.deps
    /\ caller[c].at = "touch" => env[o] = r /\ r.status = "ready"
Kept == \A c \in Callers : HoldsAt(c)

\* What the row says is so.
BuiltAt(o) ==
  o \notin split /\ env[o].id \notin mixed \cup stuck =>
    /\ env[o].status = "ready" =>
         \/ dir[o].whole /\ dir[o].deps = env[o].deps
         \/ \E c \in Callers : caller[c].at = "row" /\ caller[c].of = o
    /\ env[o].status = "installing" =>
         \E c \in Callers : caller[c].at \in Building /\ caller[c].of = o
Built == \A o \in Owners : BuiltAt(o)

\* A step that concerns one owner leaves what the others know true: another that
\* works on this owner there is none, and a copy of the row is what it was.
LEMMA OthersHold ==
    ASSUME Mutexed, Kept, NEW c \in Callers, NEW d \in Callers \ {c}, Others(c),
           split \subseteq split',
           \A x \in Owners : x # caller[c].of => env'[x] = env[x] /\ dir'[x] = dir[x],
           TypeOK,
           \/ caller[c].of \in split'
           \/ env'[caller[c].of] = env[caller[c].of] /\ dir'[caller[c].of] = dir[caller[c].of]
           \/ /\ Works(c)
              /\ caller[d].at = "touch" /\ caller[d].of = caller[c].of =>
                   env'[caller[c].of] = env[caller[c].of]
    PROVE  HoldsAt(d)'
<1>1. caller'[d] = caller[d] /\ HoldsAt(d) /\ MutexedAt(d) /\ caller[d].of \in Owners
  BY DEF Others, Kept, Mutexed, TypeOK, CallerStates
<1>2. CASE caller[d].of \in split'
  BY <1>1, <1>2 DEF HoldsAt
<1>3. CASE env'[caller[d].of] = env[caller[d].of] /\ dir'[caller[d].of] = dir[caller[d].of]
  BY <1>1, <1>3 DEF HoldsAt
<1>4. CASE caller[d].of = caller[c].of /\ caller[d].of \notin split' /\ Works(c)
  <2>1. ~Works(d)
    BY <1>4, MutexExcludes DEF OneAtATime
  <2>2. caller[d].at \in Critical => caller[d].at = "touch"
    BY <1>1, <2>1 DEF Works, MutexedAt, Critical
  <2>3. CASE caller[d].at = "touch"
    <3>1. env'[caller[d].of] = env[caller[d].of]
      BY <1>2, <1>3, <1>4, <2>3
    <3> QED
      BY <1>1, <2>3, <3>1 DEF HoldsAt
  <2>4. CASE caller[d].at \notin Critical
    BY <1>1, <2>4 DEF HoldsAt, Critical
  <2> QED
    BY <2>2, <2>3, <2>4
<1> QED
  BY <1>1, <1>2, <1>3, <1>4

\* The rows of the other owners stay true.
LEMMA OthersBuilt ==
    ASSUME Built, NEW c \in Callers, Others(c), NEW x \in Owners, x # caller[c].of,
           env'[x] = env[x], dir'[x] = dir[x],
           split \subseteq split', mixed \subseteq mixed', stuck \subseteq stuck'
    PROVE  BuiltAt(x)'
  BY DEF Built, BuiltAt, Others

\* A step that touches neither rows nor directories, by a caller no row waits for.
LEMMA QuietRows ==
    ASSUME TypeOK, Mutexed, Kept, Built, NEW c \in Callers, Others(c),
           UNCHANGED <<env, dir>>,
           split \subseteq split', mixed \subseteq mixed', stuck \subseteq stuck',
           caller[c].at \in {"row", "build", "deps", "save"} =>
             caller[c].of \in split' \/ env[caller[c].of].id \in stuck',
           HoldsAt(c)'
    PROVE  Kept' /\ Built'
<1>1. ASSUME NEW d \in Callers PROVE HoldsAt(d)'
  <2>1. CASE d = c
    BY <2>1
  <2>2. CASE d # c
    BY <2>2, OthersHold
  <2> QED
    BY <2>1, <2>2
<1>2. ASSUME NEW x \in Owners PROVE BuiltAt(x)'
  BY <1>2 DEF Built, BuiltAt, Building, Others
<1> QED
  BY <1>1, <1>2 DEF Kept, Built

\* A step under the mutex that changes its owner's row or directory.
LEMMA LoudRows ==
    ASSUME TypeOK, Mutexed, Kept, Built, NEW c \in Callers, Others(c), Works(c),
           NEW o \in Owners, o = caller[c].of,
           \A x \in Owners \ {o} : env'[x] = env[x] /\ dir'[x] = dir[x],
           split \subseteq split', mixed \subseteq mixed', stuck \subseteq stuck',
           \A d \in Callers \ {c} : caller[d].at = "touch" /\ caller[d].of = o =>
               o \in split' \/ env'[o] = env[o],
           HoldsAt(c)', BuiltAt(o)'
    PROVE  Kept' /\ Built'
<1>1. ASSUME NEW d \in Callers PROVE HoldsAt(d)'
  <2>1. CASE d = c
    BY <2>1
  <2>2. CASE d # c
    BY <2>2, OthersHold
  <2> QED
    BY <2>1, <2>2
<1>2. ASSUME NEW x \in Owners PROVE BuiltAt(x)'
  <2>1. CASE x # o
    BY <2>1, OthersBuilt
  <2> QED
    BY <2>1
<1> QED
  BY <1>1, <1>2 DEF Kept, Built

\* The mutex is taken, and an overlap may be over.
LEMMA LockStep ==
    ASSUME TypeOK, Mutexed, Kept, Built, NEW c \in Callers, Lock(c)
    PROVE  Kept' /\ Built'
<1>1. /\ UNCHANGED <<env, dir, stuck>> /\ mixed \subseteq mixed'
      /\ split \subseteq split' \/ Heals(c)
  BY DEF Lock, Heals, manifest, disk
<1>2. Others(c) /\ caller'[c].at = "find" /\ caller[c].at = "lock"
  BY DEF Lock, Go, Others, TypeOK, CallerStates
<1>3. HoldsAt(c)'
  BY <1>2 DEF HoldsAt
<1>4. CASE split \subseteq split'
  BY <1>1, <1>2, <1>3, <1>4, QuietRows
<1>5. CASE Heals(c)
  <2>1. /\ split' = split \ {caller[c].of} /\ env[caller[c].of].id \in mixed'
        /\ \A d \in Callers \ {c} : caller[d].of = caller[c].of => caller[d].at \notin Critical
    BY <1>5 DEF Heals, Calm
  <2>2. ASSUME NEW d \in Callers PROVE HoldsAt(d)'
    <3>1. CASE d = c
      BY <1>3, <3>1
    <3>2. CASE d # c /\ caller[d].of = caller[c].of
      BY <1>2, <2>1, <3>2 DEF HoldsAt, Others, Critical
    <3>3. CASE d # c /\ caller[d].of # caller[c].of
      BY <1>1, <1>2, <2>1, <3>3 DEF Kept, HoldsAt, Others
    <3> QED
      BY <3>1, <3>2, <3>3
  <2>3. ASSUME NEW x \in Owners PROVE BuiltAt(x)'
    <3>1. CASE x = caller[c].of
      BY <1>1, <2>1, <3>1 DEF BuiltAt
    <3>2. CASE x # caller[c].of
      BY <1>1, <1>2, <2>1, <3>2 DEF Built, BuiltAt, Building, Others
    <3> QED
      BY <3>1, <3>2
  <2> QED
    BY <2>2, <2>3 DEF Kept, Built
<1> QED
  BY <1>1, <1>4, <1>5

\* The steps that look and decide.
LEMMA QuietStep ==
    ASSUME TypeOK, Mutexed, Kept, Built, NEW c \in Callers,
           \/ FindEnv(c) \/ DropOwnerLock(c) \/ FindRuntime(c) \/ LockKind(c)
           \/ InstallRuntime(c) \/ InstallFails(c) \/ PrepareSpawn(c) \/ CheckRefs(c)
           \/ RemoveRuntimeDir(c) \/ DeleteRuntimeRow(c)
    PROVE  Kept' /\ Built'
<1>0. caller \in [Callers -> CallerStates] /\ caller[c] \in CallerStates /\ HoldsAt(c)
  BY DEF TypeOK, Kept
<1>1. /\ UNCHANGED <<env, dir>> /\ mixed \subseteq mixed' /\ stuck \subseteq stuck'
      /\ split \subseteq split' /\ caller[c].at \notin {"row", "build", "deps", "save"}
  BY DEF FindEnv, DropOwnerLock, FindRuntime, LockKind, InstallRuntime, InstallFails,
         PrepareSpawn, CheckRefs, RemoveRuntimeDir, DeleteRuntimeRow, manifest, disk, ghosts
<1>2. ASSUME Return(c) PROVE Others(c) /\ HoldsAt(c)'
  <2>1. caller'[c] = Idle /\ Others(c)
    BY <1>0, <1>2 DEF Return, Others
  <2> QED
    BY <2>1, EmptyTypes DEF HoldsAt
<1>3. ASSUME caller'[c].at \in {"find", "unpack", "unlist", "lock"}, Others(c) PROVE HoldsAt(c)'
  BY <1>3 DEF HoldsAt
<1>4. CASE RemoveRuntimeDir(c)
  <2>1. Others(c) /\ caller'[c].at = "unlist"
    BY <1>0, <1>4 DEF RemoveRuntimeDir, Go, Others, CallerStates
  <2> QED
    BY <1>1, <1>3, <2>1, QuietRows
<1>5. CASE FindEnv(c)
  <2>1. /\ Others(c) /\ caller'[c].of = caller[c].of /\ caller'[c].row = env[caller[c].of]
        /\ caller'[c].at = "touch" => env[caller[c].of].status = "ready"
        /\ caller'[c].at \in {"runtime", "drop"} => env[caller[c].of] = NoEnv
        /\ caller'[c].at \in {"touch", "runtime", "drop", "rm"}
    BY <1>0, <1>5 DEF FindEnv, Others, CallerStates
  <2>2. HoldsAt(c)'
    BY <1>1, <2>1 DEF HoldsAt
  <2> QED
    BY <1>1, <2>1, <2>2, QuietRows
<1>6. CASE DropOwnerLock(c) \/ InstallFails(c) \/ DeleteRuntimeRow(c)
  <2>1. Return(c)
    BY <1>6 DEF DropOwnerLock, InstallFails, DeleteRuntimeRow
  <2> QED
    BY <1>1, <1>2, <2>1, QuietRows
<1>7. CASE FindRuntime(c) \/ LockKind(c) \/ InstallRuntime(c)
  <2>1. /\ Others(c) /\ caller'[c].of = caller[c].of
        /\ caller[c].at \in {"runtime", "kind", "install"}
        /\ caller'[c].at \in {"kind", "install", "create"}
    BY <1>0, <1>7 DEF FindRuntime, LockKind, InstallRuntime, Others, CallerStates
  <2>2. HoldsAt(c)'
    BY <1>0, <1>1, <2>1 DEF HoldsAt
  <2> QED
    BY <1>1, <2>1, <2>2, QuietRows
<1>8. CASE PrepareSpawn(c)
  <2>1. CASE Return(c)
    BY <1>1, <1>2, <2>1, QuietRows
  <2>2. CASE ~Return(c)
    <3>1. /\ Others(c) /\ caller'[c].of = caller[c].of /\ caller'[c].at = "touch"
          /\ caller'[c].row = env[caller[c].of] /\ env[caller[c].of].status = "ready"
      BY <1>0, <1>8, <2>2 DEF PrepareSpawn, Others, CallerStates
    <3>2. HoldsAt(c)'
      BY <1>1, <3>1 DEF HoldsAt
    <3> QED
      BY <1>1, <3>1, <3>2, QuietRows
  <2> QED
    BY <2>1, <2>2
<1>9. CASE CheckRefs(c)
  <2>1. CASE Return(c)
    BY <1>1, <1>2, <2>1, QuietRows
  <2>2. CASE ~Return(c)
    <3>1. caller' = [caller EXCEPT ![c].runtime = runtime, ![c].at = "unpack"]
      BY <1>9, <2>2 DEF CheckRefs
    <3>2. Others(c) /\ caller'[c].at = "unpack"
      BY <1>0, <3>1 DEF Others, CallerStates
    <3> QED
      BY <1>1, <1>3, <3>2, QuietRows
  <2> QED
    BY <2>1, <2>2
<1> QED
  BY <1>4, <1>5, <1>6, <1>7, <1>8, <1>9

\* The steps that take an environment away.
LEMMA DestroyStep ==
    ASSUME TypeOK, Mutexed, Kept, Built, NEW c \in Callers,
           RemoveDir(c) \/ DeleteRow(c) \/ (RemovalFails(c) /\ caller[c].at = "rm")
    PROVE  Kept' /\ Built'
<1> SUFFICES ASSUME NEW o \in Owners, o = caller[c].of PROVE Kept' /\ Built'
  BY DEF TypeOK, CallerStates
<1>0. /\ caller \in [Callers -> CallerStates] /\ caller[c] \in CallerStates /\ HoldsAt(c)
      /\ o \in Owners /\ BuiltAt(o)
  <2>1. o \in Owners
    BY DEF TypeOK, CallerStates
  <2> QED
    BY <2>1 DEF TypeOK, Kept, Built
<1>1. Works(c) /\ caller[c].at \in {"rm", "row"}
  <2>1. caller[c].at \in {"rm", "row"}
    BY DEF RemoveDir, DeleteRow, RemovalFails
  <2> QED
    BY <2>1 DEF Works, Mutexed, MutexedAt, Critical
<1>2. CASE RemoveDir(c) \/ (RemovalFails(c) /\ caller[c].at = "rm")
  <2>1. /\ Others(c) /\ caller'[c].of = o /\ caller'[c].row = caller[c].row
        /\ caller'[c].at = "row" /\ caller[c].at = "rm" /\ caller[c].of = o
        /\ env' = env /\ split' = split /\ mixed' = mixed /\ stuck' = stuck
        /\ \A x \in Owners \ {o} : dir'[x] = dir[x]
    BY <1>0, <1>2 DEF RemoveDir, RemovalFails, Go, Others, CallerStates, TypeOK, manifest, ghosts
  <2>2. HoldsAt(c)'
    BY <1>0, <2>1 DEF HoldsAt
  <2>3. BuiltAt(o)'
    BY <1>0, <2>1 DEF BuiltAt, Others, Building
  <2> QED
    BY <1>0, <1>1, <2>1, <2>2, <2>3, LoudRows
<1>3. CASE DeleteRow(c)
  <2>1. /\ Others(c) /\ caller'[c].of = o /\ caller[c].at = "row" /\ caller[c].of = o
        /\ caller'[c].at \in {"runtime", "drop"}
        /\ env' = IF env[o].id = caller[c].row.id THEN [env EXCEPT ![o] = NoEnv] ELSE env
        /\ dir' = dir /\ mixed' = mixed /\ stuck' = stuck
        /\ split' = IF Copied(c, caller[c].row.id) THEN split \cup {o} ELSE split
    BY <1>0, <1>3 DEF DeleteRow, Go, Others, CallerStates, TypeOK, disk
  <2>2. o \notin split => env[o] = caller[c].row /\ env'[o] = NoEnv
    BY <1>0, <2>1 DEF HoldsAt, TypeOK
  <2>3. HoldsAt(c)'
    BY <2>1, <2>2 DEF HoldsAt
  <2>4. BuiltAt(o)'
    BY <2>1, <2>2, EmptyTypes DEF BuiltAt
  <2>5. ASSUME NEW d \in Callers \ {c}, caller[d].at = "touch", caller[d].of = o
        PROVE  o \in split'
    <3>1. o \notin split => caller[d].row.id = caller[c].row.id
      <4>1. HoldsAt(d)
        BY DEF Kept
      <4> QED
        BY <2>2, <2>5, <4>1 DEF HoldsAt
    <3> QED
      BY <2>1, <2>5, <3>1 DEF Copied
  <2>6. \A x \in Owners \ {o} : env'[x] = env[x] /\ dir'[x] = dir[x]
    BY <2>1 DEF TypeOK
  <2> QED
    BY <1>0, <1>1, <2>1, <2>3, <2>4, <2>5, <2>6, LoudRows
<1> QED
  BY <1>2, <1>3

\* The steps that make one.
LEMMA MakeStep ==
    ASSUME TypeOK, Mutexed, Kept, Built, NEW c \in Callers,
           CreateRow(c) \/ CreateDir(c) \/ InstallDeps(c) \/ BuildFails(c)
    PROVE  Kept' /\ Built'
<1> SUFFICES ASSUME NEW o \in Owners, o = caller[c].of PROVE Kept' /\ Built'
  BY DEF TypeOK, CallerStates
<1>0. /\ caller \in [Callers -> CallerStates] /\ caller[c] \in CallerStates /\ HoldsAt(c)
      /\ o \in Owners /\ BuiltAt(o) /\ env \in [Owners -> Rows] /\ dir \in [Owners -> Dirs]
      /\ caller[c].row \in Rows
  <2>1. o \in Owners /\ caller[c].row \in Rows
    BY DEF TypeOK, CallerStates
  <2> QED
    BY <2>1 DEF TypeOK, Kept, Built
<1>1. Works(c) /\ caller[c].at \in {"create", "build", "deps"}
  <2>1. caller[c].at \in {"create", "build", "deps"}
    BY DEF CreateRow, CreateDir, InstallDeps, BuildFails
  <2> QED
    BY <2>1 DEF Works, Mutexed, MutexedAt, Critical
<1>2. ASSUME o \notin split, NEW d \in Callers, caller[d].at = "touch", caller[d].of = o
      PROVE  env[o].status = "ready"
  <2>1. HoldsAt(d)
    BY <1>2 DEF Kept
  <2> QED
    BY <1>2, <2>1 DEF HoldsAt
<1>3. UNCHANGED <<split, mixed, stuck>>
  BY DEF CreateRow, CreateDir, InstallDeps, BuildFails, ghosts
<1>4. CASE CreateRow(c)
  <2> DEFINE r == [id |-> caller[c].id, status |-> "installing",
                   deps |-> caller[c].deps, runtime |-> caller[c].runtime]
  <2>1. CASE env[o] = NoEnv
    <3>1. /\ caller[c].at = "create" /\ caller[c].of = o /\ dir' = dir
          /\ env' = [env EXCEPT ![o] = r]
          /\ caller' = [caller EXCEPT ![c].row = r, ![c].at = "build"]
      BY <1>4, <2>1 DEF CreateRow, disk
    <3>2. r.status = "installing" /\ r.deps = caller[c].deps
      OBVIOUS
    <3> HIDE DEF r
    <3>3. /\ Others(c) /\ caller'[c].of = o /\ caller'[c].row = r
          /\ caller'[c].deps = caller[c].deps /\ caller'[c].at = "build"
          /\ env'[o] = r
      BY <1>0, <3>1 DEF Others, CallerStates
    <3>4. HoldsAt(c)'
      BY <3>2, <3>3 DEF HoldsAt
    <3>5. BuiltAt(o)'
      BY <3>2, <3>3 DEF BuiltAt, Building
    <3>6. \A d \in Callers \ {c} : caller[d].at = "touch" /\ caller[d].of = o => o \in split'
      BY <1>2, <1>3, <2>1, EmptyTypes
    <3>7. \A x \in Owners \ {o} : env'[x] = env[x] /\ dir'[x] = dir[x]
      BY <3>1 DEF TypeOK
    <3> QED
      BY <1>0, <1>1, <1>3, <3>1, <3>3, <3>4, <3>5, <3>6, <3>7, LoudRows
  <2>2. CASE env[o] # NoEnv
    <3>1. Return(c) /\ env' = env /\ dir' = dir /\ caller[c].at = "create"
      BY <1>4, <2>2 DEF CreateRow, disk
    <3>2. Others(c) /\ caller'[c] = Idle
      BY <1>0, <3>1 DEF Return, Others
    <3>3. HoldsAt(c)'
      BY <3>2, EmptyTypes DEF HoldsAt
    <3> QED
      BY <1>3, <3>1, <3>2, <3>3, QuietRows
  <2> QED
    BY <2>1, <2>2
<1>5. CASE CreateDir(c)
  <2>1. /\ Others(c) /\ caller'[c].of = o /\ caller'[c].row = caller[c].row
        /\ caller'[c].at = "deps" /\ caller[c].at = "build" /\ caller[c].of = o
        /\ caller'[c].deps = caller[c].deps /\ env' = env
        /\ \A x \in Owners \ {o} : dir'[x] = dir[x]
    BY <1>0, <1>5 DEF CreateDir, Go, Others, CallerStates, manifest
  <2>2. HoldsAt(c)'
    BY <1>0, <1>3, <2>1 DEF HoldsAt
  <2>3. BuiltAt(o)'
    BY <1>0, <1>3, <2>1 DEF BuiltAt, Building, HoldsAt
  <2> QED
    BY <1>0, <1>1, <1>3, <2>1, <2>2, <2>3, LoudRows
<1>6. CASE InstallDeps(c)
  <2>1. /\ Others(c) /\ caller'[c].of = o
        /\ caller'[c].row = [caller[c].row EXCEPT !.status = "ready"]
        /\ caller'[c].at = "save" /\ caller[c].at = "deps" /\ caller[c].of = o
        /\ dir'[o].whole /\ dir'[o].deps = caller[c].deps /\ env' = env
        /\ \A x \in Owners \ {o} : dir'[x] = dir[x]
    BY <1>0, <1>6 DEF InstallDeps, Others, CallerStates, manifest
  <2>2. HoldsAt(c)'
    <3>1. o \notin split => env[o] = caller[c].row /\ caller[c].row.status = "installing"
                              /\ caller[c].row.deps = caller[c].deps
      BY <1>0, <2>1 DEF HoldsAt
    <3>2. /\ caller[c].row.status = "installing" =>
                [caller'[c].row EXCEPT !.status = "installing"] = caller[c].row
          /\ caller'[c].row.status = "ready" /\ caller'[c].row.deps = caller[c].row.deps
      BY <1>0, <2>1, ZenonT(60) DEF Rows
    <3> QED
      BY <1>0, <1>3, <2>1, <3>1, <3>2 DEF HoldsAt
  <2>3. BuiltAt(o)'
    BY <1>0, <1>3, <2>1 DEF BuiltAt, Building, HoldsAt
  <2> QED
    BY <1>0, <1>1, <1>3, <2>1, <2>2, <2>3, LoudRows
<1>7. CASE BuildFails(c)
  <2>1. /\ Others(c) /\ caller'[c].of = o
        /\ caller'[c].row = [caller[c].row EXCEPT !.status = "failed"]
        /\ caller'[c].at = "save" /\ caller[c].at \in {"build", "deps"} /\ caller[c].of = o
        /\ dir' = dir /\ env' = env
    BY <1>0, <1>7 DEF BuildFails, Others, CallerStates, manifest, disk
  <2>2. HoldsAt(c)'
    <3>1. o \notin split => env[o] = caller[c].row /\ caller[c].row.status = "installing"
      BY <1>0, <2>1 DEF HoldsAt
    <3>2. /\ caller[c].row.status = "installing" =>
                [caller'[c].row EXCEPT !.status = "installing"] = caller[c].row
          /\ caller'[c].row.status = "failed"
      BY <1>0, <2>1 DEF Rows
    <3> QED
      BY <1>0, <1>3, <2>1, <3>1, <3>2 DEF HoldsAt
  <2>3. BuiltAt(o)'
    BY <1>0, <1>3, <2>1 DEF BuiltAt, Building, HoldsAt
  <2> QED
    BY <1>0, <1>1, <1>3, <2>1, <2>2, <2>3, LoudRows
<1> QED
  BY <1>4, <1>5, <1>6, <1>7

\* The step that writes a row back.
LEMMA SaveStep ==
    ASSUME TypeOK, Mutexed, Kept, Built, NEW c \in Callers, SaveRow(c)
    PROVE  Kept' /\ Built'
<1> SUFFICES ASSUME NEW o \in Owners, o = caller[c].of, NEW r \in Rows, r = caller[c].row
             PROVE  Kept' /\ Built'
  BY DEF TypeOK, CallerStates
<1>0. /\ caller \in [Callers -> CallerStates] /\ HoldsAt(c) /\ o \in Owners /\ BuiltAt(o)
      /\ env \in [Owners -> Rows] /\ r \in Rows
  <2>1. o \in Owners /\ r \in Rows
    BY DEF TypeOK, CallerStates
  <2> QED
    BY <2>1 DEF TypeOK, Kept, Built
<1>1. /\ env' = IF env[o].id \in {r.id, 0} THEN [env EXCEPT ![o] = r] ELSE env
      /\ dir' = dir /\ split' = split /\ mixed' = mixed /\ stuck' = stuck /\ Return(c)
      /\ caller[c].at \in {"save", "touch"}
  BY DEF SaveRow, Save, disk, ghosts
<1>2. Others(c) /\ caller'[c] = Idle
  BY <1>0, <1>1 DEF Return, Others
<1>3. HoldsAt(c)'
  BY <1>2, EmptyTypes DEF HoldsAt
<1>4. \A x \in Owners \ {o} : env'[x] = env[x] /\ dir'[x] = dir[x]
  BY <1>0, <1>1
<1>5. caller[c].of = o /\ caller[c].row = r
  OBVIOUS
<1>6. CASE caller[c].at = "save"
  <2>1. Works(c)
    BY <1>6 DEF Works, Mutexed, MutexedAt, Critical
  <2>2. o \notin split =>
           /\ env[o] = [r EXCEPT !.status = "installing"] /\ r.status \in {"ready", "failed"}
           /\ r.status = "ready" => dir[o].whole /\ dir[o].deps = r.deps
    BY <1>0, <1>5, <1>6 DEF HoldsAt
  <2>3. o \notin split => env'[o] = r
    BY <1>0, <1>1, <2>2 DEF Rows
  <2>4. BuiltAt(o)'
    BY <1>1, <2>2, <2>3 DEF BuiltAt
  <2>5. \A d \in Callers \ {c} : caller[d].at = "touch" /\ caller[d].of = o => o \in split'
    <3>1. o \notin split => env[o].status = "installing"
      BY <1>0, <2>2 DEF Rows
    <3> QED
      BY <1>1, <3>1, ZenonT(60) DEF Kept, HoldsAt
  <2> QED
    BY <1>0, <1>1, <1>2, <1>3, <1>4, <1>5, <2>1, <2>4, <2>5, LoudRows
<1>7. CASE caller[c].at = "touch"
  <2>1. o \notin split => env'[o] = env[o]
    BY <1>0, <1>1, <1>5, <1>7 DEF HoldsAt
  <2>2. ASSUME NEW d \in Callers PROVE HoldsAt(d)'
    <3>1. CASE d = c
      BY <1>3, <3>1
    <3>2. CASE d # c
      BY <1>1, <1>2, <1>4, <1>5, <2>1, <3>2, OthersHold
    <3> QED
      BY <3>1, <3>2
  <2>3. ASSUME NEW x \in Owners PROVE BuiltAt(x)'
    <3>1. CASE x # o
      BY <1>1, <1>2, <1>4, <1>5, <3>1, OthersBuilt
    <3>2. CASE x = o
      BY <1>0, <1>1, <1>2, <1>7, <2>1, <3>2 DEF BuiltAt, Building, Others
    <3> QED
      BY <3>1, <3>2
  <2> QED
    BY <2>2, <2>3 DEF Kept, Built
<1> QED
  BY <1>1, <1>6, <1>7

\* A statement fails, and the row it concerns is set apart.
LEMMA FailStep ==
    ASSUME TypeOK, Mutexed, Kept, Built, NEW c \in Callers, RemovalFails(c) \/ StatementFails(c)
    PROVE  Kept' /\ Built'
<1>0. /\ caller \in [Callers -> CallerStates] /\ caller[c] \in CallerStates /\ HoldsAt(c)
      /\ caller[c].row \in Rows
  <2>1. caller[c].row \in Rows
    BY DEF TypeOK, CallerStates
  <2> QED
    BY <2>1 DEF TypeOK, Kept
<1>1. CASE RemovalFails(c) /\ caller[c].at = "unpack"
  <2>1. /\ Others(c) /\ caller'[c].at = "unlist"
        /\ UNCHANGED <<env, dir, split, mixed, stuck>>
    BY <1>0, <1>1 DEF RemovalFails, Go, Others, CallerStates, manifest
  <2>2. HoldsAt(c)'
    BY <2>1 DEF HoldsAt
  <2> QED
    BY <1>1, <2>1, <2>2, QuietRows
<1>2. CASE StatementFails(c)
  <2>1. /\ Return(c) /\ UNCHANGED <<env, dir, split, mixed>>
        /\ caller[c].at \notin {"build", "deps"}
        /\ stuck \subseteq stuck'
        /\ caller[c].at \in {"row", "save"} => caller[c].row.id \in stuck'
    BY <1>2 DEF StatementFails, manifest, disk
  <2>2. Others(c) /\ caller'[c] = Idle
    BY <1>0, <2>1 DEF Return, Others
  <2>3. HoldsAt(c)'
    BY <2>2, EmptyTypes DEF HoldsAt
  <2>4. caller[c].at \in {"row", "save"} =>
           caller[c].of \in split \/ env[caller[c].of].id = caller[c].row.id
    BY <1>0 DEF HoldsAt, Rows
  <2> QED
    BY <2>1, <2>2, <2>3, <2>4, QuietRows
<1> QED
  BY <1>1, <1>2, DestroyStep DEF RemovalFails

\* After a crash what was under way is set apart.
LEMMA CrashStep == ASSUME TypeOK, Kept, Built, Crash PROVE Kept' /\ Built'
<1>1. Kept'
  BY EmptyTypes DEF Crash, Kept, HoldsAt
<1>2. /\ UNCHANGED <<env, dir>> /\ stuck \subseteq stuck' /\ mixed \subseteq mixed'
      /\ \A o \in split : env[o].id \in mixed'
      /\ \A c \in Callers : caller[c].at \in {"row"} \cup Building => caller[c].row.id \in stuck'
  BY DEF Crash, manifest, disk
<1>3. ASSUME NEW c \in Callers, caller[c].at \in {"row"} \cup Building, caller[c].of \notin split
      PROVE  env[caller[c].of].id \in stuck'
  <2>1. HoldsAt(c) /\ caller[c].row \in Rows
    BY DEF Kept, TypeOK, CallerStates
  <2>2. env[caller[c].of].id = caller[c].row.id
    BY <1>3, <2>1 DEF HoldsAt, Building, Rows
  <2> QED
    BY <1>2, <1>3, <2>2
<1>4. ASSUME NEW o \in Owners PROVE BuiltAt(o)'
  <2>1. CASE o \in split \/ env[o].id \in mixed \cup stuck
    BY <1>2, <2>1 DEF BuiltAt
  <2>2. CASE o \notin split /\ env[o].id \notin mixed \cup stuck
    BY <1>2, <1>3, <2>2 DEF Built, BuiltAt
  <2> QED
    BY <2>1, <2>2
<1> QED
  BY <1>1, <1>4 DEF Built

LEMMA NextRows == ASSUME TypeOK, Mutexed, Kept, Built, [Next]_vars PROVE Kept' /\ Built'
<1>1. CASE UNCHANGED vars
  <2>1. UNCHANGED <<env, dir, caller, split, mixed, stuck>>
    BY <1>1 DEF vars, manifest, disk, ghosts
  <2> QED
    BY <2>1 DEF Kept, HoldsAt, Built, BuiltAt
<1>2. ASSUME NEW c \in Callers, Request(c) PROVE Kept' /\ Built'
  <2>1. HoldsAt(c)'
    BY <1>2, RequestShape DEF HoldsAt
  <2> QED
    BY <1>2, <2>1, RequestShape, QuietRows DEF ghosts
<1>3. ASSUME NEW c \in Callers, Step(c) PROVE Kept' /\ Built'
  BY <1>3, LockStep, QuietStep, DestroyStep, MakeStep, SaveStep DEF Step
<1> QED
  BY <1>1, <1>2, <1>3, FailStep, CrashStep DEF Next

LEMMA InitRows == ASSUME Init PROVE Kept /\ Built
  BY EmptyTypes DEF Init, Kept, HoldsAt, Built, BuiltAt

\* The manifest tells the truth about directories and about builds under way
\* (sandbox.go EnsureEnv, ensureFreshEnv, destroyEnv): a row is wrong only if it was
\* itself left half destroyed or unwritten, or stems from an overlap.
THEOREM RowsAreTrueInvariant == Spec => []RowsAreTrue
<1> DEFINE IInv == Mutexed /\ Kept /\ Built
<1>1. Init => IInv
  BY InitMutexed, InitRows
<1>2. TypeOK /\ IInv /\ [Next]_vars => IInv'
  BY NextMutexed, NextRows
<1>3. IInv => RowsAreTrue
  BY DEF Built, BuiltAt, RowsAreTrue
<1> QED
  BY <1>1, <1>2, <1>3, TypeCorrect, PTL DEF Spec

-----------------------------------------------------------------------------
(* The runtime of the environments.                                         *)

\* An operation that may still install the runtime, under its own number.
Before == {"lock", "find", "rm", "row", "runtime", "kind", "install"}
Deletes(c) == caller[c].at \in {"unpack", "unlist"}

\* Numbers of operations and runtimes are taken one after the other.
Numbered ==
  /\ runtime <= requests
  /\ \A c \in Callers : caller[c].id <= requests /\ caller[c].runtime <= requests
  /\ \A c, d \in Callers :
       caller[c].at # "idle" /\ caller[d].at # "idle" /\ caller[c].id = caller[d].id => c = d

\* A number that is not used for a runtime yet is nowhere taken for one.
Fresh ==
  \A c \in Callers : caller[c].at \in Before =>
    /\ caller[c].id # 0 /\ runtime # caller[c].id
    /\ \A d \in Callers : caller[d].runtime # caller[c].id

\* An environment has a runtime.
Based ==
  /\ \A o \in Owners : env[o].runtime = 0 => env[o] = NoEnv
  /\ \A c \in Callers :
       caller[c].at \in {"build", "deps", "save", "touch"} => caller[c].row.runtime # 0

\* What is chosen for an environment is registered, or torn.
Chosen ==
  \A c \in Callers : caller[c].at = "create" =>
    caller[c].runtime # 0 /\ (caller[c].runtime \in torn \/ caller[c].runtime = runtime)

\* What is deleted no environment has, and none is about to get it.
DeletedAt(c) ==
  Deletes(c) =>
    /\ caller[c].runtime # 0
    /\ \/ caller[c].runtime \in torn
       \/ /\ \A o \in Owners \ split : env[o].id \notin mixed => env[o].runtime # caller[c].runtime
          /\ \A d \in Callers : caller[d].at = "create" => caller[d].runtime # caller[c].runtime
Deleted == \A c \in Callers : DeletedAt(c)

\* The registered runtime is unpacked, or its row is about to go.
Unpacked ==
  runtime # 0 =>
    \/ runtime \in torn \/ files
    \/ \E c \in Callers : caller[c].at = "unlist" /\ caller[c].runtime = runtime

\* An environment's runtime is the registered one, or torn.
Registered ==
  \A o \in Owners \ split : env[o] # NoEnv /\ env[o].id \notin mixed =>
    env[o].runtime \in torn \/ env[o].runtime = runtime

Runtimes == Numbered /\ Fresh /\ Based /\ Chosen /\ Deleted /\ Unpacked /\ Registered

LEMMA RuntimesHeld == ASSUME Runtimes PROVE EnvHasRuntime
<1> SUFFICES ASSUME NEW o \in Owners \ split, env[o] # NoEnv, env[o].id \notin mixed,
                    env[o].runtime \notin torn
             PROVE  /\ env[o].runtime = runtime
                    /\ files \/ \E c \in Callers : caller[c].at = "unlist"
  BY DEF EnvHasRuntime
<1>1. env[o].runtime = runtime /\ runtime # 0
  BY DEF Runtimes, Registered, Based
<1> QED
  BY <1>1 DEF Runtimes, Unpacked

LEMMA InitRuntimes == ASSUME Init PROVE Runtimes
<1>1. requests = 0 /\ 0 <= requests
  BY DEF Init
<1> QED
  BY <1>1, EmptyTypes DEF Init, Runtimes, Numbered, Fresh, Based, Chosen, Deleted, DeletedAt,
     Deletes, Unpacked, Registered, Before

\* A step that neither chooses nor deletes: it goes on with its number, or is through.
LEMMA PlainRuntimes ==
    ASSUME TypeOK, Runtimes, NEW c \in Callers, Others(c),
           UNCHANGED <<runtime, requests>>, files => files', torn \subseteq torn',
           mixed \subseteq mixed', \A o \in split \ split' : env'[o].id \in mixed',
           \A o \in Owners :
             \/ env'[o] = env[o]
             \/ env'[o] = NoEnv
             \/ /\ env'[o].runtime # 0
                /\ \/ o \in split'
                   \/ env'[o].runtime = env[o].runtime /\ env'[o].id = env[o].id,
           caller[c].at = "unlist" => caller[c].runtime \in torn',
           \/ caller'[c] = Idle
           \/ /\ caller'[c].id = caller[c].id /\ caller'[c].runtime = caller[c].runtime
              /\ caller[c].at # "idle"
              /\ caller'[c].at \notin {"create", "unpack", "unlist"}
              /\ caller'[c].at \in Before => caller[c].at \in Before
              /\ caller'[c].at \in {"build", "deps", "save", "touch"} => caller'[c].row.runtime # 0
    PROVE  Runtimes'
<1>0. /\ \A d \in Callers : caller[d] \in CallerStates /\ caller[d].id \in Nat
                              /\ caller[d].runtime \in Nat
      /\ requests \in Nat /\ runtime \in Nat
  BY BoundsAssumption DEF TypeOK, CallerStates
<1>1. /\ caller'[c].id \in {0, caller[c].id} /\ caller'[c].runtime \in {0, caller[c].runtime}
      /\ caller'[c].at \notin {"create", "unpack", "unlist"}
  BY EmptyTypes
<1>2. caller'[c].at # "idle" => caller'[c].id = caller[c].id /\ caller[c].at # "idle"
  BY EmptyTypes
<1>3. Numbered'
  <2>1. runtime' <= requests'
    BY DEF Runtimes, Numbered
  <2>2. ASSUME NEW d \in Callers PROVE caller'[d].id <= requests' /\ caller'[d].runtime <= requests'
    BY <1>0, <1>1 DEF Runtimes, Numbered, Others
  <2>3. ASSUME NEW d \in Callers, NEW e \in Callers, caller'[d].at # "idle",
               caller'[e].at # "idle", caller'[d].id = caller'[e].id
        PROVE  d = e
    BY <1>2, <2>3 DEF Runtimes, Numbered, Others
  <2> QED
    BY <2>1, <2>2, <2>3 DEF Numbered
<1>4. Fresh'
  <2> SUFFICES ASSUME NEW d \in Callers, caller'[d].at \in Before
               PROVE  /\ caller'[d].id # 0 /\ runtime' # caller'[d].id
                      /\ \A e \in Callers : caller'[e].runtime # caller'[d].id
    BY DEF Fresh
  <2>1. caller[d].at \in Before /\ caller'[d].id = caller[d].id
    BY EmptyTypes DEF Others, Before
  <2> QED
    BY <1>1, <2>1 DEF Runtimes, Fresh, Others
<1>5. Based'
  <2>1. ASSUME NEW o \in Owners, env'[o].runtime = 0 PROVE env'[o] = NoEnv
    BY <2>1, EmptyTypes DEF Runtimes, Based
  <2>2. ASSUME NEW d \in Callers, caller'[d].at \in {"build", "deps", "save", "touch"}
        PROVE  caller'[d].row.runtime # 0
    BY <2>2, EmptyTypes DEF Runtimes, Based, Others
  <2> QED
    BY <2>1, <2>2 DEF Based
<1>6. Chosen'
  BY <1>1 DEF Runtimes, Chosen, Others
<1>7. Deleted'
  <2> SUFFICES ASSUME NEW d \in Callers, Deletes(d)' PROVE DeletedAt(d)'
    BY DEF Deleted, DeletedAt
  <2>1. d # c /\ caller'[d] = caller[d] /\ DeletedAt(d) /\ Deletes(d)
    BY <1>1 DEF Deletes, Others, Runtimes, Deleted
  <2>2. ASSUME NEW e \in Callers, caller'[e].at = "create" PROVE caller'[e] = caller[e]
    BY <1>1, <2>2 DEF Others
  <2>3. ASSUME NEW o \in Owners \ split', env'[o].id \notin mixed',
               caller[d].runtime \notin torn
        PROVE  env'[o].runtime # caller[d].runtime
    <3>1. o \notin split
      BY <2>3
    <3>2. CASE env'[o] = NoEnv
      BY <2>1, <3>2, EmptyTypes DEF DeletedAt
    <3>3. CASE env'[o].runtime = env[o].runtime /\ env'[o].id = env[o].id
      BY <2>1, <2>3, <3>1, <3>3 DEF DeletedAt
    <3> QED
      BY <2>3, <3>2, <3>3
  <2> QED
    BY <2>1, <2>2, <2>3 DEF DeletedAt
<1>8. Unpacked'
  BY DEF Runtimes, Unpacked, Others
<1>9. Registered'
  <2> SUFFICES ASSUME NEW o \in Owners \ split', env'[o] # NoEnv, env'[o].id \notin mixed'
               PROVE  env'[o].runtime \in torn \/ env'[o].runtime = runtime
    BY DEF Registered
  <2>1. env'[o].runtime = env[o].runtime /\ env'[o].id = env[o].id /\ o \notin split
    OBVIOUS
  <2>2. env[o] # NoEnv
    BY <2>1, EmptyTypes DEF Runtimes, Based
  <2> QED
    BY <2>1, <2>2 DEF Runtimes, Registered
<1> QED
  BY <1>3, <1>4, <1>5, <1>6, <1>7, <1>8, <1>9 DEF Runtimes


LEMMA PlainStep ==
    ASSUME TypeOK, Mutexed, Kept, Runtimes, NEW c \in Callers,
           \/ Lock(c) \/ FindEnv(c) \/ RemoveDir(c) \/ DeleteRow(c) \/ DropOwnerLock(c)
           \/ InstallFails(c) \/ CreateDir(c) \/ InstallDeps(c) \/ BuildFails(c)
           \/ PrepareSpawn(c) \/ SaveRow(c) \/ StatementFails(c)
           \/ RemovalFails(c) /\ caller[c].at = "rm"
    PROVE  Runtimes'
<1>0. /\ caller \in [Callers -> CallerStates] /\ caller[c] \in CallerStates
      /\ env \in [Owners -> Rows] /\ caller[c].of \in Owners /\ caller[c].row \in Rows
  <2>1. caller[c] \in CallerStates
    BY DEF TypeOK
  <2> QED
    BY <2>1 DEF TypeOK, CallerStates
<1>1. /\ UNCHANGED <<runtime, requests>> /\ torn \subseteq torn' /\ mixed \subseteq mixed'
      /\ caller[c].at # "idle" /\ (caller[c].at = "unlist" => caller[c].runtime \in torn')
  BY DEF Lock, FindEnv, RemoveDir, DeleteRow, DropOwnerLock, InstallFails, CreateDir,
         InstallDeps, BuildFails, PrepareSpawn, SaveRow, StatementFails, RemovalFails,
         manifest, disk, ghosts
<1>11. files => files'
  BY DEF Lock, FindEnv, RemoveDir, DeleteRow, DropOwnerLock, InstallFails, CreateDir,
         InstallDeps, BuildFails, PrepareSpawn, SaveRow, StatementFails, RemovalFails, disk
<1>12. \A o \in split \ split' : env'[o].id \in mixed'
  BY DEF Lock, FindEnv, RemoveDir, DeleteRow, DropOwnerLock, InstallFails, CreateDir,
         InstallDeps, BuildFails, PrepareSpawn, SaveRow, StatementFails, RemovalFails,
         manifest, ghosts
<1>2. ASSUME Return(c) PROVE Others(c) /\ caller'[c] = Idle
  BY <1>0, <1>2 DEF Return, Others
<1>3. CASE Lock(c)
  <2>1. Others(c) /\ caller'[c] = [caller[c] EXCEPT !.at = "find"] /\ env' = env
        /\ caller[c].at = "lock"
    BY <1>0, <1>3 DEF Lock, Go, Others, manifest
  <2> QED
    BY <1>0, <1>1, <1>11, <1>12, <2>1, PlainRuntimes DEF CallerStates, Before
<1>4. CASE FindEnv(c)
  <2>1. /\ Others(c) /\ caller'[c].id = caller[c].id /\ caller'[c].runtime = caller[c].runtime
        /\ caller'[c].row = env[caller[c].of] /\ env' = env /\ caller[c].at = "find"
        /\ caller'[c].at = "touch" => env[caller[c].of] # NoEnv
        /\ caller'[c].at \in {"touch", "runtime", "drop", "rm"}
    BY <1>0, <1>4 DEF FindEnv, Others, CallerStates, manifest
  <2>2. caller'[c].at = "touch" => caller'[c].row.runtime # 0
    BY <1>0, <2>1 DEF Runtimes, Based
  <2> QED
    BY <1>1, <1>11, <1>12, <2>1, <2>2, PlainRuntimes DEF Before
<1>5. CASE RemoveDir(c) \/ CreateDir(c) \/ (RemovalFails(c) /\ caller[c].at = "rm")
  <2>1. /\ Others(c) /\ env' = env
        /\ \/ caller'[c] = [caller[c] EXCEPT !.at = "row"] /\ caller[c].at = "rm"
           \/ caller'[c] = [caller[c] EXCEPT !.at = "deps"] /\ caller[c].at = "build"
    BY <1>0, <1>5 DEF RemoveDir, RemovalFails, CreateDir, Go, Others, manifest
  <2>2. caller'[c].at = "deps" => caller'[c].row.runtime # 0
    BY <1>0, <2>1 DEF Runtimes, Based, CallerStates
  <2> QED
    BY <1>0, <1>1, <1>11, <1>12, <2>1, <2>2, PlainRuntimes DEF CallerStates, Before
<1>6. CASE DeleteRow(c)
  <2>1. /\ Others(c) /\ caller[c].at = "row"
        /\ env' = [env EXCEPT ![caller[c].of] = NoEnv] \/ env' = env
        /\ \/ caller'[c] = [caller[c] EXCEPT !.at = "runtime"]
           \/ caller'[c] = [caller[c] EXCEPT !.at = "drop"]
    BY <1>0, <1>6 DEF DeleteRow, Go, Others
  <2>2. \A o \in Owners : env'[o] = env[o] \/ env'[o] = NoEnv
    BY <1>0, <2>1
  <2> QED
    BY <1>0, <1>1, <1>11, <1>12, <2>1, <2>2, PlainRuntimes DEF CallerStates, Before
<1>7. CASE DropOwnerLock(c) \/ InstallFails(c) \/ StatementFails(c)
  <2>1. Return(c) /\ env' = env
    BY <1>7 DEF DropOwnerLock, InstallFails, StatementFails, manifest
  <2> QED
    BY <1>1, <1>11, <1>12, <1>2, <2>1, PlainRuntimes
<1>8. CASE InstallDeps(c) \/ BuildFails(c)
  <2>1. /\ Others(c) /\ caller'[c].id = caller[c].id /\ caller'[c].runtime = caller[c].runtime
        /\ caller[c].at \in {"build", "deps"} /\ caller'[c].at = "save" /\ env' = env
        /\ caller'[c].row.runtime = caller[c].row.runtime
    BY <1>0, <1>8 DEF InstallDeps, BuildFails, Others, CallerStates, Rows, manifest
  <2>2. caller'[c].row.runtime # 0
    BY <2>1 DEF Runtimes, Based
  <2> QED
    BY <1>1, <1>11, <1>12, <2>1, <2>2, PlainRuntimes DEF Before
<1>9. CASE PrepareSpawn(c)
  <2>1. env' = env
    BY <1>9 DEF PrepareSpawn, manifest
  <2>2. CASE Return(c)
    BY <1>1, <1>11, <1>12, <1>2, <2>1, <2>2, PlainRuntimes
  <2>3. CASE ~Return(c)
    <3>1. /\ Others(c) /\ caller'[c].id = caller[c].id /\ caller'[c].runtime = caller[c].runtime
          /\ caller'[c].at = "touch" /\ caller'[c].row = env[caller[c].of]
          /\ env[caller[c].of] # NoEnv
      BY <1>0, <1>9, <2>3, EmptyTypes DEF PrepareSpawn, Others, CallerStates
    <3>2. caller'[c].row.runtime # 0
      BY <1>0, <3>1 DEF Runtimes, Based
    <3> QED
      BY <1>1, <1>11, <1>12, <2>1, <3>1, <3>2, PlainRuntimes DEF Before
  <2> QED
    BY <2>2, <2>3
<1>10. CASE SaveRow(c)
  <2> SUFFICES ASSUME NEW o \in Owners, o = caller[c].of, NEW r \in Rows, r = caller[c].row
               PROVE  Runtimes'
    BY <1>0
  <2>1. /\ env' = IF env[o].id \in {r.id, 0} THEN [env EXCEPT ![o] = r] ELSE env
        /\ Return(c) /\ caller[c].at \in {"save", "touch"} /\ split' = split
    BY <1>10 DEF SaveRow, Save, ghosts
  <2>2. r.runtime # 0
    BY <2>1 DEF Runtimes, Based
  <2>3. o \notin split => r.runtime = env[o].runtime /\ r.id = env[o].id
    <3>1. HoldsAt(c)
      BY DEF Kept
    <3>2. /\ [r EXCEPT !.status = "installing"].runtime = r.runtime
          /\ [r EXCEPT !.status = "installing"].id = r.id
      BY DEF Rows
    <3> QED
      BY <2>1, <3>1, <3>2 DEF HoldsAt
  <2>4. ASSUME NEW x \in Owners
        PROVE  \/ env'[x] = env[x]
               \/ /\ env'[x].runtime # 0
                  /\ \/ x \in split'
                     \/ env'[x].runtime = env[x].runtime /\ env'[x].id = env[x].id
    BY <1>0, <2>1, <2>2, <2>3
  <2> QED
    BY <1>1, <1>11, <1>12, <1>2, <2>1, <2>4, PlainRuntimes
<1> QED
  BY <1>3, <1>4, <1>5, <1>6, <1>7, <1>8, <1>9, <1>10

\* The row is inserted with the runtime that was chosen.
LEMMA CreateRowRuntimes ==
    ASSUME TypeOK, Mutexed, Runtimes, NEW c \in Callers, CreateRow(c)
    PROVE  Runtimes'
<1> SUFFICES ASSUME NEW o \in Owners, o = caller[c].of PROVE Runtimes'
  BY DEF TypeOK, CallerStates
<1>0. /\ caller \in [Callers -> CallerStates] /\ caller[c] \in CallerStates
      /\ env \in [Owners -> Rows]
  BY DEF TypeOK
<1>1. /\ UNCHANGED <<runtime, files, requests, torn, split, mixed>> /\ caller[c].at = "create"
  BY DEF CreateRow, disk, ghosts
<1>2. CASE env[o] # NoEnv
  <2>1. Return(c) /\ env' = env
    BY <1>2 DEF CreateRow
  <2>2. Others(c) /\ caller'[c] = Idle
    BY <1>0, <2>1 DEF Return, Others
  <2> QED
    BY <1>1, <2>1, <2>2, PlainRuntimes
<1>3. CASE env[o] = NoEnv
  <2>0. SUFFICES ASSUME NEW r, env' = [env EXCEPT ![o] = r], r.runtime = caller[c].runtime,
                      caller' = [caller EXCEPT ![c].row = r, ![c].at = "build"]
               PROVE  Runtimes'
    BY <1>3 DEF CreateRow
  <2>1. /\ Others(c) /\ caller'[c].id = caller[c].id /\ caller'[c].runtime = caller[c].runtime
        /\ caller'[c].at = "build" /\ caller'[c].row = r
        /\ env'[o] = r /\ \A x \in Owners \ {o} : env'[x] = env[x]
    BY <1>0, <2>0 DEF Others, CallerStates
  <2>2. r.runtime # 0 /\ (r.runtime \in torn \/ r.runtime = runtime)
    BY <1>1, <2>0 DEF Runtimes, Chosen
  <2>3. Numbered'
    <3>1. \A d \in Callers : caller'[d].id = caller[d].id /\ caller'[d].runtime = caller[d].runtime
      BY <2>1 DEF Others
    <3>2. \A d \in Callers : caller'[d].at # "idle" => caller[d].at # "idle"
      BY <1>1, <2>1 DEF Others
    <3> QED
      BY <1>1, <3>1, <3>2 DEF Runtimes, Numbered
  <2>4. Fresh'
    BY <1>1, <2>1 DEF Runtimes, Fresh, Others, Before
  <2>5. Based'
    BY <2>1, <2>2 DEF Runtimes, Based, Others
  <2>6. Chosen'
    BY <1>1, <2>1 DEF Runtimes, Chosen, Others
  <2>7. ASSUME NEW d \in Callers PROVE DeletedAt(d)'
    <3> SUFFICES ASSUME Deletes(d)' PROVE DeletedAt(d)'
      BY DEF DeletedAt
    <3>1. caller'[d] = caller[d] /\ DeletedAt(d) /\ Deletes(d)
      BY <2>1 DEF Deletes, Others, Runtimes, Deleted
    <3>2. caller[d].runtime \in torn \/ r.runtime # caller[d].runtime
      BY <1>1, <2>0, <3>1 DEF DeletedAt
    <3> QED
      BY <1>1, <2>1, <3>1, <3>2 DEF DeletedAt, Others
  <2>8. Unpacked'
    BY <1>1, <2>1 DEF Runtimes, Unpacked, Others
  <2>9. Registered'
    BY <1>1, <2>1, <2>2 DEF Runtimes, Registered
  <2> QED
    BY <2>3, <2>4, <2>5, <2>6, <2>7, <2>8, <2>9 DEF Runtimes, Deleted
<1> QED
  BY <1>2, <1>3

\* The registered runtime is chosen, or there is none and it is to be installed.
LEMMA ChooseRuntimes ==
    ASSUME TypeOK, Runtimes, NEW c \in Callers, FindRuntime(c) \/ LockKind(c)
    PROVE  Runtimes'
<1>0. caller \in [Callers -> CallerStates] /\ caller[c] \in CallerStates
  BY DEF TypeOK
<1>1. /\ UNCHANGED <<env, runtime, files, requests, split, mixed>>
      /\ caller[c].at \in {"runtime", "kind"} /\ Tear(Deleting)
  BY DEF FindRuntime, LockKind, manifest, disk
<1>2. /\ Others(c) /\ caller'[c].id = caller[c].id /\ caller'[c].runtime = runtime
      /\ caller'[c].at \in {"create", "kind", "install"}
      /\ caller'[c].at = "create" => runtime # 0
  BY <1>0 DEF FindRuntime, LockKind, Others, CallerStates
<1>3. torn \subseteq torn' /\ (Deleting /\ runtime # 0 => runtime \in torn')
  BY <1>1 DEF Tear
<1>4. Numbered'
  BY <1>1, <1>2 DEF Runtimes, Numbered, Others
<1>5. Fresh'
  <2> SUFFICES ASSUME NEW d \in Callers, caller'[d].at \in Before
               PROVE  /\ caller'[d].id # 0 /\ runtime' # caller'[d].id
                      /\ \A e \in Callers : caller'[e].runtime # caller'[d].id
    BY DEF Fresh
  <2>1. caller[d].at \in Before /\ caller'[d].id = caller[d].id
    BY <1>1, <1>2 DEF Others, Before
  <2> QED
    BY <1>1, <1>2, <2>1 DEF Runtimes, Fresh, Others
<1>6. Based'
  BY <1>1, <1>2 DEF Runtimes, Based, Others
<1>7. Chosen'
  BY <1>1, <1>2, <1>3 DEF Runtimes, Chosen, Others
<1>8. ASSUME NEW d \in Callers PROVE DeletedAt(d)'
  <2> SUFFICES ASSUME Deletes(d)' PROVE DeletedAt(d)'
    BY DEF DeletedAt
  <2>1. d # c /\ caller'[d] = caller[d] /\ DeletedAt(d) /\ Deletes(d)
    BY <1>2 DEF Deletes, Others, Runtimes, Deleted
  <2>2. caller[d].runtime \in torn' \/ runtime # caller[d].runtime
    BY <1>3, <2>1 DEF Deleting, Deletes, DeletedAt
  <2> QED
    BY <1>1, <1>2, <1>3, <2>1, <2>2 DEF DeletedAt, Others
<1>9. Unpacked' /\ Registered'
  BY <1>1, <1>2, <1>3 DEF Runtimes, Unpacked, Registered, Others
<1> QED
  BY <1>4, <1>5, <1>6, <1>7, <1>8, <1>9 DEF Runtimes, Deleted

\* The runtime is installed where there was none.
LEMMA InstallRuntimes ==
    ASSUME TypeOK, Installing, Runtimes, NEW c \in Callers, InstallRuntime(c)
    PROVE  Runtimes'
<1>0. /\ caller \in [Callers -> CallerStates] /\ caller[c] \in CallerStates
      /\ runtime = 0 /\ caller[c].at = "install"
  <2>1. caller[c].at = "install"
    BY DEF InstallRuntime
  <2> QED
    BY <2>1 DEF TypeOK, Installing
<1>1. UNCHANGED <<env, requests, split, mixed, torn>> /\ files' /\ runtime' = caller[c].id
  BY DEF InstallRuntime, ghosts
<1>2. /\ Others(c) /\ caller'[c].id = caller[c].id /\ caller'[c].runtime = caller[c].id
      /\ caller'[c].at = "create"
  BY <1>0 DEF InstallRuntime, Others, CallerStates
<1>3. /\ caller[c].id # 0 /\ \A d \in Callers : caller[d].runtime # caller[c].id
  BY <1>0 DEF Runtimes, Fresh, Before
<1>4. Numbered'
  BY <1>0, <1>1, <1>2 DEF Runtimes, Numbered, Others
<1>5. Fresh'
  <2> SUFFICES ASSUME NEW d \in Callers, caller'[d].at \in Before
               PROVE  /\ caller'[d].id # 0 /\ runtime' # caller'[d].id
                      /\ \A e \in Callers : caller'[e].runtime # caller'[d].id
    BY DEF Fresh
  <2>1. caller[d].at \in Before /\ caller'[d].id = caller[d].id /\ d # c
    BY <1>2 DEF Others, Before
  <2>2. caller[d].id # caller[c].id
    BY <1>0, <2>1 DEF Runtimes, Numbered, Before
  <2> QED
    BY <1>1, <1>2, <2>1, <2>2 DEF Runtimes, Fresh, Others
<1>6. Based'
  BY <1>1, <1>2 DEF Runtimes, Based, Others
<1>7. Chosen'
  BY <1>0, <1>1, <1>2, <1>3 DEF Runtimes, Chosen, Others
<1>8. ASSUME NEW d \in Callers PROVE DeletedAt(d)'
  <2> SUFFICES ASSUME Deletes(d)' PROVE DeletedAt(d)'
    BY DEF DeletedAt
  <2>1. d # c /\ caller'[d] = caller[d] /\ DeletedAt(d) /\ Deletes(d)
    BY <1>2 DEF Deletes, Others, Runtimes, Deleted
  <2> QED
    BY <1>1, <1>2, <1>3, <2>1 DEF DeletedAt, Others
<1>9. Unpacked'
  BY <1>1 DEF Unpacked
<1>10. Registered'
  BY <1>0, <1>1 DEF Runtimes, Registered, Based
<1> QED
  BY <1>4, <1>5, <1>6, <1>7, <1>8, <1>9, <1>10 DEF Runtimes, Deleted


\* A runtime no environment refers to is about to be deleted.
LEMMA RefsRuntimes ==
    ASSUME TypeOK, Runtimes, NEW c \in Callers, CheckRefs(c)
    PROVE  Runtimes'
<1>0. caller \in [Callers -> CallerStates] /\ caller[c] \in CallerStates
  BY DEF TypeOK
<1>1. /\ UNCHANGED <<env, runtime, files, requests, split, mixed>> /\ caller[c].at = "refs"
  BY DEF CheckRefs, manifest, disk
<1>2. CASE ~(runtime # 0 /\ \A o \in Owners : env[o].runtime # runtime)
  <2>1. Return(c) /\ torn' = torn
    BY <1>2 DEF CheckRefs
  <2>2. Others(c) /\ caller'[c] = Idle
    BY <1>0, <2>1 DEF Return, Others
  <2> QED
    BY <1>1, <2>1, <2>2, PlainRuntimes
<1>3. CASE runtime # 0 /\ \A o \in Owners : env[o].runtime # runtime
  <2>1. /\ caller' = [caller EXCEPT ![c].runtime = runtime, ![c].at = "unpack"]
        /\ Tear(\E d \in Callers : caller[d].at = "create")
    BY <1>3 DEF CheckRefs
  <2>2. /\ Others(c) /\ caller'[c].id = caller[c].id /\ caller'[c].runtime = runtime
        /\ caller'[c].at = "unpack"
    BY <1>0, <2>1 DEF Others, CallerStates
  <2>3. torn \subseteq torn' /\ ((\E d \in Callers : caller[d].at = "create") => runtime \in torn')
    BY <1>3, <2>1 DEF Tear
  <2>4. Numbered'
    BY <1>1, <2>2 DEF Runtimes, Numbered, Others
  <2>5. Fresh'
    BY <1>1, <2>2 DEF Runtimes, Fresh, Others, Before
  <2>6. Based'
    BY <1>1, <2>2 DEF Runtimes, Based, Others
  <2>7. Chosen'
    BY <1>1, <2>2, <2>3 DEF Runtimes, Chosen, Others
  <2>8. ASSUME NEW d \in Callers PROVE DeletedAt(d)'
    <3>1. CASE d = c
      BY <1>1, <1>3, <2>2, <2>3, <3>1 DEF DeletedAt, Others
    <3>2. CASE d # c
      <4>1. caller'[d] = caller[d] /\ DeletedAt(d)
        BY <2>2, <3>2 DEF Others, Runtimes, Deleted
      <4> QED
        BY <1>1, <2>2, <2>3, <4>1 DEF DeletedAt, Deletes, Others
    <3> QED
      BY <3>1, <3>2
  <2>9. Unpacked' /\ Registered'
    BY <1>1, <2>2, <2>3 DEF Runtimes, Unpacked, Registered, Others
  <2> QED
    BY <2>4, <2>5, <2>6, <2>7, <2>8, <2>9 DEF Runtimes, Deleted
<1> QED
  BY <1>2, <1>3

\* The directory goes, also that of a runtime installed since.
LEMMA UnpackRuntimes ==
    ASSUME TypeOK, Runtimes, NEW c \in Callers,
           RemoveRuntimeDir(c) \/ (RemovalFails(c) /\ caller[c].at = "unpack")
    PROVE  Runtimes'
<1>0. caller \in [Callers -> CallerStates] /\ caller[c] \in CallerStates
  BY DEF TypeOK
<1>1. /\ UNCHANGED <<env, runtime, requests, split, mixed>> /\ caller[c].at = "unpack"
      /\ Tear(runtime # caller[c].runtime)
  BY DEF RemoveRuntimeDir, RemovalFails, manifest
<1>2. /\ Others(c) /\ caller'[c].id = caller[c].id /\ caller'[c].runtime = caller[c].runtime
      /\ caller'[c].at = "unlist"
  BY <1>0, <1>1 DEF RemoveRuntimeDir, RemovalFails, Go, Others, CallerStates
<1>3. /\ torn \subseteq torn'
      /\ runtime # 0 /\ runtime # caller[c].runtime => runtime \in torn'
  BY <1>1 DEF Tear
<1>4. Numbered' /\ Fresh' /\ Based' /\ Chosen' /\ Registered'
  BY <1>1, <1>2, <1>3 DEF Runtimes, Numbered, Fresh, Based, Chosen, Registered, Others, Before
<1>5. ASSUME NEW d \in Callers PROVE DeletedAt(d)'
  <2>1. DeletedAt(d) /\ caller'[d].runtime = caller[d].runtime /\ (Deletes(d)' => Deletes(d))
    BY <1>1, <1>2 DEF Others, Runtimes, Deleted, Deletes
  <2> QED
    BY <1>1, <1>2, <1>3, <2>1 DEF DeletedAt, Others
<1>6. Unpacked'
  BY <1>1, <1>2, <1>3 DEF Unpacked
<1> QED
  BY <1>4, <1>5, <1>6 DEF Runtimes, Deleted

\* The row goes, if it is still the one that was looked up.
LEMMA UnlistRuntimes ==
    ASSUME TypeOK, Runtimes, NEW c \in Callers, DeleteRuntimeRow(c)
    PROVE  Runtimes'
<1>0. caller \in [Callers -> CallerStates] /\ caller[c] \in CallerStates
      /\ runtime \in Nat /\ requests \in Nat
  BY DEF TypeOK
<1>1. /\ UNCHANGED <<env, files, requests, split, mixed, torn>> /\ caller[c].at = "unlist"
      /\ runtime' = IF runtime = caller[c].runtime THEN 0 ELSE runtime
      /\ Return(c)
  BY DEF DeleteRuntimeRow, disk, ghosts
<1>2. Others(c) /\ caller'[c] = Idle
  BY <1>0, <1>1 DEF Return, Others
<1>3. DeletedAt(c) /\ Deletes(c)
  BY <1>1 DEF Runtimes, Deleted, Deletes
<1>4. Numbered'
  BY <1>0, <1>1, <1>2, EmptyTypes DEF Runtimes, Numbered, Others
<1>5. Fresh'
  <2> SUFFICES ASSUME NEW d \in Callers, caller'[d].at \in Before
               PROVE  /\ caller'[d].id # 0 /\ runtime' # caller'[d].id
                      /\ \A e \in Callers : caller'[e].runtime # caller'[d].id
    BY DEF Fresh
  <2>1. caller[d].at \in Before /\ caller'[d] = caller[d]
    BY <1>2, EmptyTypes DEF Others, Before
  <2> QED
    BY <1>1, <1>2, <2>1, EmptyTypes DEF Runtimes, Fresh, Others
<1>6. Based'
  BY <1>1, <1>2, EmptyTypes DEF Runtimes, Based, Others
<1>7. Chosen'
  <2> SUFFICES ASSUME NEW d \in Callers, caller'[d].at = "create"
               PROVE  /\ caller'[d].runtime # 0
                      /\ caller'[d].runtime \in torn \/ caller'[d].runtime = runtime'
    BY <1>1 DEF Chosen
  <2>1. caller'[d] = caller[d]
    BY <1>2, EmptyTypes DEF Others
  <2> QED
    BY <1>1, <1>3, <2>1 DEF Runtimes, Chosen, DeletedAt
<1>8. ASSUME NEW d \in Callers PROVE DeletedAt(d)'
  <2> SUFFICES ASSUME Deletes(d)' PROVE DeletedAt(d)'
    BY DEF DeletedAt
  <2>1. caller'[d] = caller[d] /\ DeletedAt(d) /\ Deletes(d)
    BY <1>2, EmptyTypes DEF Deletes, Others, Runtimes, Deleted
  <2>2. \A e \in Callers : caller'[e].at = "create" => caller'[e] = caller[e]
    BY <1>2, EmptyTypes DEF Others
  <2> QED
    BY <1>1, <2>1, <2>2 DEF DeletedAt
<1>9. Unpacked'
  <2> SUFFICES ASSUME runtime' # 0, runtime' \notin torn, ~files
               PROVE  \E d \in Callers : caller'[d].at = "unlist" /\ caller'[d].runtime = runtime'
    BY <1>1 DEF Unpacked
  <2>1. runtime' = runtime /\ runtime # caller[c].runtime
    BY <1>1
  <2>2. PICK d \in Callers : caller[d].at = "unlist" /\ caller[d].runtime = runtime
    BY <2>1 DEF Runtimes, Unpacked
  <2> QED
    BY <1>2, <2>1, <2>2 DEF Others
<1>10. Registered'
  <2> SUFFICES ASSUME NEW o \in Owners \ split, env[o] # NoEnv, env[o].id \notin mixed
               PROVE  env[o].runtime \in torn \/ env[o].runtime = runtime'
    BY <1>1 DEF Registered
  <2>1. env[o].runtime \in torn \/ env[o].runtime = runtime
    BY DEF Runtimes, Registered
  <2>2. env[o].runtime = caller[c].runtime => env[o].runtime \in torn
    BY <1>3 DEF DeletedAt
  <2> QED
    BY <1>1, <2>1, <2>2
<1> QED
  BY <1>4, <1>5, <1>6, <1>7, <1>8, <1>9, <1>10 DEF Runtimes, Deleted

\* An operation takes the next number.
LEMMA RequestRuntimes ==
    ASSUME TypeOK, Runtimes, NEW c \in Callers, Request(c)
    PROVE  Runtimes'
<1>0. /\ requests \in Nat /\ runtime \in Nat
      /\ \A d \in Callers : caller[d].id \in Nat /\ caller[d].runtime \in Nat
  BY BoundsAssumption DEF TypeOK, CallerStates
<1>1. /\ Others(c) /\ caller[c].at = "idle" /\ caller'[c] = Begun(c)
      /\ requests' = requests + 1
      /\ UNCHANGED <<env, runtime, dir, files, split, mixed, torn>>
      /\ caller'[c].at \in {"prepare", "refs", "lock"}
  BY RequestShape DEF ghosts
<1>2. caller'[c].id = requests + 1 /\ caller'[c].runtime = 0
  BY <1>1, EmptyTypes DEF Begun, CallerStates
<1>3. Numbered'
  <2>1. ASSUME NEW d \in Callers PROVE caller'[d].id <= requests' /\ caller'[d].runtime <= requests'
    BY <1>0, <1>1, <1>2 DEF Runtimes, Numbered, Others
  <2>2. ASSUME NEW d \in Callers, NEW e \in Callers, caller'[d].at # "idle",
               caller'[e].at # "idle", caller'[d].id = caller'[e].id
        PROVE  d = e
    <3>1. \A f \in Callers \ {c} : caller'[f].id # requests + 1
      BY <1>0, <1>1 DEF Runtimes, Numbered, Others
    <3> QED
      BY <1>1, <1>2, <2>2, <3>1 DEF Runtimes, Numbered, Others
  <2>3. runtime' <= requests'
    BY <1>0, <1>1 DEF Runtimes, Numbered
  <2> QED
    BY <2>1, <2>2, <2>3 DEF Numbered
<1>4. Fresh'
  <2>1. \A d \in Callers : caller'[d].runtime = caller[d].runtime \/ caller'[d].runtime = 0
    BY <1>1, <1>2 DEF Others
  <2>2. ASSUME NEW d \in Callers \ {c}, caller'[d].at \in Before
        PROVE  /\ caller'[d].id # 0 /\ runtime' # caller'[d].id
               /\ \A e \in Callers : caller'[e].runtime # caller'[d].id
    BY <1>1, <2>1, <2>2 DEF Runtimes, Fresh, Others
  <2>3. /\ caller'[c].id # 0 /\ runtime' # caller'[c].id
        /\ \A e \in Callers : caller'[e].runtime # caller'[c].id
    BY <1>0, <1>1, <1>2, <2>1 DEF Runtimes, Numbered
  <2> QED
    BY <2>2, <2>3 DEF Fresh
<1>5. Based' /\ Chosen' /\ Unpacked' /\ Registered'
  BY <1>1 DEF Runtimes, Based, Chosen, Unpacked, Registered, Others
<1>6. Deleted'
  BY <1>1 DEF Runtimes, Deleted, DeletedAt, Deletes, Others
<1> QED
  BY <1>3, <1>4, <1>5, <1>6 DEF Runtimes

LEMMA CrashRuntimes == ASSUME TypeOK, Runtimes, Crash PROVE Runtimes'
<1>1. /\ UNCHANGED <<env, runtime, files, requests>>
      /\ mixed \subseteq mixed' /\ \A o \in split : env[o].id \in mixed'
      /\ torn \subseteq torn' /\ \A d \in Callers : caller'[d] = Idle
      /\ \A d \in Callers : caller[d].at = "unlist" => caller[d].runtime \in torn'
  BY DEF Crash, manifest, disk
<1>2. Numbered'
  <2>1. requests \in Nat /\ 0 <= requests
    BY DEF TypeOK
  <2> QED
    BY <1>1, <2>1, EmptyTypes DEF Runtimes, Numbered
<1>3. Fresh' /\ Based' /\ Chosen' /\ Deleted' /\ Unpacked' /\ Registered'
  BY <1>1, EmptyTypes DEF Runtimes, Fresh, Before, Based, Chosen, Deleted, DeletedAt, Deletes,
     Unpacked, Registered
<1> QED
  BY <1>2, <1>3 DEF Runtimes

LEMMA NextRuntimes ==
    ASSUME TypeOK, Mutexed, Installing, Kept, Runtimes, [Next]_vars
    PROVE  Runtimes'
<1>1. CASE UNCHANGED vars
  <2>1. UNCHANGED <<env, runtime, files, caller, requests, split, mixed, torn>>
    BY <1>1 DEF vars, manifest, disk, ghosts
  <2> QED
    BY <2>1 DEF Runtimes, Numbered, Fresh, Based, Chosen, Deleted, DeletedAt, Deletes,
       Unpacked, Registered
<1>2. ASSUME NEW c \in Callers, Step(c) PROVE Runtimes'
  BY <1>2, PlainStep, CreateRowRuntimes, ChooseRuntimes, InstallRuntimes, RefsRuntimes,
     UnpackRuntimes, UnlistRuntimes DEF Step
<1>3. ASSUME NEW c \in Callers, RemovalFails(c) \/ StatementFails(c) PROVE Runtimes'
  BY <1>3, PlainStep, UnpackRuntimes DEF RemovalFails
<1> QED
  BY <1>1, <1>2, <1>3, RequestRuntimes, CrashRuntimes DEF Next

\* An environment's runtime is registered and unpacked, unless it was deleted beside
\* the operation that chose it (sandbox.go DeleteRuntime, ensureFreshEnv).
THEOREM EnvHasRuntimeInvariant == Spec => []EnvHasRuntime
<1> DEFINE IInv == Mutexed /\ Installing /\ Kept /\ Built /\ Runtimes
<1>1. Init => IInv
  BY InitMutexed, InitRows, InitRuntimes, EmptyTypes DEF Init, Installing
<1>2. TypeOK /\ IInv /\ [Next]_vars => IInv'
  BY NextMutexed, NextInstalling, NextRows, NextRuntimes
<1>3. IInv => EnvHasRuntime
  BY RuntimesHeld
<1> QED
  BY <1>1, <1>2, <1>3, TypeCorrect, PTL DEF Spec
===============================================================================
