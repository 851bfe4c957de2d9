-------------------------- MODULE HandlerInstances --------------------------
(***************************************************************************)
(* The resident processes of the handlers: at most one per handler, kept   *)
(* by a manager (app/handler/manager.go) that spawns one on the first call, *)
(* replaces it when it crashed or the handler was edited, and stops them   *)
(* all when the program exits.  Three kinds of lock meet here: the         *)
(* manager's mutex, the mutex of each instance's client, which is held for *)
(* a whole call over the process's pipe, and the channel on which callers  *)
(* wait for a spawn somebody else has begun.                               *)
(*                                                                         *)
(* A version and its configuration are one number, rev.  A spawn reads it, *)
(* builds the environment, starts the process and initialises it, each a   *)
(* step of its own, and any of them may fail.                              *)
(***************************************************************************)
EXTENDS Naturals, FiniteSets

CONSTANTS
  Handlers,     \* handler ids
  Callers,      \* goroutines that call, edit, restart, configure or delete
  Main,         \* the goroutine that shuts the program down
  NoCaller,     \* a mutex nobody holds
  MaxRequests,  \* bound on the requests other than calls
  MaxSpawns     \* bound on the processes started; a later spawn fails

ASSUME ActorsAssumption ==
  /\ Main \notin Callers
  /\ NoCaller \notin Callers \cup {Main}

ASSUME HandlersAssumption == Handlers # {}

ASSUME BoundsAssumption == MaxRequests \in Nat /\ MaxSpawns \in Nat

VARIABLES
  rev,          \* the code and configuration in force, counted
  usable,       \* whether the configuration has every required argument
  gone,         \* whether the handler's row is deleted
  instances,    \* the manager's map: the registered instance, or 0
  spawning,     \* whether the manager's map of spawns has an open channel
  lock,         \* who holds the manager's mutex between two steps
  inst,         \* every instance ever made: its process and its client
  spawned,      \* how many there are
  reaping,      \* instances a background goroutine is about to kill
  leaving,      \* instances StopAll has taken out and not stopped yet
  caller,       \* what each goroutine is doing
  missed,       \* the spawns a stop found nothing of, because in flight
  requests      \* how many requests other than calls there were

vars == <<rev, usable, gone, instances, spawning, lock, inst, spawned,
          reaping, leaving, caller, missed, requests>>

Actors == Callers \cup {Main}
Numbers == 1..MaxSpawns

Idle == [at |-> "idle", op |-> "none", of |-> CHOOSE h \in Handlers : TRUE,
         i |-> 0]

Init ==
  /\ rev = [h \in Handlers |-> 0]
  /\ usable \in [Handlers -> BOOLEAN]
  /\ gone = [h \in Handlers |-> FALSE]
  /\ instances = [h \in Handlers |-> 0]
  /\ spawning = [h \in Handlers |-> FALSE]
  /\ lock = NoCaller
  /\ inst = [n \in Numbers |->
               [of |-> Idle.of, rev |-> 0, life |-> "none",
                crashed |-> FALSE, shut |-> FALSE, holder |-> NoCaller]]
  /\ spawned = 0
  /\ reaping = {}
  /\ leaving = {}
  /\ caller = [c \in Actors |-> Idle]
  /\ missed = {}
  /\ requests = 0

-----------------------------------------------------------------------------
(* Helpers. *)

\* The caller goes on at another place.
Go(c, at) == caller' = [caller EXCEPT ![c].at = at]

\* The caller's operation returns.
Return(c) == caller' = [caller EXCEPT ![c] = Idle]

\* Get returns an instance: a call goes on with it, a restart is done.
Take(c, n) ==
  IF caller[c].op = "call"
    THEN caller' = [caller EXCEPT ![c].at = "have", ![c].i = n]
    ELSE Return(c)

\* The spawn of a handler is over: its channel is closed and every waiter
\* looks again, and the spawner goes on as the given record.
Settle(c, next) ==
  LET h == caller[c].of IN
  /\ spawning' = [spawning EXCEPT ![h] = FALSE]
  /\ caller' = [d \in Actors |->
       IF d = c THEN next
       ELSE IF caller[d].at = "wait" /\ caller[d].of = h
              THEN [caller[d] EXCEPT !.at = "get"]
              ELSE caller[d]]

\* Mutant of JoinOrSpawn: the spawn in flight is not looked for.
SpawnAlways(c) ==
  /\ spawning' = [spawning EXCEPT ![caller[c].of] = TRUE]
  /\ caller' = [caller EXCEPT ![c].at = "read", ![c].i = 0]

\* Nothing is registered: wait for the spawn in flight, or begin one.
JoinOrSpawn(c) ==
  LET h == caller[c].of IN
  IF spawning[h]
    THEN Go(c, "wait") /\ UNCHANGED spawning
    ELSE /\ spawning' = [spawning EXCEPT ![h] = TRUE]
         /\ caller' = [caller EXCEPT ![c].at = "read", ![c].i = 0]

\* The stop of an operation is over.
AfterStop(c) ==
  CASE caller[c].op = "restart" -> Go(c, "get")
    [] caller[c].op = "clear"   -> Return(c)
    [] caller[c].op = "delete"  -> Go(c, "remove")
    [] caller[c].op = "exit"    -> Go(c, "next")

\* The spawns of a handler that have read its code and are not registered.
InFlight(h) ==
  {caller[c].i : c \in {d \in Actors :
      caller[d].of = h /\ caller[d].at \in {"launch", "init", "spawned"}}}

-----------------------------------------------------------------------------
(* Operations begin, until the program stops: its server, its runs and its *)
(* chats are shut down before StopAll, so only what they had begun is left.*)

\* The handler's row, and the count of requests.
Row == <<rev, usable, gone, requests>>

Begin(c, h, op, at) ==
  /\ caller[c].at = "idle" /\ caller[Main].at = "idle"
  /\ caller' = [caller EXCEPT ![c] = [at |-> at, op |-> op, of |-> h, i |-> 0]]
  /\ UNCHANGED <<instances, spawning, lock, inst, spawned, reaping, leaving,
                 missed>>

Ask(c, h, op, at) ==
  /\ requests < MaxRequests
  /\ requests' = requests + 1
  /\ Begin(c, h, op, at)

\* Call resolves the handler and its method before it asks for an instance.
Call(c, h) ==
  /\ ~gone[h]
  /\ Begin(c, h, "call", "get")
  /\ UNCHANGED Row

\* Boot asks for an instance of every handler that has a version.
BootHandler(c, h) ==
  /\ ~gone[h]
  /\ Ask(c, h, "boot", "get")
  /\ UNCHANGED <<rev, usable, gone>>

\* Mutant of Edit: the version is written and the instance left running.
EditOnly(c, h) ==
  /\ ~gone[h]
  /\ rev' = [rev EXCEPT ![h] = @ + 1]
  /\ Ask(c, h, "boot", "get")
  /\ UNCHANGED <<usable, gone>>

\* Edit and Revert write the version in force, then restart.
Edit(c, h) ==
  /\ ~gone[h]
  /\ rev' = [rev EXCEPT ![h] = @ + 1]
  /\ Ask(c, h, "restart", "stop")
  /\ UNCHANGED <<usable, gone>>

\* UpdateConfig writes the configuration, then restarts.
UpdateConfig(c, h) ==
  /\ ~gone[h]
  /\ rev' = [rev EXCEPT ![h] = @ + 1]
  /\ usable' = [usable EXCEPT ![h] = TRUE]
  /\ Ask(c, h, "restart", "stop")
  /\ UNCHANGED gone

\* ClearConfig wipes the configuration, then stops.
ClearConfig(c, h) ==
  /\ ~gone[h]
  /\ rev' = [rev EXCEPT ![h] = @ + 1]
  /\ usable' = [usable EXCEPT ![h] = FALSE]
  /\ Ask(c, h, "clear", "stop")
  /\ UNCHANGED gone

\* Restart by hand.
Restart(c, h) ==
  /\ ~gone[h]
  /\ Ask(c, h, "restart", "stop")
  /\ UNCHANGED <<rev, usable, gone>>

\* Delete stops first and removes the row afterwards.
Delete(c, h) ==
  /\ Ask(c, h, "delete", "stop")
  /\ UNCHANGED <<rev, usable, gone>>

\* State is asked for when a handler is shown.
State(c, h) ==
  /\ Ask(c, h, "state", "look")
  /\ UNCHANGED <<rev, usable, gone>>

-----------------------------------------------------------------------------
(* The manager. *)

\* Get under the manager's mutex.  With an instance registered it asks the
\* client whether it crashed, which takes the client's mutex.
Get(c) ==
  LET h == caller[c].of IN
  /\ caller[c].at = "get" /\ lock = NoCaller
  /\ IF instances[h] # 0
       THEN /\ lock' = c
            /\ caller' = [caller EXCEPT ![c].at = "peek", ![c].i = instances[h]]
            /\ UNCHANGED spawning
       ELSE JoinOrSpawn(c) /\ UNCHANGED lock
  /\ UNCHANGED <<Row, instances, inst, spawned, reaping, leaving, missed>>

\* Mutant of Peek: a crashed instance is forgotten without being killed.
PeekUnreaped(c) ==
  LET h == caller[c].of
      n == caller[c].i IN
  /\ caller[c].at = "peek" /\ inst[n].holder = NoCaller
  /\ lock' = NoCaller
  /\ IF inst[n].crashed
       THEN /\ instances' = [instances EXCEPT ![h] = 0]
            /\ JoinOrSpawn(c)
       ELSE Take(c, n) /\ UNCHANGED <<instances, spawning>>
  /\ UNCHANGED <<Row, inst, spawned, reaping, leaving, missed>>

\* Crashed answers once no call holds the client.  A crashed instance is
\* taken out, left to a goroutine that kills it, and replaced.
Peek(c) ==
  LET h == caller[c].of
      n == caller[c].i IN
  /\ caller[c].at = "peek" /\ inst[n].holder = NoCaller
  /\ lock' = NoCaller
  /\ IF inst[n].crashed
       THEN /\ instances' = [instances EXCEPT ![h] = 0]
            /\ reaping' = reaping \cup {n}
            /\ JoinOrSpawn(c)
       ELSE Take(c, n) /\ UNCHANGED <<instances, reaping, spawning>>
  /\ UNCHANGED <<Row, inst, spawned, leaving, missed>>

\* A waiter's context ends.
GiveUp(c) ==
  /\ caller[c].at = "wait"
  /\ Return(c)
  /\ UNCHANGED <<Row, instances, spawning, lock, inst, spawned, reaping,
                 leaving, missed>>

\* The spawn reads the handler, its version and its configuration.
SpawnRead(c) ==
  LET h == caller[c].of
      n == spawned + 1 IN
  /\ caller[c].at = "read"
  /\ \/ /\ ~gone[h] /\ usable[h] /\ spawned < MaxSpawns
        /\ spawned' = n
        /\ inst' = [inst EXCEPT ![n].of = h, ![n].rev = rev[h],
                                ![n].life = "made"]
        /\ caller' = [caller EXCEPT ![c].at = "launch", ![c].i = n]
     \/ Go(c, "failed") /\ UNCHANGED <<spawned, inst>>
  /\ UNCHANGED <<Row, instances, spawning, lock, reaping, leaving, missed>>

\* The environment is made ready and the process started.
Launch(c) ==
  /\ caller[c].at = "launch"
  /\ \/ /\ inst' = [inst EXCEPT ![caller[c].i].life = "up"]
        /\ Go(c, "init")
     \/ Go(c, "failed") /\ UNCHANGED inst
  /\ UNCHANGED <<Row, instances, spawning, lock, spawned, reaping, leaving,
                 missed>>

\* The client sends init and waits for ready.  A failed init kills.
InitInstance(c) ==
  /\ caller[c].at = "init"
  /\ \/ Go(c, "spawned") /\ UNCHANGED inst
     \/ /\ inst' = [inst EXCEPT ![caller[c].i].life = "killed"]
        /\ Go(c, "failed")
  /\ UNCHANGED <<Row, instances, spawning, lock, spawned, reaping, leaving,
                 missed>>

\* The new instance is registered under the manager's mutex.
Register(c) ==
  LET n == caller[c].i IN
  /\ caller[c].at = "spawned" /\ lock = NoCaller
  /\ instances' = [instances EXCEPT ![caller[c].of] = n]
  /\ Settle(c, IF caller[c].op = "call"
                 THEN [caller[c] EXCEPT !.at = "have"] ELSE Idle)
  /\ UNCHANGED <<Row, lock, inst, spawned, reaping, leaving, missed>>

\* The spawn failed: its error is returned, the waiters look again.
SpawnFailed(c) ==
  /\ caller[c].at = "failed" /\ lock = NoCaller
  /\ Settle(c, Idle)
  /\ UNCHANGED <<Row, instances, lock, inst, spawned, reaping, leaving, missed>>

\* Stop takes the instance out of the map; what is being spawned it does
\* not see.
Stop(c) ==
  LET h == caller[c].of
      n == instances[h] IN
  /\ caller[c].at = "stop" /\ lock = NoCaller
  /\ instances' = [instances EXCEPT ![h] = 0]
  /\ missed' = missed \cup InFlight(h)
  /\ IF n # 0
       THEN caller' = [caller EXCEPT ![c].at = "shut", ![c].i = n]
       ELSE AfterStop(c)
  /\ UNCHANGED <<Row, spawning, lock, inst, spawned, reaping, leaving>>

\* Mutant of Shut: the client is shut beside the call it carries.
ShutAtOnce(c) ==
  /\ caller[c].at = "shut"
  /\ inst' = [inst EXCEPT ![caller[c].i].shut = TRUE]
  /\ Go(c, "kill")
  /\ UNCHANGED <<Row, instances, spawning, lock, spawned, reaping, leaving,
                 missed>>

\* The client is shut once no call holds it.
Shut(c) ==
  LET n == caller[c].i IN
  /\ caller[c].at = "shut" /\ inst[n].holder = NoCaller
  /\ inst' = [inst EXCEPT ![n].shut = TRUE]
  /\ Go(c, "kill")
  /\ UNCHANGED <<Row, instances, spawning, lock, spawned, reaping, leaving,
                 missed>>

\* Then its process is killed.
Kill(c) ==
  /\ caller[c].at = "kill"
  /\ inst' = [inst EXCEPT ![caller[c].i].life = "killed"]
  /\ AfterStop(c)
  /\ UNCHANGED <<Row, instances, spawning, lock, spawned, reaping, leaving,
                 missed>>

\* Delete removes the row.
Remove(c) ==
  /\ caller[c].at = "remove"
  /\ gone' = [gone EXCEPT ![caller[c].of] = TRUE]
  /\ Return(c)
  /\ UNCHANGED <<rev, usable, requests, instances, spawning, lock, inst, spawned,
                 reaping, leaving, missed>>

\* State under the manager's mutex, which waits for the client's as Get does.
Look(c) ==
  LET n == instances[caller[c].of] IN
  /\ caller[c].at = "look" /\ lock = NoCaller
  /\ IF n # 0
       THEN /\ lock' = c
            /\ caller' = [caller EXCEPT ![c].at = "looking", ![c].i = n]
       ELSE Return(c) /\ UNCHANGED lock
  /\ UNCHANGED <<Row, instances, spawning, inst, spawned, reaping, leaving,
                 missed>>

Looked(c) ==
  /\ caller[c].at = "looking" /\ inst[caller[c].i].holder = NoCaller
  /\ lock' = NoCaller
  /\ Return(c)
  /\ UNCHANGED <<Row, instances, spawning, inst, spawned, reaping, leaving,
                 missed>>

-----------------------------------------------------------------------------
(* The call over the pipe. *)

\* The client's mutex is taken for the whole call; a client that crashed or
\* was shut refuses.
BeginRpc(c) ==
  LET n == caller[c].i IN
  /\ caller[c].at = "have" /\ inst[n].holder = NoCaller
  /\ IF inst[n].crashed \/ inst[n].shut
       THEN Return(c) /\ UNCHANGED inst
       ELSE /\ inst' = [inst EXCEPT ![n].holder = c]
            /\ Go(c, "rpc")
  /\ UNCHANGED <<Row, instances, spawning, lock, spawned, reaping, leaving,
                 missed>>

\* An answer arrives (it may have been in the pipe of a process now dead).
EndRpc(c) ==
  /\ caller[c].at = "rpc"
  /\ inst' = [inst EXCEPT ![caller[c].i].holder = NoCaller]
  /\ Return(c)
  /\ UNCHANGED <<Row, instances, spawning, lock, spawned, reaping, leaving,
                 missed>>

\* The deadline passes, the caller cancels, the pipe ends or the answer makes
\* no sense: the client counts as crashed from now on.
RpcFails(c) ==
  /\ caller[c].at = "rpc"
  /\ inst' = [inst EXCEPT ![caller[c].i].holder = NoCaller,
                          ![caller[c].i].crashed = TRUE]
  /\ Return(c)
  /\ UNCHANGED <<Row, instances, spawning, lock, spawned, reaping, leaving,
                 missed>>

-----------------------------------------------------------------------------
(* Processes, background goroutines and the end of the program. *)

\* A process dies on its own.
Die(n) ==
  /\ inst[n].life = "up"
  /\ inst' = [inst EXCEPT ![n].life = "dead"]
  /\ UNCHANGED <<Row, instances, spawning, lock, spawned, reaping, leaving,
                 caller, missed>>

\* The goroutine Get left behind kills a crashed instance.
Reap(n) ==
  /\ n \in reaping
  /\ reaping' = reaping \ {n}
  /\ inst' = [inst EXCEPT ![n].life = "killed"]
  /\ UNCHANGED <<Row, instances, spawning, lock, spawned, leaving, caller,
                 missed>>

\* StopAll empties the map.
StopAll ==
  /\ caller[Main].at = "idle" /\ lock = NoCaller
  /\ leaving' = {instances[h] : h \in Handlers} \ {0}
  /\ instances' = [h \in Handlers |-> 0]
  /\ caller' = [caller EXCEPT ![Main].at = "next", ![Main].op = "exit"]
  /\ UNCHANGED <<Row, spawning, lock, inst, spawned, reaping, missed>>

\* It stops one instance after the other.
StopNext ==
  /\ caller[Main].at = "next"
  /\ \E n \in leaving :
       /\ leaving' = leaving \ {n}
       /\ caller' = [caller EXCEPT ![Main].at = "shut", ![Main].i = n]
  /\ UNCHANGED <<Row, instances, spawning, lock, inst, spawned, reaping, missed>>

\* The sandbox kills every process it still tracks and the program exits.
Exit ==
  /\ caller[Main].at = "next" /\ leaving = {}
  /\ inst' = [n \in Numbers |->
       IF inst[n].life = "up" THEN [inst[n] EXCEPT !.life = "killed"]
                              ELSE inst[n]]
  /\ Go(Main, "exited")
  /\ UNCHANGED <<Row, instances, spawning, lock, spawned, reaping, leaving,
                 missed>>

-----------------------------------------------------------------------------

Exited == caller[Main].at = "exited"

Request(c, h) ==
  \/ Call(c, h) \/ BootHandler(c, h) \/ Edit(c, h) \/ UpdateConfig(c, h)
  \/ ClearConfig(c, h) \/ Restart(c, h) \/ Delete(c, h) \/ State(c, h)

Step(c) ==
  \/ Get(c) \/ Peek(c) \/ SpawnRead(c) \/ Launch(c) \/ InitInstance(c)
  \/ Register(c) \/ SpawnFailed(c) \/ Stop(c) \/ Shut(c) \/ Kill(c)
  \/ Remove(c) \/ Look(c) \/ Looked(c) \/ BeginRpc(c) \/ EndRpc(c)
  \/ RpcFails(c)

Next ==
  /\ ~Exited
  /\ \/ \E c \in Callers, h \in Handlers : Request(c, h)
     \/ \E c \in Callers : GiveUp(c)
     \/ \E c \in Actors : Step(c)
     \/ \E n \in Numbers : Die(n) \/ Reap(n)
     \/ StopAll \/ StopNext \/ Exit

Spec == Init /\ [][Next]_vars

-----------------------------------------------------------------------------
(* Properties. *)

Spawning == {"read", "launch", "init", "spawned", "failed"}
Places == Spawning \cup
  {"idle", "get", "peek", "wait", "have", "rpc", "stop", "shut", "kill",
   "remove", "look", "looking", "next", "exited"}

\* Types, and who may hold a mutex: the manager's is held between steps only
\* by a goroutine that asks a client whether it crashed, a client's only by
\* the goroutine whose call it carries.
TypeOK ==
  /\ rev \in [Handlers -> 0..MaxRequests]
  /\ usable \in [Handlers -> BOOLEAN]
  /\ gone \in [Handlers -> BOOLEAN]
  /\ instances \in [Handlers -> 0..MaxSpawns]
  /\ spawning \in [Handlers -> BOOLEAN]
  /\ inst \in [Numbers -> [of : Handlers, rev : 0..MaxRequests,
                           life : {"none", "made", "up", "dead", "killed"},
                           crashed : BOOLEAN, shut : BOOLEAN,
                           holder : Actors \cup {NoCaller}]]
  /\ spawned \in 0..MaxSpawns /\ requests \in 0..MaxRequests
  /\ reaping \subseteq Numbers
  /\ leaving \subseteq Numbers
  /\ missed \subseteq Numbers
  /\ caller \in [Actors -> [at : Places,
                            op : {"none", "call", "boot", "restart", "clear",
                                  "delete", "state", "exit"},
                            of : Handlers, i : 0..MaxSpawns]]
  /\ lock \in Actors \cup {NoCaller}
  /\ lock # NoCaller => caller[lock].at \in {"peek", "looking"}
  /\ \A n \in Numbers : inst[n].holder # NoCaller =>
       caller[inst[n].holder].at = "rpc" /\ caller[inst[n].holder].i = n

\* A handler has one spawner at most, its channel is open exactly as long as
\* it works, nothing is registered meanwhile, and whoever waits for a spawn
\* waits for one in flight (manager.go Get: single-flight; a second process
\* would be overwritten in the map, a missed wakeup would wait for ever).
OneSpawner ==
  \A h \in Handlers :
    LET spawners == {c \in Actors :
                       caller[c].of = h /\ caller[c].at \in Spawning} IN
    /\ \A c, d \in spawners : c = d
    /\ spawning[h] <=> spawners # {}
    /\ spawning[h] => instances[h] = 0
    /\ \A c \in Actors : caller[c].at = "wait" /\ caller[c].of = h => spawning[h]

\* Every process that is alive is registered or in the hands of a goroutine
\* that will register or kill it: no crash, stop or failed spawn loses one.
NoOrphan ==
  \A n \in Numbers : inst[n].life = "up" =>
    \/ \E h \in Handlers : instances[h] = n
    \/ n \in reaping \cup leaving
    \/ \E c \in Actors :
         caller[c].i = n /\ caller[c].at \in {"init", "spawned", "shut", "kill"}

\* The manager never kills a process in the middle of a call: a stop waits
\* for the call and refuses the next, a reaper only finds crashed clients.
NeverKilledInCall ==
  \A n \in Numbers : inst[n].life = "killed" /\ ~Exited =>
    inst[n].holder = NoCaller

\* A registered instance runs the code and configuration in force, unless
\* the operation that changed them has yet to stop it, or its spawn was in
\* flight when it did.
RestartsTakeHold ==
  \A h \in Handlers :
    LET n == instances[h] IN
    n # 0 /\ ~gone[h] /\ inst[n].rev # rev[h] =>
      \/ n \in missed
      \/ \E c \in Actors : caller[c].at = "stop" /\ caller[c].of = h
=============================================================================
