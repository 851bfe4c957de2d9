---------------------- MODULE HandlerInstances_proofs ----------------------
(***************************************************************************)
(* Proofs about HandlerInstances for any number of handlers and callers.   *)
(***************************************************************************)
EXTENDS HandlerInstances, TLAPS

Operations == {"none", "call", "boot", "restart", "clear", "delete", "state", "exit"}

CallRecord == [at : Places, op : Operations, of : Handlers, i : 0..MaxSpawns]

InstRecord == [of : Handlers, rev : 0..MaxRequests,
               life : {"none", "made", "up", "dead", "killed"},
               crashed : BOOLEAN, shut : BOOLEAN, holder : Actors \cup {NoCaller}]

\* Places at which a goroutine holds an instance nobody else knows of, and at
\* which it holds one it was handed.
Fresh == {"launch", "init", "spawned"}
Held == {"peek", "have", "rpc", "shut", "kill", "looking"}
Stopping == {"stop", "shut", "kill", "next"}

\* What the numbers and the records of the goroutines mean.
Named ==
  /\ \A h \in Handlers : rev[h] \in 0..requests
  /\ \A h \in Handlers : instances[h] \in 0..spawned
  /\ \A n \in reaping \cup leaving : n \in 1..spawned
  /\ \A n \in Numbers : inst[n].life # "none" => n \in 1..spawned
  /\ \A c \in Actors : caller[c].at \in Fresh \cup Held => caller[c].i \in 1..spawned
  /\ \A c \in Actors : caller[c].at \in Stopping =>
       caller[c].op \in {"restart", "clear", "delete", "exit"}

Typed == TypeOK /\ Named

USE ActorsAssumption, BoundsAssumption, HandlersAssumption

LEMMA IdleType == Idle \in CallRecord /\ Idle.at = "idle" /\ Idle.i = 0
  BY DEF Idle, CallRecord, Places, Spawning, Operations

LEMMA Parts ==
  ASSUME Typed
  PROVE  /\ rev \in [Handlers -> 0..MaxRequests] /\ usable \in [Handlers -> BOOLEAN]
         /\ gone \in [Handlers -> BOOLEAN] /\ instances \in [Handlers -> 0..MaxSpawns]
         /\ spawning \in [Handlers -> BOOLEAN] /\ inst \in [Numbers -> InstRecord]
         /\ spawned \in 0..MaxSpawns /\ requests \in 0..MaxRequests
         /\ reaping \subseteq Numbers /\ leaving \subseteq Numbers /\ missed \subseteq Numbers
         /\ caller \in [Actors -> CallRecord] /\ lock \in Actors \cup {NoCaller}
  BY DEF Typed, TypeOK, InstRecord, CallRecord, Operations

LEMMA Assemble ==
  ASSUME rev' \in [Handlers -> 0..MaxRequests], usable' \in [Handlers -> BOOLEAN],
         gone' \in [Handlers -> BOOLEAN], instances' \in [Handlers -> 0..MaxSpawns],
         spawning' \in [Handlers -> BOOLEAN], inst' \in [Numbers -> InstRecord],
         spawned' \in 0..MaxSpawns, requests' \in 0..MaxRequests,
         reaping' \subseteq Numbers, leaving' \subseteq Numbers, missed' \subseteq Numbers,
         caller' \in [Actors -> CallRecord], lock' \in Actors \cup {NoCaller},
         lock' # NoCaller => caller'[lock'].at \in {"peek", "looking"},
         \A n \in Numbers : inst'[n].holder # NoCaller =>
           caller'[inst'[n].holder].at = "rpc" /\ caller'[inst'[n].holder].i = n,
         Named'
  PROVE  Typed'
  BY DEF Typed, TypeOK, InstRecord, CallRecord, Operations

LEMMA InitType == ASSUME Init PROVE Typed
<1>1. caller \in [Actors -> CallRecord] /\ \A c \in Actors : caller[c].at = "idle"
  BY IdleType DEF Init
<1>2. inst \in [Numbers -> InstRecord] /\ \A n \in Numbers : inst[n].life = "none" /\ inst[n].holder = NoCaller
  BY IdleType DEF Init, InstRecord, CallRecord
<1>3. Named
  BY <1>1, <1>2 DEF Init, Named, Fresh, Held, Stopping
<1> QED
  BY <1>1, <1>2, <1>3 DEF Init, Typed, TypeOK, CallRecord, InstRecord, Operations

\* A goroutine goes on to a place with the record it has.
LEMMA GoEffect ==
  ASSUME caller \in [Actors -> CallRecord], NEW c \in Actors, NEW at \in Places, Go(c, at)
  PROVE  /\ caller' \in [Actors -> CallRecord]
         /\ caller'[c].at = at /\ caller'[c].i = caller[c].i
         /\ caller'[c].of = caller[c].of /\ caller'[c].op = caller[c].op
         /\ \A d \in Actors \ {c} : caller'[d] = caller[d]
<1> DEFINE r == [caller[c] EXCEPT !.at = at]
<1>1. r \in CallRecord /\ r.at = at /\ r.i = caller[c].i /\ r.of = caller[c].of /\ r.op = caller[c].op
  BY DEF CallRecord
<1>2. caller' = [caller EXCEPT ![c] = r]
  BY DEF Go
<1> HIDE DEF r
<1> QED
  BY <1>1, <1>2

\* An operation returns.
LEMMA ReturnEffect ==
  ASSUME caller \in [Actors -> CallRecord], NEW c \in Actors, Return(c)
  PROVE  /\ caller' \in [Actors -> CallRecord] /\ caller'[c] = Idle
         /\ \A d \in Actors \ {c} : caller'[d] = caller[d]
  BY IdleType DEF Return

\* A goroutine goes on with an instance.
With(c, at, n) == caller' = [caller EXCEPT ![c].at = at, ![c].i = n]

LEMMA WithEffect ==
  ASSUME caller \in [Actors -> CallRecord], NEW c \in Actors, NEW at \in Places,
         NEW n \in 0..MaxSpawns, With(c, at, n)
  PROVE  /\ caller' \in [Actors -> CallRecord]
         /\ caller'[c].at = at /\ caller'[c].i = n
         /\ caller'[c].of = caller[c].of /\ caller'[c].op = caller[c].op
         /\ \A d \in Actors \ {c} : caller'[d] = caller[d]
<1> DEFINE r == [caller[c] EXCEPT !.at = at, !.i = n]
<1>1. r \in CallRecord /\ r.at = at /\ r.i = n /\ r.of = caller[c].of /\ r.op = caller[c].op
  BY DEF CallRecord
<1>2. caller' = [caller EXCEPT ![c] = r]
  BY DEF With
<1> HIDE DEF r
<1> QED
  BY <1>1, <1>2

\* Goroutine c steps to the record r; whoever waits may be woken.
Steps(c, r) ==
  /\ caller' \in [Actors -> CallRecord] /\ caller'[c] = r
  /\ \A d \in Actors \ {c} :
       \/ caller'[d] = caller[d]
       \/ /\ caller[d].at = "wait" /\ caller'[d].at = "get"
          /\ caller'[d].of = caller[d].of /\ caller'[d].op = caller[d].op
          /\ caller'[d].i = caller[d].i

\* The types of the tables and maps, but for the goroutines.
Rest ==
  /\ rev \in [Handlers -> 0..MaxRequests] /\ usable \in [Handlers -> BOOLEAN]
  /\ gone \in [Handlers -> BOOLEAN] /\ instances \in [Handlers -> 0..MaxSpawns]
  /\ spawning \in [Handlers -> BOOLEAN] /\ inst \in [Numbers -> InstRecord]
  /\ spawned \in 0..MaxSpawns /\ requests \in 0..MaxRequests
  /\ reaping \subseteq Numbers /\ leaving \subseteq Numbers /\ missed \subseteq Numbers
  /\ lock \in Actors \cup {NoCaller}
  /\ \A h \in Handlers : rev[h] \in 0..requests
  /\ \A h \in Handlers : instances[h] \in 0..spawned
  /\ \A n \in reaping \cup leaving : n \in 1..spawned
  /\ \A n \in Numbers : inst[n].life # "none" => n \in 1..spawned

\* What such a step may do to the manager's mutex and to those of the clients.
LockStep(c, r) ==
  \/ lock' = NoCaller
  \/ lock' = lock /\ lock # c
  \/ lock' = c /\ r.at \in {"peek", "looking"}

ClientStep(c, r) ==
  \A n \in Numbers :
    \/ inst'[n].holder = NoCaller
    \/ inst'[n].holder = inst[n].holder /\ inst[n].holder # c
    \/ inst'[n].holder = c /\ r.at = "rpc" /\ r.i = n

LEMMA Stepped ==
  ASSUME Typed, NEW c \in Actors, NEW r \in CallRecord, Steps(c, r), Rest',
         spawned <= spawned',
         r.at \in Fresh \cup Held => r.i \in 1..spawned',
         r.at \in Stopping => r.op \in {"restart", "clear", "delete", "exit"},
         LockStep(c, r), ClientStep(c, r)
  PROVE  Typed'
<1>0. caller \in [Actors -> CallRecord] /\ spawned \in Nat
  BY Parts
<1>1. caller' \in [Actors -> CallRecord] /\ caller'[c] = r /\ spawned' \in Nat
  BY DEF Steps, Rest
<1>2. \A d \in Actors : caller'[d].at \in Fresh \cup Held => caller'[d].i \in 1..spawned'
  BY <1>0, <1>1 DEF Steps, Typed, Named, Fresh, Held
<1>3. \A d \in Actors : caller'[d].at \in Stopping =>
        caller'[d].op \in {"restart", "clear", "delete", "exit"}
  BY <1>1 DEF Steps, Typed, Named, Stopping
<1>4. lock' # NoCaller => caller'[lock'].at \in {"peek", "looking"}
  <2>1. CASE lock' = lock /\ lock # c /\ lock # NoCaller
    <3>1. lock \in Actors \ {c} /\ caller[lock].at \in {"peek", "looking"}
      BY <2>1 DEF Typed, TypeOK
    <3> QED
      BY <2>1, <3>1 DEF Steps
  <2> QED
    BY <1>1, <2>1 DEF LockStep
<1>5. \A n \in Numbers : inst'[n].holder # NoCaller =>
        caller'[inst'[n].holder].at = "rpc" /\ caller'[inst'[n].holder].i = n
  <2> SUFFICES ASSUME NEW n \in Numbers, inst'[n].holder # NoCaller
               PROVE  caller'[inst'[n].holder].at = "rpc" /\ caller'[inst'[n].holder].i = n
    OBVIOUS
  <2>1. CASE inst'[n].holder = c
    <3>1. r.at = "rpc" /\ r.i = n
      BY <2>1, Parts DEF ClientStep, Actors
    <3> QED
      BY <2>1, <3>1, <1>1
  <2>2. CASE inst'[n].holder # c
    <3>1. inst'[n].holder = inst[n].holder /\ inst[n].holder \in Actors \ {c}
      BY <2>2, Parts DEF InstRecord, ClientStep
    <3>2. caller[inst[n].holder].at = "rpc" /\ caller[inst[n].holder].i = n
      BY <3>1 DEF Typed, TypeOK
    <3> QED
      BY <3>1, <3>2 DEF Steps
  <2> QED
    BY <2>1, <2>2
<1> QED
  BY <1>1, <1>2, <1>3, <1>4, <1>5, Assemble DEF Rest, Named

\* A goroutine that holds no client's mutex before or after steps to r.
LEMMA SteppedQuietly ==
  ASSUME Typed, NEW c \in Actors, NEW r \in CallRecord, Steps(c, r), Rest',
         caller[c].at # "rpc", spawned' = spawned,
         \A n \in Numbers : inst'[n].holder = inst[n].holder,
         r.at \in Fresh \cup Held => r.i \in 1..spawned,
         r.at \in Stopping => r.op \in {"restart", "clear", "delete", "exit"},
         \/ lock' = NoCaller
         \/ lock' = lock /\ caller[c].at \notin {"peek", "looking"}
         \/ lock' = c /\ r.at \in {"peek", "looking"}
  PROVE  Typed'
<1>1. c # NoCaller /\ spawned <= spawned'
  BY Parts DEF Actors
<1>2. lock = c => caller[c].at \in {"peek", "looking"}
  BY <1>1 DEF Typed, TypeOK
<1>3. \A n \in Numbers : inst'[n].holder = inst[n].holder /\ inst[n].holder # c
  BY <1>1 DEF Typed, TypeOK
<1>4. LockStep(c, r)
  BY <1>2 DEF LockStep
<1>5. r.at \in Fresh \cup Held => r.i \in 1..spawned'
  OBVIOUS
<1>6. ClientStep(c, r)
  BY <1>3 DEF ClientStep
<1> QED
  BY <1>1, <1>4, <1>5, <1>6, Stepped

\* The three ways to go on, as steps.
LEMMA GoSteps ==
  ASSUME Typed, NEW c \in Actors, NEW at \in Places, Go(c, at)
  PROVE  \E r \in CallRecord :
           /\ Steps(c, r) /\ r.at = at /\ r.i = caller[c].i
           /\ r.of = caller[c].of /\ r.op = caller[c].op
  BY GoEffect, Parts DEF Steps

LEMMA ReturnSteps ==
  ASSUME Typed, NEW c \in Actors, Return(c)
  PROVE  Steps(c, Idle)
  BY ReturnEffect, Parts DEF Steps

LEMMA WithSteps ==
  ASSUME Typed, NEW c \in Actors, NEW at \in Places,
         NEW n \in 0..MaxSpawns, With(c, at, n)
  PROVE  \E r \in CallRecord :
           /\ Steps(c, r) /\ r.at = at /\ r.i = n
           /\ r.of = caller[c].of /\ r.op = caller[c].op
<1>1. /\ caller' \in [Actors -> CallRecord]
      /\ caller'[c].at = at /\ caller'[c].i = n
      /\ caller'[c].of = caller[c].of /\ caller'[c].op = caller[c].op
      /\ \A d \in Actors \ {c} : caller'[d] = caller[d]
  BY WithEffect, Parts
<1>2. caller'[c] \in CallRecord /\ Steps(c, caller'[c])
  BY <1>1 DEF Steps
<1> QED
  BY <1>1, <1>2

LEMMA SettleSteps ==
  ASSUME Typed, NEW c \in Actors, NEW r \in CallRecord, Settle(c, r)
  PROVE  /\ Steps(c, r)
         /\ spawning' = [spawning EXCEPT ![caller[c].of] = FALSE]
         /\ \A d \in Actors \ {c} :
              caller[d].of = caller[c].of => caller'[d].at # "wait"
<1>0. caller \in [Actors -> CallRecord]
  BY Parts
<1>1. \A d \in Actors : caller'[d] =
        IF d = c THEN r
        ELSE IF caller[d].at = "wait" /\ caller[d].of = caller[c].of
               THEN [caller[d] EXCEPT !.at = "get"]
               ELSE caller[d]
  BY DEF Settle
<1>2. \A d \in Actors : [caller[d] EXCEPT !.at = "get"] \in CallRecord
  BY <1>0 DEF CallRecord, Places
<1>3. caller' \in [Actors -> CallRecord]
  <2>1. \A d \in Actors : caller'[d] \in CallRecord
    BY <1>0, <1>1, <1>2
  <2>2. caller' = [d \in Actors |-> caller'[d]]
    BY DEF Settle
  <2> QED
    BY <2>1, <2>2
<1>4. \A d \in Actors : [caller[d] EXCEPT !.at = "get"].at = "get"
        /\ [caller[d] EXCEPT !.at = "get"].of = caller[d].of
        /\ [caller[d] EXCEPT !.at = "get"].op = caller[d].op
        /\ [caller[d] EXCEPT !.at = "get"].i = caller[d].i
  BY <1>0 DEF CallRecord
<1> QED
  BY <1>1, <1>3, <1>4 DEF Steps, Settle

\* What looking for a spawn in flight does to the goroutine and the map.
LEMMA JoinSteps ==
  ASSUME Typed, NEW c \in Actors, JoinOrSpawn(c)
  PROVE  \E r \in CallRecord :
           /\ Steps(c, r) /\ r.of = caller[c].of /\ r.op = caller[c].op
           /\ \/ spawning[r.of] /\ r.at = "wait" /\ UNCHANGED spawning
              \/ /\ ~spawning[r.of] /\ r.at = "read"
                 /\ spawning' = [spawning EXCEPT ![r.of] = TRUE]
<1>0. /\ caller[c] \in CallRecord /\ caller[c].i \in 0..MaxSpawns /\ 0 \in 0..MaxSpawns
      /\ {"wait", "read"} \subseteq Places
  BY Parts DEF CallRecord, Places, Spawning
<1>1. CASE spawning[caller[c].of] /\ Go(c, "wait") /\ UNCHANGED spawning
  BY <1>0, <1>1, GoSteps
<1>2. CASE /\ ~spawning[caller[c].of]
           /\ spawning' = [spawning EXCEPT ![caller[c].of] = TRUE]
           /\ caller' = [caller EXCEPT ![c].at = "read", ![c].i = 0]
  <2>1. With(c, "read", 0)
    BY <1>2 DEF With
  <2>2. PICK r \in CallRecord :
           /\ Steps(c, r) /\ r.at = "read" /\ r.i = 0
           /\ r.of = caller[c].of /\ r.op = caller[c].op
    BY <1>0, <2>1, WithSteps
  <2> QED
    BY <1>2, <2>2
<1> QED
  BY <1>1, <1>2 DEF JoinOrSpawn

\* After a stop, the goroutine goes on at one of four places.
LEMMA AfterStopSteps ==
  ASSUME Typed, NEW c \in Actors, AfterStop(c), caller[c].at \in Stopping
  PROVE  \E r \in CallRecord :
           /\ Steps(c, r)
           /\ \/ r.at \in {"get", "remove", "next"} /\ r.of = caller[c].of
                   /\ r.op = caller[c].op /\ r.i = caller[c].i
              \/ r = Idle
           /\ r.at \in Stopping => r.op \in {"restart", "clear", "delete", "exit"}
           /\ caller[c].op = "exit" => r.at = "next" /\ r.op = "exit"
<1>1. caller[c].op \in {"restart", "clear", "delete", "exit"}
  BY DEF Typed, Named
<1>2. CASE caller[c].op = "exit"
  <2>1. Go(c, "next")
    BY <1>2 DEF AfterStop
  <2> QED
    BY <1>2, <2>1, GoSteps DEF Places, Stopping
<1>3. CASE caller[c].op # "exit"
  <2>1. Go(c, "get") \/ Return(c) \/ Go(c, "remove")
    BY <1>1, <1>3 DEF AfterStop
  <2> QED
    BY <1>1, <1>3, <2>1, GoSteps, ReturnSteps, IdleType DEF Places, Stopping
<1> QED
  BY <1>2, <1>3

\* The parts a step leaves alone keep their types.
LEMMA RestKept == Typed => Rest
  BY Parts DEF Typed, Named, Rest

\* A request keeps the types.
LEMMA RequestType ==
  ASSUME Typed, NEW c \in Callers, NEW h \in Handlers, Request(c, h)
  PROVE  Typed'
<1>0. c \in Actors /\ caller \in [Actors -> CallRecord] /\ Rest
  BY Parts, RestKept DEF Actors
<1>1. ASSUME NEW op \in Operations, NEW at \in {"get", "stop", "look"}, Begin(c, h, op, at),
             at = "stop" => op \in {"restart", "clear", "delete"},
             rev' \in [Handlers -> 0..MaxRequests], usable' \in [Handlers -> BOOLEAN],
             gone' \in [Handlers -> BOOLEAN], requests' \in 0..MaxRequests,
             \A k \in Handlers : rev'[k] \in 0..requests'
      PROVE  Typed'
  <2> DEFINE r == [at |-> at, op |-> op, of |-> h, i |-> 0]
  <2>1. r \in CallRecord
    BY DEF CallRecord, Places, Spawning
  <2>2. Steps(c, r)
    BY <1>0, <1>1, <2>1 DEF Begin, Steps
  <2>3. caller[c].at = "idle" /\ lock' = lock /\ inst' = inst /\ spawned' = spawned
    BY <1>1 DEF Begin
  <2>4. Rest'
    BY <1>0, <1>1 DEF Begin, Rest
  <2>5. r.at \notin Fresh \cup Held
        /\ (r.at \in Stopping => r.op \in {"restart", "clear", "delete", "exit"})
    BY <1>1 DEF Fresh, Held, Stopping
  <2> HIDE DEF r
  <2> QED
    BY <1>0, <2>1, <2>2, <2>3, <2>4, <2>5, SteppedQuietly
<1>2. \A k \in Handlers : rev[k] \in 0..MaxRequests /\ rev[k] <= requests
  BY <1>0 DEF Rest
<1>3. CASE requests < MaxRequests /\ requests' = requests + 1
  <2>1. requests' \in 0..MaxRequests /\ \A k \in Handlers : rev[k] \in 0..requests'
    BY <1>0, <1>2, <1>3 DEF Rest
  <2>2. ASSUME rev' = [rev EXCEPT ![h] = @ + 1]
        PROVE  rev' \in [Handlers -> 0..MaxRequests] /\ \A k \in Handlers : rev'[k] \in 0..requests'
    BY <1>0, <1>2, <1>3, <2>2 DEF Rest
  <2> QED
    BY <1>0, <1>1, <1>3, <2>1, <2>2
       DEF Request, Call, BootHandler, Edit, UpdateConfig, ClearConfig, Restart, Delete, State,
           Ask, Row, Rest, Operations
<1>4. CASE UNCHANGED Row
  <2>1. CASE Call(c, h)
    BY <1>0, <1>1, <1>2, <1>4, <2>1 DEF Call, Row, Rest, Operations
  <2> QED
    BY <1>0, <1>4, <2>1 DEF Rest, Request, BootHandler, Edit, UpdateConfig, ClearConfig, Restart, Delete, State,
           Ask, Row
<1> QED
  BY <1>3, <1>4 DEF Request, Call, BootHandler, Edit, UpdateConfig, ClearConfig, Restart,
                    Delete, State, Ask

\* Get and what follows it under the manager's mutex.
LEMMA GetType ==
  ASSUME Typed, NEW c \in Actors, Get(c) \/ Peek(c) \/ Stop(c) \/ Look(c) \/ Looked(c)
  PROVE  Typed'
<1>0. /\ caller \in [Actors -> CallRecord] /\ Rest /\ spawned \in Nat /\ MaxSpawns \in Nat
      /\ \A h \in Handlers : instances[h] \in 0..spawned /\ instances[h] \in 0..MaxSpawns
      /\ caller[c].of \in Handlers /\ caller[c] \in CallRecord
      /\ {"peek", "have", "shut", "looking"} \subseteq Places
  BY Parts, RestKept DEF Rest, CallRecord, Places
<1>3. caller[c].at \in Fresh \cup Held => caller[c].i \in 1..spawned
  BY DEF Typed, Named
<1> DEFINE n == instances[caller[c].of]
<1>4. CASE Get(c)
  <2>0. caller[c].at = "get" /\ inst' = inst /\ spawned' = spawned
    BY <1>4 DEF Get
  <2>1. CASE n # 0
    <3>1. With(c, "peek", n) /\ lock' = c /\ UNCHANGED spawning
      BY <1>4, <2>1 DEF Get, With
    <3>2. PICK r \in CallRecord : Steps(c, r) /\ r.at = "peek" /\ r.i = n
      BY <1>0, <3>1, WithSteps
    <3>3. r.i \in 1..spawned
      BY <1>0, <2>1, <3>2
    <3>4. Rest'
      BY <1>0, <1>4, <3>1 DEF Get, Rest, Row
    <3> QED
      BY <2>0, <3>1, <3>2, <3>3, <3>4, SteppedQuietly DEF Stopping
  <2>2. CASE n = 0
    <3>1. JoinOrSpawn(c) /\ lock' = lock
      BY <1>4, <2>2 DEF Get
    <3>2. PICK r \in CallRecord :
             /\ Steps(c, r) /\ r.at \in {"wait", "read"}
             /\ spawning' \in [Handlers -> BOOLEAN]
      BY <1>0, <3>1, JoinSteps DEF Rest
    <3>3. Rest'
      BY <1>0, <1>4, <3>1, <3>2 DEF Get, Rest, Row
    <3> QED
      BY <2>0, <3>1, <3>2, <3>3, SteppedQuietly DEF Fresh, Held, Stopping
  <2> QED
    BY <2>1, <2>2
<1>5. CASE Peek(c)
  <2>0. /\ caller[c].at = "peek" /\ inst' = inst /\ spawned' = spawned /\ lock' = NoCaller
        /\ caller[c].i \in 1..spawned /\ caller[c].i \in Numbers
    BY <1>0, <1>3, <1>5 DEF Peek, Held, Numbers, Rest
  <2>1. CASE inst[caller[c].i].crashed
    <3>1. JoinOrSpawn(c)
      BY <1>5, <2>1 DEF Peek
    <3>2. PICK r \in CallRecord :
             /\ Steps(c, r) /\ r.at \in {"wait", "read"}
             /\ spawning' \in [Handlers -> BOOLEAN]
      BY <1>0, <3>1, JoinSteps DEF Rest
    <3>3. /\ instances' = [instances EXCEPT ![caller[c].of] = 0]
          /\ reaping' = reaping \cup {caller[c].i} /\ UNCHANGED <<Row, inst, spawned, leaving, missed>>
      BY <1>5, <2>1 DEF Peek
    <3>4. Rest'
      BY <1>0, <2>0, <3>2, <3>3 DEF Rest, Row
    <3> QED
      BY <2>0, <3>2, <3>4, SteppedQuietly DEF Fresh, Held, Stopping
  <2>2. CASE ~inst[caller[c].i].crashed
    <3>0. Take(c, caller[c].i) /\ UNCHANGED <<instances, reaping, spawning>>
      BY <1>5, <2>2 DEF Peek
    <3>1. Rest'
      BY <1>0, <1>5, <2>0, <3>0 DEF Peek, Rest, Row
    <3>2. CASE caller[c].op = "call"
      <4>1. With(c, "have", caller[c].i)
        BY <3>0, <3>2 DEF Take, With
      <4>2. PICK r \in CallRecord : Steps(c, r) /\ r.at = "have" /\ r.i = caller[c].i
        BY <1>0, <4>1, WithSteps DEF CallRecord
      <4> QED
        BY <2>0, <3>1, <4>2, SteppedQuietly DEF Stopping
    <3>3. CASE caller[c].op # "call"
      <4>1. Steps(c, Idle)
        BY <3>0, <3>3, ReturnSteps DEF Take
      <4> QED
        BY <2>0, <3>1, <4>1, SteppedQuietly, IdleType DEF Fresh, Held, Stopping
    <3> QED
      BY <3>2, <3>3
  <2> QED
    BY <2>1, <2>2
<1>6. CASE Stop(c)
  <2>0. caller[c].at = "stop" /\ inst' = inst /\ spawned' = spawned /\ lock' = lock
    BY <1>6 DEF Stop
  <2>1. InFlight(caller[c].of) \subseteq 1..spawned
    BY <1>0 DEF InFlight, Typed, Named, Fresh, Held
  <2>2. 1..spawned \subseteq Numbers
    BY <1>0 DEF Rest, Numbers
  <2>3. Rest'
    BY <1>0, <1>6, <2>1, <2>2 DEF Stop, Rest, Row
  <2>4. CASE n # 0
    <3>1. With(c, "shut", n)
      BY <1>6, <2>4 DEF Stop, With
    <3>2. PICK r \in CallRecord :
             Steps(c, r) /\ r.at = "shut" /\ r.i = n /\ r.op = caller[c].op
      BY <1>0, <3>1, WithSteps
    <3>3. r.i \in 1..spawned /\ r.op \in {"restart", "clear", "delete", "exit"}
      BY <1>0, <2>0, <2>4, <3>2 DEF Typed, Named, Stopping
    <3> QED
      BY <2>0, <2>3, <3>2, <3>3, SteppedQuietly
  <2>5. CASE n = 0
    <3>1. AfterStop(c)
      BY <1>6, <2>5 DEF Stop
    <3>2. PICK r \in CallRecord :
          /\ Steps(c, r) /\ r.at \in {"get", "remove", "next", "idle"}
          /\ r.at \in Stopping => r.op \in {"restart", "clear", "delete", "exit"}
      BY <2>0, <3>1, AfterStopSteps, IdleType DEF Stopping
    <3> QED
      BY <2>0, <2>3, <3>2, SteppedQuietly DEF Fresh, Held
  <2> QED
    BY <2>4, <2>5
<1>7. CASE Look(c)
  <2>0. Rest' /\ caller[c].at = "look" /\ inst' = inst /\ spawned' = spawned
    BY <1>0, <1>7 DEF Look, Rest, Row
  <2>1. CASE n # 0
    <3>1. With(c, "looking", n) /\ lock' = c
      BY <1>7, <2>1 DEF Look, With
    <3>2. PICK r \in CallRecord : Steps(c, r) /\ r.at = "looking" /\ r.i = n
      BY <1>0, <3>1, WithSteps
    <3>3. r.i \in 1..spawned
      BY <1>0, <2>1, <3>2
    <3> QED
      BY <2>0, <3>1, <3>2, <3>3, SteppedQuietly DEF Stopping
  <2>2. CASE n = 0
    <3>1. Steps(c, Idle) /\ lock' = lock
      BY <1>7, <2>2, ReturnSteps DEF Look
    <3> QED
      BY <2>0, <3>1, SteppedQuietly, IdleType DEF Fresh, Held, Stopping
  <2> QED
    BY <2>1, <2>2
<1>8. CASE Looked(c)
  <2>1. Rest' /\ Steps(c, Idle) /\ caller[c].at = "looking" /\ inst' = inst /\ spawned' = spawned
        /\ lock' = NoCaller
    BY <1>0, <1>8, ReturnSteps DEF Looked, Rest, Row
  <2> QED
    BY <2>1, SteppedQuietly, IdleType DEF Fresh, Held, Stopping
<1> QED
  BY <1>4, <1>5, <1>6, <1>7, <1>8

\* The spawn.
LEMMA SpawnType ==
  ASSUME Typed, NEW c \in Actors,
         GiveUp(c) \/ SpawnRead(c) \/ Launch(c) \/ InitInstance(c) \/ Register(c)
           \/ SpawnFailed(c)
  PROVE  Typed'
<1>0. /\ caller \in [Actors -> CallRecord] /\ Rest /\ spawned \in Nat /\ MaxSpawns \in Nat
      /\ caller[c].of \in Handlers /\ caller[c] \in CallRecord /\ caller[c].i \in 0..MaxSpawns
      /\ {"launch", "init", "spawned", "failed", "have"} \subseteq Places
  BY Parts, RestKept DEF Rest, CallRecord, Places, Spawning
<1>3. caller[c].at \in Fresh \cup Held => caller[c].i \in 1..spawned
  BY DEF Typed, Named
<1>4. CASE GiveUp(c)
  <2>1. /\ Rest' /\ Steps(c, Idle) /\ caller[c].at = "wait" /\ inst' = inst
        /\ spawned' = spawned /\ lock' = lock
    BY <1>0, <1>4, ReturnSteps DEF GiveUp, Rest, Row
  <2> QED
    BY <2>1, SteppedQuietly, IdleType DEF Fresh, Held, Stopping
<1>5. CASE SpawnRead(c)
  <2>0. caller[c].at = "read" /\ lock' = lock
    BY <1>5 DEF SpawnRead
  <2>1. CASE Go(c, "failed") /\ UNCHANGED <<spawned, inst>>
    <3>1. Rest'
      BY <1>0, <1>5, <2>1 DEF SpawnRead, Rest, Row
    <3>2. PICK r \in CallRecord : Steps(c, r) /\ r.at = "failed"
      BY <1>0, <2>1, GoSteps
    <3> QED
      BY <2>0, <2>1, <3>1, <3>2, SteppedQuietly DEF Fresh, Held, Stopping
  <2>2. CASE ~(Go(c, "failed") /\ UNCHANGED <<spawned, inst>>)
    <3> DEFINE m == spawned + 1
    <3>1. /\ spawned < MaxSpawns /\ spawned' = m
          /\ inst' = [inst EXCEPT ![m].of = caller[c].of, ![m].rev = rev[caller[c].of],
                                  ![m].life = "made"]
          /\ With(c, "launch", m)
      BY <1>5, <2>2 DEF SpawnRead, With
    <3>2. m \in Numbers /\ m \in 0..MaxSpawns /\ m \in 1..spawned' /\ spawned <= spawned'
      BY <1>0, <3>1 DEF Numbers
    <3> DEFINE x == [inst[m] EXCEPT !.of = caller[c].of, !.rev = rev[caller[c].of],
                                    !.life = "made"]
    <3>3. inst[m] \in InstRecord /\ rev[caller[c].of] \in 0..MaxRequests
      BY <1>0, <3>2 DEF Rest
    <3>4. x \in InstRecord /\ x.holder = inst[m].holder
      BY <1>0, <3>3 DEF InstRecord
    <3>5. inst' = [inst EXCEPT ![m] = x]
      BY <3>1
    <3>6. PICK r \in CallRecord : Steps(c, r) /\ r.at = "launch" /\ r.i = m
      BY <1>0, <3>1, <3>2, WithSteps
    <3> HIDE DEF x, m
    <3>7. /\ inst' \in [Numbers -> InstRecord]
          /\ \A n \in Numbers : inst'[n] = IF n = m THEN x ELSE inst[n]
      BY <1>0, <3>2, <3>4, <3>5 DEF Rest
    <3>8. \A n \in Numbers : inst'[n].holder = inst[n].holder
      BY <3>4, <3>7
    <3>9. UNCHANGED <<Row, instances, spawning, lock, reaping, leaving, missed>>
      BY <1>5 DEF SpawnRead
    <3>10. spawned' \in 0..MaxSpawns /\ \A k \in 0..spawned : k \in 0..spawned'
      BY <1>0, <3>1 DEF m
    <3>11. \A n \in Numbers : inst'[n].life # "none" => n \in 1..spawned'
      BY <1>0, <3>2, <3>7, <3>10 DEF Rest
    <3>12. Rest'
      BY <1>0, <3>2, <3>7, <3>9, <3>10, <3>11 DEF Rest, Row
    <3>13. c # NoCaller /\ \A n \in Numbers : inst[n].holder # c
      BY <2>0, <1>0 DEF Typed, TypeOK, Actors
    <3>14. LockStep(c, r)
      BY <2>0, <3>13 DEF Typed, TypeOK, Actors, LockStep
    <3>15. ClientStep(c, r)
      BY <3>8, <3>13 DEF ClientStep
    <3> QED
      BY <2>0, <3>2, <3>6, <3>12, <3>14, <3>15, Stepped DEF Stopping
  <2> QED
    BY <2>1, <2>2
<1>6. ASSUME NEW life \in {"up", "killed"}, inst' = [inst EXCEPT ![caller[c].i].life = life],
             caller[c].at \in Fresh
      PROVE  /\ inst' \in [Numbers -> InstRecord]
             /\ \A n \in Numbers : inst'[n].holder = inst[n].holder
             /\ \A n \in Numbers : inst'[n].life # "none" => n \in 1..spawned
  <2> DEFINE m == caller[c].i
             x == [inst[m] EXCEPT !.life = life]
  <2>1. m \in Numbers /\ m \in 1..spawned
    BY <1>0, <1>3, <1>6 DEF Rest, Numbers
  <2>2. x \in InstRecord /\ x.holder = inst[m].holder
    <3>1. inst[m] \in InstRecord
      BY <1>0, <2>1 DEF Rest
    <3> QED
      BY <1>6, <3>1 DEF InstRecord
  <2>3. inst' = [inst EXCEPT ![m] = x]
    BY <1>6
  <2> HIDE DEF x, m
  <2> QED
    BY <1>0, <2>1, <2>2, <2>3 DEF Rest
<1>7. CASE Launch(c)
  <2>1. caller[c].at = "launch" /\ caller[c].at \in Fresh /\ lock' = lock /\ spawned' = spawned
    BY <1>7 DEF Launch, Fresh
  <2>2. /\ inst' \in [Numbers -> InstRecord]
        /\ \A n \in Numbers : inst'[n].holder = inst[n].holder
        /\ \A n \in Numbers : inst'[n].life # "none" => n \in 1..spawned
    BY <1>0, <1>6, <1>7, <2>1 DEF Launch, Rest
  <2>3. PICK r \in CallRecord : Steps(c, r) /\ r.at \in {"init", "failed"} /\ r.i = caller[c].i
    BY <1>0, <1>7, GoSteps DEF Launch
  <2>4. Rest'
    BY <1>0, <1>7, <2>2 DEF Launch, Rest, Row
  <2> QED
    BY <1>3, <2>1, <2>2, <2>3, <2>4, SteppedQuietly DEF Stopping
<1>8. CASE InitInstance(c)
  <2>1. caller[c].at = "init" /\ caller[c].at \in Fresh /\ lock' = lock /\ spawned' = spawned
    BY <1>8 DEF InitInstance, Fresh
  <2>2. /\ inst' \in [Numbers -> InstRecord]
        /\ \A n \in Numbers : inst'[n].holder = inst[n].holder
        /\ \A n \in Numbers : inst'[n].life # "none" => n \in 1..spawned
    BY <1>0, <1>6, <1>8, <2>1 DEF InitInstance, Rest
  <2>3. PICK r \in CallRecord : Steps(c, r) /\ r.at \in {"spawned", "failed"} /\ r.i = caller[c].i
    BY <1>0, <1>8, GoSteps DEF InitInstance
  <2>4. Rest'
    BY <1>0, <1>8, <2>2 DEF InitInstance, Rest, Row
  <2> QED
    BY <1>3, <2>1, <2>2, <2>3, <2>4, SteppedQuietly DEF Stopping
<1>9. CASE Register(c)
  <2>1. /\ caller[c].at = "spawned" /\ caller[c].at \in Fresh /\ lock' = lock
        /\ inst' = inst /\ spawned' = spawned
        /\ instances' = [instances EXCEPT ![caller[c].of] = caller[c].i]
        /\ UNCHANGED <<Row, reaping, leaving, missed>>
    BY <1>9 DEF Register, Fresh
  <2>2. PICK r \in CallRecord :
          /\ Settle(c, r) /\ r.at \in {"have", "idle"} /\ (r.at = "have" => r.i = caller[c].i)
    <3>1. [caller[c] EXCEPT !.at = "have"] \in CallRecord
          /\ [caller[c] EXCEPT !.at = "have"].at = "have"
          /\ [caller[c] EXCEPT !.at = "have"].i = caller[c].i
      BY <1>0 DEF CallRecord
    <3> QED
      BY <1>9, <3>1, IdleType DEF Register
  <2>3. Steps(c, r) /\ spawning' = [spawning EXCEPT ![caller[c].of] = FALSE]
    BY <2>2, SettleSteps
  <2>4. Rest'
    BY <1>0, <1>3, <2>1, <2>3 DEF Rest, Row
  <2> QED
    BY <1>3, <2>1, <2>2, <2>3, <2>4, SteppedQuietly DEF Stopping, Fresh, Held
<1>10. CASE SpawnFailed(c)
  <2>1. /\ caller[c].at = "failed" /\ lock' = lock /\ inst' = inst /\ spawned' = spawned
        /\ Settle(c, Idle)
    BY <1>10 DEF SpawnFailed
  <2>2. Steps(c, Idle) /\ spawning' = [spawning EXCEPT ![caller[c].of] = FALSE]
    BY <2>1, SettleSteps, IdleType
  <2>3. Rest'
    BY <1>0, <1>10, <2>2 DEF SpawnFailed, Rest, Row
  <2> QED
    BY <2>1, <2>2, <2>3, SteppedQuietly, IdleType DEF Fresh, Held, Stopping
<1> QED
  BY <1>4, <1>5, <1>7, <1>8, <1>9, <1>10

\* Nobody steps.
LEMMA Unmoved ==
  ASSUME Typed, Rest', caller' = caller, lock' = lock, spawned' = spawned,
         \A n \in Numbers : inst'[n].holder = inst[n].holder
  PROVE  Typed'
<1>1. Named'
  BY DEF Typed, Named, Rest
<1> QED
  BY <1>1, Parts, Assemble DEF Rest, Typed, TypeOK

\* One instance changes, and who holds its client's mutex does or does not.
LEMMA ChangeInst ==
  ASSUME Rest, NEW n \in Numbers, NEW x \in InstRecord, inst' = [inst EXCEPT ![n] = x],
         x.life # "none" => n \in 1..spawned
  PROVE  /\ inst' \in [Numbers -> InstRecord] /\ inst'[n] = x
         /\ \A m \in Numbers \ {n} : inst'[m] = inst[m]
         /\ \A m \in Numbers : inst'[m].life # "none" => m \in 1..spawned
  BY DEF Rest

\* What an instance in a goroutine's hands may become.
LEMMA Changes ==
  ASSUME Rest, NEW n \in Numbers
  PROVE  /\ [inst[n] EXCEPT !.shut = TRUE] \in InstRecord
         /\ [inst[n] EXCEPT !.shut = TRUE].holder = inst[n].holder
         /\ [inst[n] EXCEPT !.shut = TRUE].life = inst[n].life
         /\ \A life \in {"dead", "killed"} :
              /\ [inst[n] EXCEPT !.life = life] \in InstRecord
              /\ [inst[n] EXCEPT !.life = life].holder = inst[n].holder
         /\ \A c \in Actors \cup {NoCaller} :
              /\ [inst[n] EXCEPT !.holder = c] \in InstRecord
              /\ [inst[n] EXCEPT !.holder = c].holder = c
              /\ [inst[n] EXCEPT !.holder = c].life = inst[n].life
              /\ [inst[n] EXCEPT !.holder = c, !.crashed = TRUE] \in InstRecord
              /\ [inst[n] EXCEPT !.holder = c, !.crashed = TRUE].holder = c
              /\ [inst[n] EXCEPT !.holder = c, !.crashed = TRUE].life = inst[n].life
<1>1. inst[n] \in InstRecord
  BY DEF Rest
<1> QED
  BY <1>1 DEF InstRecord

\* The stop, and the call over the pipe.
LEMMA ClientType ==
  ASSUME Typed, NEW c \in Actors,
         Shut(c) \/ Kill(c) \/ Remove(c) \/ BeginRpc(c) \/ EndRpc(c) \/ RpcFails(c)
  PROVE  Typed'
<1> DEFINE m == caller[c].i
<1>0. /\ caller \in [Actors -> CallRecord] /\ Rest /\ caller[c].of \in Handlers
      /\ {"kill", "rpc"} \subseteq Places /\ c # NoCaller
  BY Parts, RestKept DEF CallRecord, Places, Spawning, Actors
<1>1. caller[c].at \in Held => m \in 1..spawned /\ m \in Numbers
  BY <1>0 DEF Typed, Named, Rest, Numbers
<1>2. caller[c].at \in Stopping => caller[c].op \in {"restart", "clear", "delete", "exit"}
  BY DEF Typed, Named
<1>3. \A n \in Numbers : inst[n].holder = c => caller[c].at = "rpc" /\ m = n
  BY <1>0 DEF Typed, TypeOK
<1>4. lock = c => caller[c].at \in {"peek", "looking"}
  BY <1>0 DEF Typed, TypeOK
<1>5. CASE Shut(c)
  <2>1. /\ caller[c].at = "shut" /\ m \in Numbers /\ m \in 1..spawned /\ lock' = lock
        /\ spawned' = spawned /\ inst' = [inst EXCEPT ![m] = [inst[m] EXCEPT !.shut = TRUE]]
        /\ UNCHANGED <<Row, instances, spawning, reaping, leaving, missed>>
    BY <1>1, <1>5 DEF Shut, Held
  <2>2. /\ inst' \in [Numbers -> InstRecord]
        /\ \A n \in Numbers : inst'[n].holder = inst[n].holder
        /\ \A n \in Numbers : inst'[n].life # "none" => n \in 1..spawned
    BY <1>0, <2>1, Changes, ChangeInst, ZenonT(60)
  <2>3. Rest'
    BY <1>0, <2>1, <2>2 DEF Rest, Row
  <2>4. PICK r \in CallRecord : Steps(c, r) /\ r.at = "kill" /\ r.i = m /\ r.op = caller[c].op
    BY <1>0, <1>5, GoSteps DEF Shut
  <2> QED
    BY <1>2, <2>1, <2>2, <2>3, <2>4, SteppedQuietly DEF Stopping
<1>6. CASE Kill(c)
  <2>1. /\ caller[c].at = "kill" /\ m \in Numbers /\ m \in 1..spawned /\ lock' = lock
        /\ spawned' = spawned /\ inst' = [inst EXCEPT ![m] = [inst[m] EXCEPT !.life = "killed"]]
        /\ UNCHANGED <<Row, instances, spawning, reaping, leaving, missed>>
    BY <1>1, <1>6 DEF Kill, Held
  <2>2. /\ inst' \in [Numbers -> InstRecord]
        /\ \A n \in Numbers : inst'[n].holder = inst[n].holder
        /\ \A n \in Numbers : inst'[n].life # "none" => n \in 1..spawned
    BY <1>0, <2>1, Changes, ChangeInst, ZenonT(60)
  <2>3. Rest'
    BY <1>0, <2>1, <2>2 DEF Rest, Row
  <2>4. PICK r \in CallRecord :
          /\ Steps(c, r) /\ r.at \in {"get", "remove", "next", "idle"}
          /\ r.at \in Stopping => r.op \in {"restart", "clear", "delete", "exit"}
    BY <1>6, <2>1, AfterStopSteps, IdleType DEF Kill, Stopping
  <2> QED
    BY <2>1, <2>2, <2>3, <2>4, SteppedQuietly DEF Fresh, Held
<1>7. CASE Remove(c)
  <2>1. /\ caller[c].at = "remove" /\ lock' = lock /\ inst' = inst /\ spawned' = spawned
        /\ Steps(c, Idle)
    BY <1>7, ReturnSteps DEF Remove
  <2>2. Rest'
    BY <1>0, <1>7 DEF Remove, Rest
  <2> QED
    BY <2>1, <2>2, SteppedQuietly, IdleType DEF Fresh, Held, Stopping
<1>8. CASE BeginRpc(c)
  <2>1. /\ caller[c].at = "have" /\ m \in Numbers /\ m \in 1..spawned /\ lock' = lock
        /\ spawned' = spawned /\ UNCHANGED <<Row, instances, spawning, reaping, leaving, missed>>
    BY <1>1, <1>8 DEF BeginRpc, Held
  <2>2. CASE Return(c) /\ UNCHANGED inst
    <3>1. Rest' /\ Steps(c, Idle)
      BY <1>0, <2>1, <2>2, ReturnSteps DEF Rest, Row
    <3> QED
      BY <2>1, <2>2, <3>1, SteppedQuietly, IdleType DEF Fresh, Held, Stopping
  <2>3. CASE inst' = [inst EXCEPT ![m].holder = c] /\ Go(c, "rpc")
    <3>1. inst' = [inst EXCEPT ![m] = [inst[m] EXCEPT !.holder = c]]
      BY <2>3
    <3>2. /\ inst' \in [Numbers -> InstRecord] /\ inst'[m].holder = c
          /\ \A n \in Numbers \ {m} : inst'[n].holder = inst[n].holder
          /\ \A n \in Numbers : inst'[n].life # "none" => n \in 1..spawned
      BY <1>0, <2>1, <3>1, Changes, ChangeInst, ZenonT(60)
    <3>3. Rest'
      BY <1>0, <2>1, <3>2 DEF Rest, Row
    <3>4. PICK r \in CallRecord : Steps(c, r) /\ r.at = "rpc" /\ r.i = m
      BY <1>0, <2>3, GoSteps
    <3>5. ClientStep(c, r)
      BY <1>3, <2>1, <3>2, <3>4 DEF ClientStep
    <3>6. LockStep(c, r)
      BY <1>4, <2>1 DEF LockStep
    <3>7. spawned <= spawned' /\ spawned' = spawned
      BY <1>0, <2>1 DEF Rest
    <3> QED
      BY <2>1, <3>3, <3>4, <3>5, <3>6, <3>7, Stepped DEF Stopping
  <2> QED
    BY <1>8, <2>2, <2>3 DEF BeginRpc
<1>9. CASE EndRpc(c) \/ RpcFails(c)
  <2>1. /\ caller[c].at = "rpc" /\ lock' = lock /\ Steps(c, Idle)
        /\ spawned' = spawned /\ UNCHANGED <<Row, instances, spawning, reaping, leaving, missed>>
        /\ m \in Numbers /\ m \in 1..spawned
    BY <1>1, <1>9, ReturnSteps DEF EndRpc, RpcFails, Held
  <2>2. \/ inst' = [inst EXCEPT ![m] = [inst[m] EXCEPT !.holder = NoCaller]]
        \/ inst' = [inst EXCEPT ![m] = [inst[m] EXCEPT !.holder = NoCaller, !.crashed = TRUE]]
    BY <1>9 DEF EndRpc, RpcFails
  <2>3. /\ inst' \in [Numbers -> InstRecord] /\ inst'[m].holder = NoCaller
        /\ \A n \in Numbers \ {m} : inst'[n].holder = inst[n].holder
        /\ \A n \in Numbers : inst'[n].life # "none" => n \in 1..spawned
    <3>1. ASSUME NEW x \in InstRecord, inst' = [inst EXCEPT ![m] = x], x.holder = NoCaller
          PROVE  /\ inst' \in [Numbers -> InstRecord] /\ inst'[m].holder = NoCaller
                 /\ \A n \in Numbers \ {m} : inst'[n].holder = inst[n].holder
                 /\ \A n \in Numbers : inst'[n].life # "none" => n \in 1..spawned
      BY <1>0, <2>1, <3>1, ChangeInst
    <3>2. CASE inst' = [inst EXCEPT ![m] = [inst[m] EXCEPT !.holder = NoCaller]]
      <4> DEFINE x == [inst[m] EXCEPT !.holder = NoCaller]
      <4>1. inst[m] \in InstRecord
        BY <1>0, <2>1 DEF Rest
      <4>2. x \in InstRecord /\ x.holder = NoCaller
        BY <4>1 DEF InstRecord
      <4> QED
        BY <3>1, <3>2, <4>2
    <3>3. CASE inst' = [inst EXCEPT ![m] = [inst[m] EXCEPT !.holder = NoCaller, !.crashed = TRUE]]
      <4> DEFINE x == [inst[m] EXCEPT !.holder = NoCaller, !.crashed = TRUE]
      <4>1. inst[m] \in InstRecord
        BY <1>0, <2>1 DEF Rest
      <4>2. x \in InstRecord /\ x.holder = NoCaller
        BY <4>1 DEF InstRecord
      <4> QED
        BY <3>1, <3>3, <4>2
    <3> QED
      BY <2>2, <3>2, <3>3
  <2>4. Rest'
    BY <1>0, <2>1, <2>3 DEF Rest, Row
  <2>5. ClientStep(c, Idle)
    BY <1>3, <2>1, <2>3 DEF ClientStep
  <2>6. LockStep(c, Idle)
    BY <1>4, <2>1 DEF LockStep
  <2>7. spawned <= spawned'
    BY <1>0, <2>1 DEF Rest
  <2> QED
    BY <2>1, <2>4, <2>5, <2>6, <2>7, Stepped, IdleType DEF Fresh, Held, Stopping
<1> QED
  BY <1>5, <1>6, <1>7, <1>8, <1>9

\* Processes that die, goroutines that reap, and the end of the program.
LEMMA WorldType ==
  ASSUME Typed, (\E n \in Numbers : Die(n) \/ Reap(n)) \/ StopAll \/ StopNext \/ Exit
  PROVE  Typed'
<1>0. /\ caller \in [Actors -> CallRecord] /\ Rest /\ Main \in Actors
      /\ {"next", "shut", "exited"} \subseteq Places /\ "exit" \in Operations
      /\ caller[Main] \in CallRecord
  BY Parts, RestKept DEF Places, Spawning, Actors, Operations
<1>1. ASSUME NEW n \in Numbers, Die(n) \/ Reap(n) PROVE Typed'
  <2>0. Die(n) => inst[n].life = "up"
    BY DEF Die
  <2>1. n \in 1..spawned
    BY <1>0, <1>1 DEF Die, Reap, Rest
  <2>2. \/ inst' = [inst EXCEPT ![n] = [inst[n] EXCEPT !.life = "dead"]]
        \/ inst' = [inst EXCEPT ![n] = [inst[n] EXCEPT !.life = "killed"]]
    BY <1>1 DEF Die, Reap
  <2>3. /\ inst' \in [Numbers -> InstRecord]
        /\ \A k \in Numbers : inst'[k].holder = inst[k].holder
        /\ \A k \in Numbers : inst'[k].life # "none" => k \in 1..spawned
    <3>1. ASSUME NEW x \in InstRecord, inst' = [inst EXCEPT ![n] = x],
                 x.holder = inst[n].holder
          PROVE  /\ inst' \in [Numbers -> InstRecord]
                 /\ \A k \in Numbers : inst'[k].holder = inst[k].holder
                 /\ \A k \in Numbers : inst'[k].life # "none" => k \in 1..spawned
      BY <1>0, <2>1, <3>1, ChangeInst
    <3> QED
      BY <1>0, <2>1, <2>2, <3>1, Changes
  <2>4. Rest' /\ caller' = caller /\ lock' = lock /\ spawned' = spawned
    BY <1>0, <1>1, <2>3 DEF Die, Reap, Rest, Row
  <2> QED
    BY <2>3, <2>4, Unmoved
<1>2. CASE StopAll
  <2> DEFINE r == [caller[Main] EXCEPT !.at = "next", !.op = "exit"]
  <2>1. r \in CallRecord /\ r.at = "next" /\ r.op = "exit"
    BY <1>0 DEF CallRecord
  <2>2. caller' = [caller EXCEPT ![Main] = r]
    BY <1>2 DEF StopAll
  <2> HIDE DEF r
  <2>3. Steps(Main, r)
    BY <1>0, <2>1, <2>2 DEF Steps
  <2>4. Rest' /\ caller[Main].at = "idle" /\ lock' = lock /\ inst' = inst /\ spawned' = spawned
    <3>1. \A h \in Handlers : instances[h] \in 0..spawned /\ 0 \in 0..spawned
            /\ (instances[h] # 0 => instances[h] \in Numbers /\ instances[h] \in 1..spawned)
      BY <1>0 DEF Rest, Numbers
    <3>2. leaving' \subseteq Numbers /\ \A n \in leaving' : n \in 1..spawned
      BY <1>2, <3>1 DEF StopAll
    <3> QED
      BY <1>0, <1>2, <3>1, <3>2 DEF StopAll, Rest, Row
  <2> QED
    BY <1>0, <2>1, <2>3, <2>4, SteppedQuietly DEF Fresh, Held, Stopping, Operations
<1>3. CASE StopNext
  <2>1. PICK n \in leaving :
          leaving' = leaving \ {n} /\ With(Main, "shut", n)
    BY <1>3 DEF StopNext, With
  <2>2. n \in 1..spawned /\ n \in 0..MaxSpawns
    BY <1>0, <2>1 DEF Rest, Numbers
  <2>3. PICK r \in CallRecord :
          Steps(Main, r) /\ r.at = "shut" /\ r.i = n /\ r.op = caller[Main].op
    BY <1>0, <2>1, <2>2, WithSteps
  <2>4. Rest' /\ caller[Main].at = "next" /\ lock' = lock /\ inst' = inst /\ spawned' = spawned
    BY <1>0, <1>3, <2>1 DEF StopNext, Rest, Row
  <2>5. r.op \in {"restart", "clear", "delete", "exit"}
    BY <1>0, <2>3, <2>4 DEF Typed, Named, Stopping
  <2> QED
    BY <1>0, <2>2, <2>3, <2>4, <2>5, SteppedQuietly DEF Fresh, Held, Stopping
<1>4. CASE Exit
  <2>1. PICK r \in CallRecord :
          Steps(Main, r) /\ r.at = "exited" /\ r.op = caller[Main].op
    BY <1>0, <1>4, GoSteps DEF Exit
  <2>2. /\ caller[Main].at = "next" /\ lock' = lock /\ spawned' = spawned
        /\ inst' = [n \in Numbers |->
             IF inst[n].life = "up" THEN [inst[n] EXCEPT !.life = "killed"] ELSE inst[n]]
        /\ UNCHANGED <<Row, instances, spawning, reaping, leaving, missed>>
    BY <1>4 DEF Exit
  <2>3. \A n \in Numbers :
          /\ inst'[n] \in InstRecord /\ inst'[n].holder = inst[n].holder
          /\ inst'[n].life # "none" => inst[n].life # "none"
    BY <1>0, <2>2, Changes DEF Rest
  <2>4. inst' \in [Numbers -> InstRecord]
    BY <2>2, <2>3
  <2>5. Rest'
    BY <1>0, <2>2, <2>3, <2>4 DEF Rest, Row
  <2> QED
    BY <1>0, <2>1, <2>2, <2>3, <2>5, SteppedQuietly DEF Fresh, Held, Stopping
<1> QED
  BY <1>1, <1>2, <1>3, <1>4

LEMMA NextType == ASSUME Typed, [Next]_vars PROVE Typed'
<1>1. CASE UNCHANGED vars
  <2>1. Rest' /\ caller' = caller /\ lock' = lock /\ spawned' = spawned /\ inst' = inst
    BY <1>1, RestKept DEF vars, Rest
  <2> QED
    BY <2>1, Unmoved
<1>2. ASSUME NEW c \in Actors, Step(c) PROVE Typed'
  BY <1>2, GetType, SpawnType, ClientType DEF Step
<1>3. ASSUME NEW c \in Callers, GiveUp(c) PROVE Typed'
  BY <1>3, SpawnType DEF Actors
<1> QED
  BY <1>1, <1>2, <1>3, RequestType, WorldType DEF Next

\* Every state is well typed, and the mutexes are held where the code holds
\* them: the manager's between two steps only by a goroutine that asks a client
\* whether it crashed, a client's only by the goroutine whose call it carries
\* (TypeOK).
THEOREM TypeCorrect == Spec => []TypeOK
<1>1. Init => Typed
  BY InitType
<1>2. Typed /\ [Next]_vars => Typed'
  BY NextType
<1>3. Typed => TypeOK
  BY DEF Typed
<1> QED
  BY <1>1, <1>2, <1>3, PTL DEF Spec

-----------------------------------------------------------------------------
(* Safety.  The strengthening says which instances nobody else knows of.    *)

\* An instance is known when the manager or another goroutine may reach it.
Known(n) ==
  \/ \E h \in Handlers : instances[h] = n
  \/ n \in reaping \cup leaving
  \/ \E c \in Actors : caller[c].at \in Held /\ caller[c].i = n

\* What a spawner works on is known to nobody but itself.
Private ==
  \A c \in Actors : caller[c].at \in Fresh =>
    /\ ~Known(caller[c].i)
    /\ \A d \in Actors : caller[d].at \in Fresh /\ caller[d].i = caller[c].i => d = c

\* A killed instance carries no call and takes none: it crashed or was shut, or
\* it never became known.  Reapers and stops only come to such ones.
Quiet ==
  /\ \A n \in reaping : inst[n].crashed /\ inst[n].holder = NoCaller
  /\ \A c \in Actors : caller[c].at = "kill" =>
       inst[caller[c].i].shut /\ inst[caller[c].i].holder = NoCaller
  /\ ~Exited => \A n \in Numbers : inst[n].life = "killed" =>
       /\ inst[n].holder = NoCaller
       /\ \/ inst[n].crashed \/ inst[n].shut
          \/ ~Known(n) /\ \A c \in Actors : caller[c].at \in Fresh => caller[c].i # n

\* An instance about to be registered, too, is of the version in force or was
\* missed by a stop, or the stop is still to come.
Outdated(h, n) ==
  ~gone[h] /\ inst[n].rev # rev[h] =>
    \/ n \in missed
    \/ \E c \in Actors : caller[c].at = "stop" /\ caller[c].of = h
Recent ==
  /\ \A h \in Handlers : instances[h] # 0 => Outdated(h, instances[h])
  /\ \A c \in Actors : caller[c].at \in Fresh => Outdated(caller[c].of, caller[c].i)

\* The kinds of steps, by what they do to the instances.  In the first, the
\* goroutine comes, goes or takes what is registered, and no instance changes.
Pass(c, r) ==
  /\ Steps(c, r) /\ UNCHANGED <<inst, instances, spawning, reaping, leaving, spawned>>
  /\ caller[c].at \notin Spawning \cup {"shut", "kill"}
  /\ r.at \notin Spawning \cup {"wait", "shut", "kill"}
  /\ r.at \in Held => \/ r.i # 0 /\ \E h \in Handlers : instances[h] = r.i
                      \/ caller[c].at \in Held /\ r.i = caller[c].i
  /\ missed \subseteq missed'
  /\ \A h \in Handlers : gone[h] => gone'[h]
  /\ \A h \in Handlers : rev'[h] = rev[h] \/ (r.at = "stop" /\ r.of = h)
  /\ caller[c].at = "stop" =>
       instances[caller[c].of] = 0 /\ InFlight(caller[c].of) \subseteq missed'
  /\ r.at # "exited" /\ caller[c].at # "exited"
  /\ caller[c].at \in {"idle", "next"} => c \in Callers

\* Nothing else changes than the goroutine and the named parts.
Others == UNCHANGED <<rev, gone, missed, spawned>>

Joins(c, r) ==
  /\ Steps(c, r) /\ Others /\ inst' = inst /\ leaving' = leaving
  /\ r.of = caller[c].of /\ r.of \in Handlers
  /\ instances' = [instances EXCEPT ![r.of] = 0]
  /\ \/ caller[c].at = "get" /\ reaping' = reaping /\ instances[r.of] = 0
     \/ /\ caller[c].at = "peek" /\ reaping' = reaping \cup {caller[c].i}
        /\ caller[c].i \in Numbers
        /\ inst[caller[c].i].crashed /\ inst[caller[c].i].holder = NoCaller
  /\ \/ spawning[r.of] /\ r.at = "wait" /\ UNCHANGED spawning
     \/ ~spawning[r.of] /\ r.at = "read" /\ spawning' = [spawning EXCEPT ![r.of] = TRUE]

Kept == UNCHANGED <<instances, reaping, leaving>>

Makes(c, r) ==
  /\ Steps(c, r) /\ Kept /\ UNCHANGED <<rev, gone, missed, spawning>>
  /\ spawned' = spawned + 1 /\ spawned < MaxSpawns /\ spawned + 1 \in Numbers
  /\ caller[c].at = "read" /\ r.at = "launch" /\ r.i = spawned + 1 /\ r.of = caller[c].of
  /\ inst'[spawned + 1].life = "made" /\ inst'[spawned + 1].rev = rev[r.of]
  /\ inst'[spawned + 1].holder = inst[spawned + 1].holder
  /\ \A n \in Numbers \ {spawned + 1} : inst'[n] = inst[n]

Builds(c, r) ==
  /\ Steps(c, r) /\ Kept /\ Others /\ UNCHANGED spawning
  /\ r.of = caller[c].of /\ r.i = caller[c].i
  /\ \/ /\ caller[c].at \in {"read", "launch"} /\ r.at = "failed" /\ inst' = inst
     \/ /\ caller[c].at = "init" /\ r.at = "spawned" /\ inst' = inst
     \/ /\ caller[c].at = "launch" /\ r.at = "init" /\ r.i \in Numbers
        /\ inst' = [inst EXCEPT ![r.i].life = "up"]
     \/ /\ caller[c].at = "init" /\ r.at = "failed" /\ r.i \in Numbers
        /\ inst' = [inst EXCEPT ![r.i].life = "killed"]

Ends(c, r) ==
  /\ Steps(c, r) /\ Others /\ UNCHANGED <<inst, reaping, leaving>>
  /\ caller[c].of \in Handlers /\ spawning' = [spawning EXCEPT ![caller[c].of] = FALSE]
  /\ \A d \in Actors \ {c} : caller[d].of = caller[c].of => caller'[d].at # "wait"
  /\ r.at \in {"have", "idle"}
  /\ \/ /\ caller[c].at = "spawned" /\ (r.at = "have" => r.i = caller[c].i)
        /\ instances' = [instances EXCEPT ![caller[c].of] = caller[c].i]
     \/ caller[c].at = "failed" /\ r.at = "idle" /\ UNCHANGED instances

Stops(c, r) ==
  /\ Steps(c, r) /\ UNCHANGED <<inst, spawning, reaping, leaving, spawned, rev, gone>>
  /\ caller[c].at = "stop" /\ r.at = "shut" /\ r.i = instances[caller[c].of] /\ r.i # 0
  /\ caller[c].of \in Handlers /\ instances' = [instances EXCEPT ![caller[c].of] = 0]
  /\ missed' = missed \cup InFlight(caller[c].of)

Shuts(c, r) ==
  /\ Steps(c, r) /\ Others /\ Kept /\ UNCHANGED spawning
  /\ r.i = caller[c].i /\ r.i \in Numbers /\ r.op = caller[c].op
  /\ caller[c].at = "shut" /\ r.at = "kill"
  /\ inst[r.i].holder = NoCaller /\ inst' = [inst EXCEPT ![r.i].shut = TRUE]

Kills(c, r) ==
  /\ Steps(c, r) /\ Others /\ Kept /\ UNCHANGED spawning
  /\ caller[c].i \in Numbers /\ caller[c].at = "kill"
  /\ r.at \in {"get", "remove", "next", "idle"}
  /\ caller[c].op = "exit" => r.at = "next" /\ r.op = "exit"
  /\ inst' = [inst EXCEPT ![caller[c].i].life = "killed"]

Calls(c, r) ==
  /\ Steps(c, r) /\ Others /\ Kept /\ UNCHANGED spawning
  /\ caller[c].i \in Numbers
  /\ \/ /\ caller[c].at = "have" /\ r.at = "rpc" /\ r.i = caller[c].i
        /\ ~inst[r.i].crashed /\ ~inst[r.i].shut
        /\ inst' = [inst EXCEPT ![r.i].holder = c]
     \/ /\ caller[c].at = "rpc" /\ r.at = "idle"
        /\ \/ inst' = [inst EXCEPT ![caller[c].i].holder = NoCaller]
           \/ inst' = [inst EXCEPT ![caller[c].i].holder = NoCaller,
                                   ![caller[c].i].crashed = TRUE]

Shutdown(r) ==
  /\ Steps(Main, r) /\ Others /\ UNCHANGED <<inst, spawning, reaping>>
  /\ \/ /\ caller[Main].at = "idle" /\ r.at = "next" /\ r.op = "exit"
        /\ leaving' = {instances[h] : h \in Handlers} \ {0}
        /\ instances' = [h \in Handlers |-> 0]
     \/ /\ caller[Main].at = "next" /\ r.at = "shut" /\ r.i \in leaving
        /\ r.op = caller[Main].op
        /\ leaving' = leaving \ {r.i} /\ UNCHANGED instances

World ==
  /\ Others /\ UNCHANGED <<caller, instances, spawning, leaving>>
  /\ \E n \in Numbers :
       \/ /\ inst[n].life = "up" /\ inst' = [inst EXCEPT ![n].life = "dead"]
          /\ reaping' = reaping
       \/ /\ n \in reaping /\ inst' = [inst EXCEPT ![n].life = "killed"]
          /\ reaping' = reaping \ {n}

Exits(r) ==
  /\ Steps(Main, r) /\ caller[Main].at = "next" /\ r.at = "exited" /\ Others /\ Kept
  /\ r.op = caller[Main].op
  /\ UNCHANGED spawning
  /\ inst' = [n \in Numbers |->
       IF inst[n].life = "up" THEN [inst[n] EXCEPT !.life = "killed"] ELSE inst[n]]

\* Every step is of a kind.
LEMMA RequestKind ==
  ASSUME Typed, NEW c \in Callers, NEW h \in Handlers, Request(c, h)
  PROVE  \E r \in CallRecord : Pass(c, r)
<1> DEFINE Goal == \E r \in CallRecord : Pass(c, r)
           RevOk(at) == \A k \in Handlers : rev'[k] = rev[k] \/ (at = "stop" /\ h = k)
<1>0. c \in Actors /\ caller \in [Actors -> CallRecord] /\ gone \in [Handlers -> BOOLEAN]
      /\ rev \in [Handlers -> 0..MaxRequests]
  BY Parts DEF Actors
<1>1. ASSUME NEW op \in Operations, NEW at \in {"get", "stop", "look"}, Begin(c, h, op, at),
             gone' = gone, RevOk(at)
      PROVE  Goal
  <2> DEFINE r == [at |-> at, op |-> op, of |-> h, i |-> 0]
  <2>1. r \in CallRecord /\ r.at = at /\ r.of = h
    BY DEF CallRecord, Places, Spawning
  <2>2. caller' = [caller EXCEPT ![c] = r]
    BY <1>1 DEF Begin
  <2> HIDE DEF r
  <2>3. Steps(c, r)
    BY <1>0, <2>1, <2>2 DEF Steps
  <2>4. Pass(c, r)
    BY <1>1, <2>1, <2>3 DEF Begin, Pass, Spawning, Held, RevOk
  <2> QED
    BY <2>1, <2>4
<1>2. rev' = rev \/ rev' = [rev EXCEPT ![h] = @ + 1] => RevOk("stop")
  BY <1>0 DEF RevOk
<1>3. rev' = rev => RevOk("get") /\ RevOk("look")
  BY DEF RevOk
<1> HIDE DEF Goal, RevOk
<1>4. Begin(c, h, "restart", "stop") /\ gone' = gone /\ RevOk("stop") => Goal
  BY <1>1 DEF Operations
<1>5. Begin(c, h, "clear", "stop") /\ gone' = gone /\ RevOk("stop") => Goal
  BY <1>1 DEF Operations
<1>6. Begin(c, h, "delete", "stop") /\ gone' = gone /\ RevOk("stop") => Goal
  BY <1>1 DEF Operations
<1>7. Begin(c, h, "call", "get") /\ gone' = gone /\ RevOk("get") => Goal
  BY <1>1 DEF Operations
<1>8. Begin(c, h, "boot", "get") /\ gone' = gone /\ RevOk("get") => Goal
  BY <1>1 DEF Operations
<1>9. Begin(c, h, "state", "look") /\ gone' = gone /\ RevOk("look") => Goal
  BY <1>1 DEF Operations
<1>10. Goal
  BY <1>2, <1>3, <1>4, <1>5, <1>6, <1>7, <1>8, <1>9
     DEF Request, Call, BootHandler, Edit, UpdateConfig, ClearConfig, Restart, Delete, State,
         Ask, Row
<1> QED
  BY <1>10 DEF Goal

\* A goroutine that neither spawns nor stops and leaves the instances alone.
LEMMA PassPlain ==
  ASSUME NEW c \in Actors, NEW r, Steps(c, r),
         UNCHANGED <<inst, instances, spawning, reaping, leaving, spawned, rev, missed>>,
         \A h \in Handlers : gone[h] => gone'[h],
         caller[c].at \in {"get", "peek", "wait", "remove", "look", "looking", "have"},
         \/ r.at = "idle"
         \/ r.at = "have" /\ caller[c].at = "peek" /\ r.i = caller[c].i
         \/ r.at \in {"peek", "looking"} /\ r.i # 0 /\ \E h \in Handlers : instances[h] = r.i
  PROVE  Pass(c, r)
<1>1. /\ caller[c].at \notin Spawning \cup {"shut", "kill", "stop", "exited"}
      /\ r.at \notin Spawning \cup {"wait", "shut", "kill", "exited"}
  BY DEF Spawning
<1>2. r.at \in Held => \/ r.i # 0 /\ \E h \in Handlers : instances[h] = r.i
                       \/ caller[c].at \in Held /\ r.i = caller[c].i
  BY DEF Held
<1>3. missed \subseteq missed' /\ \A h \in Handlers : rev'[h] = rev[h]
  OBVIOUS
<1>4. caller[c].at # "stop" /\ r.at # "exited" /\ caller[c].at # "exited"
  OBVIOUS
<1>5. /\ caller[c].at \notin Spawning \cup {"shut", "kill"}
      /\ r.at \notin Spawning \cup {"wait", "shut", "kill"}
  BY <1>1
<1> QED
  BY <1>2, <1>3, <1>4, <1>5 DEF Pass

LEMMA StepKind ==
  ASSUME Typed, NEW c \in Actors, Step(c) \/ GiveUp(c)
  PROVE  \E r \in CallRecord :
           \/ Pass(c, r) \/ Joins(c, r) \/ Makes(c, r) \/ Builds(c, r) \/ Ends(c, r)
           \/ Stops(c, r) \/ Shuts(c, r) \/ Kills(c, r) \/ Calls(c, r)
<1> DEFINE h == caller[c].of
           n == instances[h]
           m == caller[c].i
           Goal == \E r \in CallRecord :
                     \/ Pass(c, r) \/ Joins(c, r) \/ Makes(c, r) \/ Builds(c, r) \/ Ends(c, r)
                     \/ Stops(c, r) \/ Shuts(c, r) \/ Kills(c, r) \/ Calls(c, r)
<1>0. /\ caller \in [Actors -> CallRecord] /\ Rest /\ h \in Handlers /\ n \in 0..MaxSpawns
      /\ caller[c] \in CallRecord /\ m \in 0..MaxSpawns
      /\ instances \in [Handlers -> 0..MaxSpawns] /\ gone \in [Handlers -> BOOLEAN]
      /\ Idle \in CallRecord /\ Idle.at = "idle" /\ inst \in [Numbers -> InstRecord]
      /\ Spawning \subseteq Places
      /\ {"peek", "have", "rpc", "shut", "kill", "looking"} \subseteq Places
  BY Parts, RestKept, IdleType DEF Rest, CallRecord, Places
<1>1. caller[c].at \in Fresh \cup Held => m \in Numbers
  BY <1>0 DEF Typed, Named, Rest, Numbers
<1>2. CASE GiveUp(c)
  <2>1. Steps(c, Idle)
    BY <1>2, ReturnSteps DEF GiveUp
  <2>2. Pass(c, Idle)
    BY <1>0, <1>2, <2>1, PassPlain DEF GiveUp, Row
  <2> QED
    BY <1>0, <2>2
<1>3. CASE Get(c)
  <2>1. CASE n # 0
    <3>1. With(c, "peek", n)
      BY <1>3, <2>1 DEF Get, With
    <3>2. PICK r \in CallRecord : Steps(c, r) /\ r.at = "peek" /\ r.i = n
      BY <1>0, <3>1, WithSteps
    <3>3. Pass(c, r)
      BY <1>0, <1>3, <2>1, <3>2, PassPlain DEF Get, Row
    <3> QED
      BY <3>2, <3>3
  <2>2. CASE n = 0
    <3>1. PICK r \in CallRecord :
             /\ Steps(c, r) /\ r.of = caller[c].of /\ r.op = caller[c].op
             /\ \/ spawning[r.of] /\ r.at = "wait" /\ UNCHANGED spawning
                \/ /\ ~spawning[r.of] /\ r.at = "read"
                   /\ spawning' = [spawning EXCEPT ![r.of] = TRUE]
      BY <1>3, <2>2, JoinSteps DEF Get
    <3>2. instances' = [instances EXCEPT ![h] = 0]
      BY <1>0, <1>3, <2>2 DEF Get
    <3>3. Joins(c, r)
      BY <1>0, <1>3, <3>1, <3>2 DEF Get, Joins, Others, Row
    <3> QED
      BY <3>1, <3>3
  <2> QED
    BY <2>1, <2>2
<1>4. CASE Peek(c)
  <2>1. CASE inst[m].crashed
    <3>1. PICK r \in CallRecord :
             /\ Steps(c, r) /\ r.of = caller[c].of /\ r.op = caller[c].op
             /\ \/ spawning[r.of] /\ r.at = "wait" /\ UNCHANGED spawning
                \/ /\ ~spawning[r.of] /\ r.at = "read"
                   /\ spawning' = [spawning EXCEPT ![r.of] = TRUE]
      BY <1>4, <2>1, JoinSteps DEF Peek
    <3>2. Joins(c, r)
      BY <1>0, <1>1, <1>4, <2>1, <3>1 DEF Peek, Joins, Others, Row, Held
    <3> QED
      BY <3>1, <3>2
  <2>2. CASE ~inst[m].crashed /\ caller[c].op = "call"
    <3>1. With(c, "have", m)
      BY <1>4, <2>2 DEF Peek, Take, With
    <3>2. PICK r \in CallRecord : Steps(c, r) /\ r.at = "have" /\ r.i = m
      BY <1>0, <3>1, WithSteps
    <3>3. Pass(c, r)
      BY <1>0, <1>4, <2>2, <3>2, PassPlain DEF Peek, Row
    <3> QED
      BY <3>2, <3>3
  <2>3. CASE ~inst[m].crashed /\ caller[c].op # "call"
    <3>1. Steps(c, Idle)
      BY <1>4, <2>3, ReturnSteps DEF Peek, Take
    <3>2. Pass(c, Idle)
      BY <1>0, <1>4, <2>3, <3>1, PassPlain DEF Peek, Row
    <3> QED
      BY <1>0, <3>2
  <2> QED
    BY <2>1, <2>2, <2>3
<1>5. CASE SpawnRead(c)
  <2>1. CASE Go(c, "failed") /\ UNCHANGED <<spawned, inst>>
    <3>1. PICK r \in CallRecord :
            Steps(c, r) /\ r.at = "failed" /\ r.of = h /\ r.i = m
      BY <1>0, <2>1, GoSteps DEF Spawning
    <3>2. Builds(c, r)
      BY <1>0, <1>5, <2>1, <3>1 DEF SpawnRead, Builds, Kept, Others, Row
    <3> QED
      BY <3>1, <3>2
  <2>2. CASE ~(Go(c, "failed") /\ UNCHANGED <<spawned, inst>>)
    <3> DEFINE k == spawned + 1
               x == [inst[k] EXCEPT !.of = h, !.rev = rev[h], !.life = "made"]
    <3>1. /\ spawned < MaxSpawns /\ spawned' = k /\ inst' = [inst EXCEPT ![k] = x]
          /\ With(c, "launch", k)
      BY <1>5, <2>2 DEF SpawnRead, With
    <3>2. k \in Numbers /\ k \in 0..MaxSpawns
      BY <1>0, <3>1 DEF Numbers, Rest
    <3>3. inst[k] \in InstRecord
      BY <1>0, <3>2
    <3>4. x.life = "made" /\ x.rev = rev[h] /\ x.holder = inst[k].holder
      BY <3>3 DEF InstRecord
    <3>5. PICK r \in CallRecord : Steps(c, r) /\ r.at = "launch" /\ r.i = k /\ r.of = h
      BY <1>0, <3>1, <3>2, WithSteps DEF Spawning
    <3> HIDE DEF x
    <3>6. inst'[k] = x /\ \A j \in Numbers \ {k} : inst'[j] = inst[j]
      BY <1>0, <3>1, <3>2
    <3>7. /\ caller[c].at = "read"
          /\ UNCHANGED <<Row, instances, spawning, lock, reaping, leaving, missed>>
      BY <1>5 DEF SpawnRead
    <3>8. Makes(c, r)
      BY <3>1, <3>2, <3>4, <3>5, <3>6, <3>7 DEF Makes, Kept, Row
    <3> QED
      BY <3>5, <3>8
  <2> QED
    BY <2>1, <2>2
<1>6. CASE Launch(c)
  <2>1. PICK r \in CallRecord :
          /\ Steps(c, r) /\ r.of = h /\ r.i = m
          /\ \/ r.at = "init" /\ inst' = [inst EXCEPT ![m].life = "up"]
             \/ r.at = "failed" /\ inst' = inst
    BY <1>0, <1>6, GoSteps DEF Launch, Spawning
  <2>2. Builds(c, r)
    BY <1>1, <1>6, <2>1 DEF Launch, Builds, Kept, Others, Row, Fresh
  <2> QED
    BY <2>1, <2>2
<1>7. CASE InitInstance(c)
  <2>1. PICK r \in CallRecord :
          /\ Steps(c, r) /\ r.of = h /\ r.i = m
          /\ \/ r.at = "failed" /\ inst' = [inst EXCEPT ![m].life = "killed"]
             \/ r.at = "spawned" /\ inst' = inst
    BY <1>0, <1>7, GoSteps DEF InitInstance, Spawning
  <2>2. Builds(c, r)
    BY <1>1, <1>7, <2>1 DEF InitInstance, Builds, Kept, Others, Row, Fresh
  <2> QED
    BY <2>1, <2>2
<1>8. CASE Register(c)
  <2>1. PICK r \in CallRecord :
          /\ Settle(c, r) /\ r.at \in {"have", "idle"} /\ (r.at = "have" => r.i = m)
    <3>1. [caller[c] EXCEPT !.at = "have"] \in CallRecord
          /\ [caller[c] EXCEPT !.at = "have"].at = "have"
          /\ [caller[c] EXCEPT !.at = "have"].i = m
      BY <1>0 DEF CallRecord
    <3> QED
      BY <1>0, <1>8, <3>1 DEF Register
  <2>2. /\ Steps(c, r) /\ spawning' = [spawning EXCEPT ![h] = FALSE]
        /\ \A d \in Actors \ {c} : caller[d].of = h => caller'[d].at # "wait"
    BY <2>1, SettleSteps
  <2>3. Ends(c, r)
    BY <1>0, <1>8, <2>1, <2>2 DEF Register, Ends, Others, Row
  <2> QED
    BY <2>1, <2>3
<1>9. CASE SpawnFailed(c)
  <2>1. /\ Steps(c, Idle) /\ spawning' = [spawning EXCEPT ![h] = FALSE]
        /\ \A d \in Actors \ {c} : caller[d].of = h => caller'[d].at # "wait"
    BY <1>0, <1>9, SettleSteps DEF SpawnFailed
  <2>2. Ends(c, Idle)
    BY <1>0, <1>9, <2>1 DEF SpawnFailed, Ends, Others, Row
  <2> QED
    BY <1>0, <2>2
<1>10. CASE Stop(c)
  <2>1. CASE n # 0
    <3>1. With(c, "shut", n)
      BY <1>10, <2>1 DEF Stop, With
    <3>2. PICK r \in CallRecord : Steps(c, r) /\ r.at = "shut" /\ r.i = n
      BY <1>0, <3>1, WithSteps
    <3>3. Stops(c, r)
      BY <1>0, <1>10, <2>1, <3>2 DEF Stop, Stops, Row
    <3> QED
      BY <3>2, <3>3
  <2>2. CASE n = 0
    <3>1. PICK r \in CallRecord : Steps(c, r) /\ r.at \in {"get", "remove", "next", "idle"}
      BY <1>0, <1>10, <2>2, AfterStopSteps DEF Stop, Stopping
    <3>2. instances' = instances /\ missed' = missed \cup InFlight(h)
      BY <1>0, <1>10, <2>2 DEF Stop
    <3>3. /\ caller[c].at = "stop" /\ missed \subseteq missed' /\ InFlight(h) \subseteq missed'
          /\ UNCHANGED <<inst, instances, spawning, reaping, leaving, spawned, rev, gone>>
      BY <1>10, <3>2 DEF Stop, Row
    <3>4. /\ caller[c].at \notin Spawning \cup {"shut", "kill"}
          /\ r.at \notin Spawning \cup {"wait", "shut", "kill"}
          /\ r.at \notin Held /\ r.at # "exited" /\ caller[c].at # "exited"
      BY <3>1, <3>3 DEF Spawning, Held
    <3>5. \A k \in Handlers : rev'[k] = rev[k] /\ gone'[k] = gone[k]
      BY <3>3
    <3>6. Pass(c, r)
      BY <2>2, <3>1, <3>3, <3>4, <3>5 DEF Pass
    <3> QED
      BY <3>1, <3>6
  <2> QED
    BY <2>1, <2>2
<1>11. CASE Shut(c)
  <2>1. PICK r \in CallRecord :
          Steps(c, r) /\ r.at = "kill" /\ r.i = m /\ r.op = caller[c].op
    BY <1>0, <1>11, GoSteps DEF Shut
  <2>2. Shuts(c, r)
    BY <1>1, <1>11, <2>1 DEF Shut, Shuts, Kept, Others, Row, Held
  <2> QED
    BY <2>1, <2>2
<1>12. CASE Kill(c)
  <2>1. PICK r \in CallRecord :
          /\ Steps(c, r) /\ r.at \in {"get", "remove", "next", "idle"}
          /\ caller[c].op = "exit" => r.at = "next" /\ r.op = "exit"
    BY <1>0, <1>12, AfterStopSteps DEF Kill, Stopping
  <2>2. Kills(c, r)
    BY <1>1, <1>12, <2>1 DEF Kill, Kills, Kept, Others, Row, Held
  <2> QED
    BY <2>1, <2>2
<1>13. CASE Remove(c)
  <2>1. Steps(c, Idle)
    BY <1>13, ReturnSteps DEF Remove
  <2>2. \A k \in Handlers : gone[k] => gone'[k]
    BY <1>0, <1>13 DEF Remove
  <2>3. Pass(c, Idle)
    BY <1>0, <1>13, <2>1, <2>2, PassPlain DEF Remove
  <2> QED
    BY <1>0, <2>3
<1>14. CASE Look(c)
  <2>1. CASE n # 0
    <3>1. With(c, "looking", n)
      BY <1>14, <2>1 DEF Look, With
    <3>2. PICK r \in CallRecord : Steps(c, r) /\ r.at = "looking" /\ r.i = n
      BY <1>0, <3>1, WithSteps
    <3>3. Pass(c, r)
      BY <1>0, <1>14, <2>1, <3>2, PassPlain DEF Look, Row
    <3> QED
      BY <3>2, <3>3
  <2>2. CASE n = 0
    <3>1. Steps(c, Idle)
      BY <1>14, <2>2, ReturnSteps DEF Look
    <3>2. Pass(c, Idle)
      BY <1>0, <1>14, <3>1, PassPlain DEF Look, Row
    <3> QED
      BY <1>0, <3>2
  <2> QED
    BY <2>1, <2>2
<1>15. CASE Looked(c)
  <2>1. Steps(c, Idle)
    BY <1>15, ReturnSteps DEF Looked
  <2>2. Pass(c, Idle)
    BY <1>0, <1>15, <2>1, PassPlain DEF Looked, Row
  <2> QED
    BY <1>0, <2>2
<1>16. CASE BeginRpc(c)
  <2>1. CASE Return(c) /\ UNCHANGED inst
    <3>1. Pass(c, Idle)
      BY <1>0, <1>16, <2>1, ReturnSteps, PassPlain DEF BeginRpc, Row
    <3> QED
      BY <1>0, <3>1
  <2>2. CASE ~(Return(c) /\ UNCHANGED inst)
    <3>1. PICK r \in CallRecord : Steps(c, r) /\ r.at = "rpc" /\ r.i = m
      BY <1>0, <1>16, <2>2, GoSteps DEF BeginRpc
    <3>2. Calls(c, r)
      BY <1>1, <1>16, <2>2, <3>1 DEF BeginRpc, Calls, Kept, Others, Row, Held
    <3> QED
      BY <3>1, <3>2
  <2> QED
    BY <2>1, <2>2
<1>17. CASE EndRpc(c) \/ RpcFails(c)
  <2>1. Steps(c, Idle)
    BY <1>17, ReturnSteps DEF EndRpc, RpcFails
  <2>2. Calls(c, Idle)
    BY <1>0, <1>1, <1>17, <2>1 DEF EndRpc, RpcFails, Calls, Kept, Others, Row, Held
  <2> QED
    BY <1>0, <2>2
<1> QED
  BY <1>2, <1>3, <1>4, <1>5, <1>6, <1>7, <1>8, <1>9, <1>10, <1>11, <1>12, <1>13, <1>14, <1>15,
     <1>16, <1>17 DEF Step

LEMMA WorldKind ==
  ASSUME Typed, (\E n \in Numbers : Die(n) \/ Reap(n)) \/ StopAll \/ StopNext \/ Exit
  PROVE  World \/ \E r \in CallRecord : Shutdown(r) \/ Exits(r)
<1>0. /\ caller \in [Actors -> CallRecord] /\ Rest /\ Main \in Actors
      /\ "exited" \in Places /\ "shut" \in Places /\ caller[Main] \in CallRecord
      /\ "next" \in Places /\ "exit" \in Operations
  BY Parts, RestKept DEF Places, Spawning, Actors, Operations
<1>1. ASSUME NEW n \in Numbers, Die(n) \/ Reap(n) PROVE World
  BY <1>1 DEF Die, Reap, World, Others, Row
<1>2. ASSUME StopAll PROVE \E r \in CallRecord : Shutdown(r)
  <2> DEFINE r == [caller[Main] EXCEPT !.at = "next", !.op = "exit"]
  <2>1. r \in CallRecord /\ r.at = "next" /\ r.op = "exit"
    BY <1>0 DEF CallRecord, Operations
  <2>2. caller' = [caller EXCEPT ![Main] = r]
    BY <1>2 DEF StopAll
  <2> HIDE DEF r
  <2>3. Steps(Main, r)
    BY <1>0, <2>1, <2>2 DEF Steps
  <2>4. Shutdown(r)
    BY <1>2, <2>1, <2>3 DEF StopAll, Shutdown, Others, Row
  <2> QED
    BY <2>1, <2>4
<1>3. ASSUME StopNext PROVE \E r \in CallRecord : Shutdown(r)
  <2>1. PICK n \in leaving : leaving' = leaving \ {n} /\ With(Main, "shut", n)
    BY <1>3 DEF StopNext, With
  <2>2. n \in 0..MaxSpawns
    BY <1>0, <2>1 DEF Rest, Numbers
  <2>3. PICK r \in CallRecord :
          Steps(Main, r) /\ r.at = "shut" /\ r.i = n /\ r.op = caller[Main].op
    BY <1>0, <2>1, <2>2, WithSteps
  <2>4. Shutdown(r)
    BY <1>3, <2>1, <2>3 DEF StopNext, Shutdown, Others, Row
  <2> QED
    BY <2>3, <2>4
<1>4. ASSUME Exit PROVE \E r \in CallRecord : Exits(r)
  <2>1. PICK r \in CallRecord :
          Steps(Main, r) /\ r.at = "exited" /\ r.op = caller[Main].op
    BY <1>0, <1>4, GoSteps DEF Exit
  <2>2. Exits(r)
    BY <1>4, <2>1 DEF Exit, Exits, Kept, Others, Row
  <2> QED
    BY <2>1, <2>2
<1> QED
  BY <1>1, <1>2, <1>3, <1>4

\* A goroutine's step, of whichever kind.
Moves(c, r) ==
  \/ Pass(c, r) \/ Joins(c, r) \/ Makes(c, r) \/ Builds(c, r) \/ Ends(c, r)
  \/ Stops(c, r) \/ Shuts(c, r) \/ Kills(c, r) \/ Calls(c, r)
  \/ c = Main /\ (Shutdown(r) \/ Exits(r))

LEMMA NextKind ==
  ASSUME Typed, [Next]_vars
  PROVE  \/ UNCHANGED vars \/ World
         \/ \E c \in Actors, r \in CallRecord : Moves(c, r) /\ ~Exited
<1>1. Main \in Actors /\ Callers \subseteq Actors
  BY DEF Actors
<1>2. ASSUME NEW c \in Actors, Step(c) \/ GiveUp(c), ~Exited
      PROVE  \E r \in CallRecord : Moves(c, r) /\ ~Exited
  BY <1>2, StepKind DEF Moves
<1>3. ASSUME NEW c \in Callers, NEW h \in Handlers, Request(c, h), ~Exited
      PROVE  \E r \in CallRecord : Moves(c, r) /\ ~Exited
  BY <1>3, RequestKind DEF Moves
<1>4. ASSUME (\E n \in Numbers : Die(n) \/ Reap(n)) \/ StopAll \/ StopNext \/ Exit, ~Exited
      PROVE  World \/ \E r \in CallRecord : Moves(Main, r) /\ ~Exited
  BY <1>4, WorldKind DEF Moves
<1> QED
  BY <1>1, <1>2, <1>3, <1>4 DEF Next

\* OneSpawner, by the goroutines instead of the sets.
Alone ==
  /\ \A c \in Actors : caller[c].at \in Spawning =>
       /\ spawning[caller[c].of] /\ instances[caller[c].of] = 0
       /\ \A d \in Actors :
            caller[d].at \in Spawning /\ caller[d].of = caller[c].of => d = c
  /\ \A h \in Handlers : spawning[h] =>
       \E c \in Actors : caller[c].at \in Spawning /\ caller[c].of = h
  /\ \A c \in Actors : caller[c].at = "wait" => spawning[caller[c].of]

LEMMA AloneIsOneSpawner == ASSUME Typed PROVE OneSpawner <=> Alone
<1>1. \A c \in Actors : caller[c].of \in Handlers
  BY Parts DEF CallRecord
<1>2. OneSpawner => Alone
  BY <1>1 DEF OneSpawner, Alone
<1>3. Alone => OneSpawner
  BY <1>1 DEF OneSpawner, Alone
<1> QED
  BY <1>2, <1>3

\* A step outside the spawn leaves the spawners alone.
LEMMA AloneKept ==
  ASSUME Typed, Alone, NEW c \in Actors, NEW r \in CallRecord, Steps(c, r),
         spawning' = spawning,
         \A h \in Handlers : instances'[h] = instances[h] \/ instances'[h] = 0,
         r.at # "wait",
         r.at \in Spawning <=> caller[c].at \in Spawning,
         r.at \in Spawning => r.of = caller[c].of
  PROVE  Alone'
<1>0. \A d \in Actors : caller[d].of \in Handlers /\ caller'[c] = r
  BY Parts DEF CallRecord, Steps
<1>1. \A d \in Actors : caller'[d].at \in Spawning <=> caller[d].at \in Spawning
  BY DEF Steps, Spawning
<1>2. \A d \in Actors : caller[d].at \in Spawning => caller'[d].of = caller[d].of
  BY DEF Steps
<1>3. \A d \in Actors : caller'[d].at = "wait" =>
        caller[d].at = "wait" /\ caller'[d].of = caller[d].of
  BY DEF Steps
<1> QED
  BY <1>0, <1>1, <1>2, <1>3 DEF Alone

LEMMA MoveAlone ==
  ASSUME Typed, Alone, NEW c \in Actors, NEW r \in CallRecord, Moves(c, r)
  PROVE  Alone'
<1>0. /\ \A d \in Actors : caller[d].of \in Handlers
      /\ spawning \in [Handlers -> BOOLEAN] /\ instances \in [Handlers -> 0..MaxSpawns]
      /\ r.of \in Handlers
  BY Parts DEF CallRecord
<1>1. CASE Pass(c, r)
  BY <1>1, AloneKept DEF Pass
<1>2. CASE Joins(c, r)
  <2>1. /\ Steps(c, r) /\ r.of = caller[c].of /\ instances' = [instances EXCEPT ![r.of] = 0]
        /\ caller[c].at \in {"get", "peek"}
    BY <1>2 DEF Joins
  <2>2. \A d \in Actors \ {c} : caller'[d].at \in Spawning <=> caller[d].at \in Spawning
    BY <2>1 DEF Steps, Spawning
  <2>3. caller[c].at \notin Spawning /\ caller'[c] = r
    BY <2>1 DEF Steps, Spawning
  <2>4. \A d \in Actors : caller'[d].of = caller[d].of
    BY <2>1 DEF Steps
  <2>5. \A d \in Actors \ {c} : caller'[d].at = "wait" => caller[d].at = "wait"
    BY <2>1 DEF Steps
  <2>6. CASE spawning[r.of] /\ r.at = "wait" /\ UNCHANGED spawning
    <3>1. r.at \notin Spawning
      BY <2>6 DEF Spawning
    <3>2. \A d \in Actors : caller'[d].at \in Spawning <=> caller[d].at \in Spawning
      BY <2>2, <2>3, <3>1
    <3>3. \A h \in Handlers : instances'[h] = instances[h] \/ instances'[h] = 0
      BY <1>0, <2>1
    <3>4. \A d \in Actors : caller'[d].at = "wait" => spawning'[caller'[d].of]
      BY <2>1, <2>3, <2>4, <2>5, <2>6 DEF Alone
    <3> QED
      BY <1>0, <2>4, <2>6, <3>2, <3>3, <3>4 DEF Alone
  <2>7. CASE ~spawning[r.of] /\ r.at = "read" /\ spawning' = [spawning EXCEPT ![r.of] = TRUE]
    <3>1. r.at \in Spawning
      BY <2>7 DEF Spawning
    <3>2. \A d \in Actors \ {c} : caller'[d].at \in Spawning => caller'[d].of # r.of
      BY <1>0, <2>2, <2>4, <2>7 DEF Alone
    <3>3. \A d \in Actors : caller'[d].at \in Spawning =>
             /\ spawning'[caller'[d].of] /\ instances'[caller'[d].of] = 0
             /\ \A e \in Actors :
                  caller'[e].at \in Spawning /\ caller'[e].of = caller'[d].of => e = d
      BY <1>0, <2>1, <2>2, <2>3, <2>4, <2>7, <3>2 DEF Alone
    <3>4. \A h \in Handlers : spawning'[h] =>
             \E d \in Actors : caller'[d].at \in Spawning /\ caller'[d].of = h
      BY <1>0, <2>1, <2>2, <2>3, <2>4, <2>7, <3>1 DEF Alone
    <3>5. \A d \in Actors : caller'[d].at = "wait" => spawning'[caller'[d].of]
      BY <1>0, <2>3, <2>4, <2>5, <2>7 DEF Alone
    <3> QED
      BY <3>3, <3>4, <3>5 DEF Alone
  <2> QED
    BY <1>2, <2>6, <2>7 DEF Joins
<1>3. CASE Makes(c, r)
  BY <1>3, AloneKept DEF Makes, Kept, Spawning
<1>4. CASE Builds(c, r)
  BY <1>4, AloneKept DEF Builds, Kept, Spawning
<1>5. CASE Ends(c, r)
  <2> DEFINE h == caller[c].of
  <2>1. /\ Steps(c, r) /\ caller'[c] = r /\ spawning' = [spawning EXCEPT ![h] = FALSE]
        /\ h \in Handlers /\ caller[c].at \in Spawning
        /\ \A d \in Actors \ {c} : caller[d].of = h => caller'[d].at # "wait"
    BY <1>5 DEF Ends, Steps, Spawning
  <2>2. r.at \notin Spawning /\ r.at # "wait"
    BY <1>5 DEF Ends, Spawning
  <2>3. \A d \in Actors \ {c} :
          /\ caller'[d].at \in Spawning <=> caller[d].at \in Spawning
          /\ caller'[d].of = caller[d].of
          /\ caller'[d].at = "wait" => caller[d].at = "wait"
    BY <2>1 DEF Steps, Spawning
  <2>4. \A k \in Handlers \ {h} : instances'[k] = instances[k] /\ spawning'[k] = spawning[k]
    BY <1>0, <1>5, <2>1 DEF Ends
  <2>5. \A d \in Actors \ {c} : caller[d].at \in Spawning => caller[d].of # h
    BY <2>1 DEF Alone
  <2>6. ~spawning'[h]
    BY <1>0, <2>1
  <2>7. \A d \in Actors : caller'[d].at \in Spawning =>
          d # c /\ caller[d].at \in Spawning /\ caller'[d].of \in Handlers \ {h}
    BY <1>0, <2>1, <2>2, <2>3, <2>5
  <2>8. \A d \in Actors : caller'[d].at \in Spawning =>
          /\ spawning'[caller'[d].of] /\ instances'[caller'[d].of] = 0
          /\ \A e \in Actors :
               caller'[e].at \in Spawning /\ caller'[e].of = caller'[d].of => e = d
    BY <2>3, <2>4, <2>7 DEF Alone
  <2>9. \A k \in Handlers : spawning'[k] =>
          \E d \in Actors : caller'[d].at \in Spawning /\ caller'[d].of = k
    <3> SUFFICES ASSUME NEW k \in Handlers, spawning'[k]
                 PROVE  \E d \in Actors : caller'[d].at \in Spawning /\ caller'[d].of = k
      OBVIOUS
    <3>1. k # h /\ spawning[k]
      BY <2>4, <2>6
    <3>2. PICK d \in Actors : caller[d].at \in Spawning /\ caller[d].of = k
      BY <3>1 DEF Alone
    <3> QED
      BY <2>3, <3>1, <3>2
  <2>10. \A d \in Actors : caller'[d].at = "wait" => spawning'[caller'[d].of]
    BY <1>0, <2>1, <2>2, <2>3, <2>4 DEF Alone
  <2> QED
    BY <2>8, <2>9, <2>10 DEF Alone
<1>6. CASE Stops(c, r)
  BY <1>0, <1>6, AloneKept DEF Stops, Spawning
<1>7. CASE Shuts(c, r) \/ Kills(c, r) \/ Calls(c, r)
  <2>1. /\ Steps(c, r) /\ spawning' = spawning /\ instances' = instances
        /\ caller[c].at \in {"shut", "kill", "have", "rpc"}
        /\ r.at \in {"kill", "get", "remove", "next", "idle", "rpc"}
    BY <1>7 DEF Shuts, Kills, Calls, Kept
  <2> QED
    BY <2>1, AloneKept DEF Spawning
<1>8. CASE c = Main /\ (Shutdown(r) \/ Exits(r))
  <2>1. /\ Steps(c, r) /\ spawning' = spawning
        /\ \A h \in Handlers : instances'[h] = instances[h] \/ instances'[h] = 0
        /\ caller[c].at \in {"idle", "next"} /\ r.at \in {"next", "shut", "exited"}
    BY <1>8 DEF Shutdown, Exits, Kept
  <2> QED
    BY <2>1, AloneKept DEF Spawning
<1> QED
  BY <1>1, <1>2, <1>3, <1>4, <1>5, <1>6, <1>7, <1>8 DEF Moves

LEMMA NextAlone == ASSUME Typed, Alone, [Next]_vars PROVE Alone'
<1>1. CASE UNCHANGED vars
  BY <1>1 DEF vars, Alone
<1>2. CASE World
  BY <1>2 DEF World, Alone
<1> QED
  BY <1>1, <1>2, NextKind, MoveAlone

\* Who knows of an instance after a step knew of it before.
Spreads(c, r) ==
  /\ \A h \in Handlers : instances'[h] = instances[h] \/ instances'[h] = 0
  /\ \A n \in reaping' \cup leaving' : n # 0 /\ Known(n)
  /\ r.at \in Held => r.i # 0 /\ Known(r.i)

KnownAfter(n) ==
  \/ \E h \in Handlers : instances'[h] = n
  \/ n \in reaping' \cup leaving'
  \/ \E c \in Actors : caller'[c].at \in Held /\ caller'[c].i = n

LEMMA KnownKept ==
  ASSUME Typed, NEW c \in Actors, NEW r \in CallRecord, Steps(c, r), Spreads(c, r),
         NEW n \in Numbers, ~Known(n)
  PROVE  ~KnownAfter(n)
<1>1. \A h \in Handlers : instances'[h] # n
  BY DEF Spreads, Known, Numbers
<1>2. n \notin reaping' \cup leaving'
  BY DEF Spreads
<1>3. \A d \in Actors : caller'[d].at \in Held => caller'[d].i # n
  <2>1. caller'[c] = r
    BY DEF Steps
  <2>2. \A d \in Actors \ {c} : caller'[d].at \in Held => caller[d].at \in Held /\ caller[d].i = caller'[d].i
    BY DEF Steps, Held
  <2>3. \A d \in Actors \ {c} : caller'[d].at \in Held => caller'[d].i # n
    BY <2>2 DEF Known
  <2> QED
    BY <2>1, <2>3 DEF Spreads
<1> QED
  BY <1>1, <1>2, <1>3 DEF KnownAfter

\* Every step but a registration spreads nothing.
LEMMA MoveSpreads ==
  ASSUME Typed, NEW c \in Actors, NEW r \in CallRecord, Moves(c, r),
         ~(Ends(c, r) /\ caller[c].at = "spawned")
  PROVE  Spreads(c, r)
<1>0. /\ instances \in [Handlers -> 0..MaxSpawns]
      /\ \A n \in reaping \cup leaving : n \in Numbers
      /\ \A d \in Actors : caller[d].at \in Held => caller[d].i # 0
      /\ caller[c].of \in Handlers
  BY Parts DEF Typed, Named, CallRecord
<1>1. CASE Pass(c, r)
  <2>1. r.at \in {"get", "remove", "next", "idle", "stop", "look", "peek", "have", "looking", "rpc", "exited"}
    BY <1>1 DEF Pass, CallRecord, Places
  <2> QED
    BY <1>0, <1>1 DEF Pass, Spreads, Known, Numbers
<1>2. CASE Joins(c, r)
  BY <1>0, <1>2 DEF Joins, Spreads, Known, Held, Numbers
<1>3. CASE Makes(c, r) \/ Builds(c, r)
  <2>1. instances' = instances /\ reaping' = reaping /\ leaving' = leaving
        /\ r.at \in {"launch", "failed", "spawned", "init"}
    BY <1>3 DEF Makes, Builds, Kept
  <2> QED
    BY <1>0, <2>1 DEF Spreads, Known, Held, Numbers
<1>4. CASE Ends(c, r) /\ caller[c].at # "spawned"
  BY <1>0, <1>4 DEF Ends, Spreads, Known, Held, Numbers
<1>5. CASE Stops(c, r)
  BY <1>0, <1>5 DEF Stops, Spreads, Known, Held, Numbers
<1>6. CASE Shuts(c, r) \/ Kills(c, r) \/ Calls(c, r)
  <2>1. instances' = instances /\ reaping' = reaping /\ leaving' = leaving
    BY <1>6 DEF Shuts, Kills, Calls, Kept
  <2>2. r.at \in Held => r.i = caller[c].i /\ caller[c].at \in Held
    BY <1>6 DEF Shuts, Kills, Calls, Held
  <2> QED
    BY <1>0, <2>1, <2>2 DEF Spreads, Known, Numbers
<1>7. CASE c = Main /\ Shutdown(r)
  BY <1>0, <1>7 DEF Shutdown, Spreads, Known, Held, Numbers
<1>8. CASE c = Main /\ Exits(r)
  BY <1>0, <1>8 DEF Exits, Kept, Spreads, Known, Held, Numbers
<1> QED
  BY <1>1, <1>2, <1>3, <1>4, <1>5, <1>6, <1>7, <1>8 DEF Moves

\* The fresh instances after a step were fresh before, but for a new one.
LEMMA FreshKept ==
  ASSUME Typed, NEW c \in Actors, NEW r \in CallRecord, Moves(c, r),
         NEW d \in Actors, caller'[d].at \in Fresh, ~(Makes(c, r) /\ d = c)
  PROVE  caller[d].at \in Fresh /\ caller'[d].i = caller[d].i /\ caller'[d].of = caller[d].of
<1>0. Steps(c, r) /\ caller'[c] = r
  BY DEF Moves, Pass, Joins, Makes, Builds, Ends, Stops, Shuts, Kills, Calls, Shutdown, Exits, Steps
<1>1. CASE d # c
  BY <1>0, <1>1 DEF Steps, Fresh
<1>2. CASE d = c
  <2>1. r.at \in Fresh
    BY <1>0, <1>2
  <2>2. Builds(c, r)
    <3>1. ~Pass(c, r)
      BY <2>1 DEF Pass, Spawning, Fresh
    <3>2. ~(Joins(c, r) \/ Ends(c, r) \/ Stops(c, r) \/ Shuts(c, r) \/ Kills(c, r) \/ Calls(c, r))
      BY <2>1 DEF Joins, Ends, Stops, Shuts, Kills, Calls, Fresh
    <3>3. ~Shutdown(r) /\ ~Exits(r)
      BY <2>1 DEF Shutdown, Exits, Fresh
    <3> QED
      BY <1>2, <3>1, <3>2, <3>3 DEF Moves
  <2> QED
    BY <1>0, <1>2, <2>1, <2>2 DEF Builds, Fresh
<1> QED
  BY <1>1, <1>2

\* A step keeps a spawner's instance to itself.
LEMMA MovePrivate ==
  ASSUME Typed, Private, NEW c \in Actors, NEW r \in CallRecord, Moves(c, r)
  PROVE  Private'
<1>0. /\ Steps(c, r) /\ caller'[c] = r
      /\ \A d \in Actors : caller[d].at \in Fresh => caller[d].i \in Numbers
  <2>1. Steps(c, r)
    BY DEF Moves, Pass, Joins, Makes, Builds, Ends, Stops, Shuts, Kills, Calls, Shutdown, Exits
  <2>2. \A d \in Actors : caller[d].at \in Fresh => caller[d].i \in Numbers
    BY Parts DEF Typed, Named, Numbers
  <2> QED
    BY <2>1, <2>2 DEF Steps
<1>1. CASE Makes(c, r)
  <2>1. Spreads(c, r)
    BY <1>1, MoveSpreads DEF Makes, Ends
  <2>2. r.i = spawned + 1 /\ r.i \in Numbers /\ spawned \in Nat
    BY <1>1, Parts DEF Makes
  <2>3. ~Known(r.i)
    BY <2>2 DEF Typed, Named, Known
  <2>4. \A d \in Actors : caller[d].at \in Fresh => caller[d].i # r.i
    BY <2>2 DEF Typed, Named
  <2>5. \A d \in Actors \ {c} : caller'[d].at \in Fresh =>
          caller[d].at \in Fresh /\ caller'[d].i = caller[d].i
    BY FreshKept
  <2>6. \A d \in Actors : caller'[d].at \in Fresh => ~KnownAfter(caller'[d].i)
    BY <1>0, <2>1, <2>2, <2>3, <2>5, KnownKept DEF Private
  <2>7. \A d, e \in Actors :
          caller'[d].at \in Fresh /\ caller'[e].at \in Fresh /\ caller'[d].i = caller'[e].i => d = e
    BY <1>0, <2>4, <2>5 DEF Private
  <2> QED
    BY <2>6, <2>7 DEF Private, Known, KnownAfter
<1>2. CASE Ends(c, r) /\ caller[c].at = "spawned"
  <2>1. \A d \in Actors : caller'[d].at \in Fresh =>
          d # c /\ caller[d].at \in Fresh /\ caller'[d].i = caller[d].i
    BY <1>0, <1>2, FreshKept DEF Ends, Makes, Fresh
  <2>2. \A d \in Actors : caller'[d].at \in Fresh => caller'[d].i # caller[c].i
    BY <1>2, <2>1 DEF Private, Fresh
  <2>3. \A d \in Actors : caller'[d].at \in Fresh => ~KnownAfter(caller'[d].i)
    <3> SUFFICES ASSUME NEW d \in Actors, caller'[d].at \in Fresh PROVE ~KnownAfter(caller'[d].i)
      OBVIOUS
    <3>1. ~Known(caller[d].i) /\ caller'[d].i = caller[d].i /\ caller[d].i # caller[c].i
      BY <2>1, <2>2 DEF Private
    <3>2. \A h \in Handlers : instances'[h] # caller[d].i
      BY <1>2, <3>1, Parts DEF Ends, Known
    <3>3. \A e \in Actors : caller'[e].at \in Held => caller'[e].i # caller[d].i
      <4>1. r.at \in Held => r.i = caller[c].i
        BY <1>2 DEF Ends, Held
      <4>2. \A e \in Actors \ {c} : caller'[e].at \in Held =>
              caller[e].at \in Held /\ caller'[e].i = caller[e].i
        BY <1>0 DEF Steps, Held
      <4> QED
        BY <1>0, <3>1, <4>1, <4>2 DEF Known
    <3> QED
      BY <1>2, <3>1, <3>2, <3>3 DEF Ends, Known, KnownAfter
  <2>4. \A d, e \in Actors :
          caller'[d].at \in Fresh /\ caller'[e].at \in Fresh /\ caller'[d].i = caller'[e].i => d = e
    BY <2>1 DEF Private
  <2> QED
    BY <2>3, <2>4 DEF Private, Known, KnownAfter
<1>3. CASE ~Makes(c, r) /\ ~(Ends(c, r) /\ caller[c].at = "spawned")
  <2>1. Spreads(c, r)
    BY <1>3, MoveSpreads
  <2>2. \A d \in Actors : caller'[d].at \in Fresh =>
          caller[d].at \in Fresh /\ caller'[d].i = caller[d].i
    BY <1>3, FreshKept
  <2>3. \A d \in Actors : caller'[d].at \in Fresh => ~KnownAfter(caller'[d].i)
    BY <1>0, <2>1, <2>2, KnownKept DEF Private
  <2>4. \A d, e \in Actors :
          caller'[d].at \in Fresh /\ caller'[e].at \in Fresh /\ caller'[d].i = caller'[e].i => d = e
    BY <2>2 DEF Private
  <2> QED
    BY <2>3, <2>4 DEF Private, Known, KnownAfter
<1> QED
  BY <1>1, <1>2, <1>3

LEMMA NextPrivate == ASSUME Typed, Private, [Next]_vars PROVE Private'
<1>1. CASE UNCHANGED vars
  BY <1>1 DEF vars, Private, Known
<1>2. CASE World
  BY <1>2 DEF World, Private, Known
<1> QED
  BY <1>1, <1>2, NextKind, MovePrivate

\* What a killed instance is like when nobody ever came to know it.
Unmade(n) == ~Known(n) /\ \A c \in Actors : caller[c].at \in Fresh => caller[c].i # n

UnmadeAfter(n) ==
  ~KnownAfter(n) /\ \A c \in Actors : caller'[c].at \in Fresh => caller'[c].i # n

LEMMA UnmadeKept ==
  ASSUME Typed, NEW c \in Actors, NEW r \in CallRecord, Moves(c, r), ~Makes(c, r),
         NEW n \in Numbers, Unmade(n)
  PROVE  UnmadeAfter(n)
<1>0. Steps(c, r) /\ caller'[c] = r
  <2>1. Steps(c, r)
    BY DEF Moves, Pass, Joins, Makes, Builds, Ends, Stops, Shuts, Kills, Calls, Shutdown, Exits
  <2> QED
    BY <2>1 DEF Steps
<1>1. \A d \in Actors : caller'[d].at \in Fresh => caller'[d].i # n
  BY FreshKept DEF Unmade
<1>2. CASE Ends(c, r) /\ caller[c].at = "spawned"
  <2>1. caller[c].i # n
    BY <1>2 DEF Unmade, Fresh
  <2>2. \A h \in Handlers : instances'[h] # n
    BY <1>2, <2>1, Parts DEF Ends, Unmade, Known
  <2>3. r.at \in Held => r.i # n
    BY <1>2, <2>1 DEF Ends, Held
  <2>4. \A e \in Actors \ {c} : caller'[e].at \in Held =>
          caller[e].at \in Held /\ caller'[e].i = caller[e].i
    BY <1>0 DEF Steps, Held
  <2>5. \A e \in Actors : caller'[e].at \in Held => caller'[e].i # n
    BY <1>0, <2>3, <2>4 DEF Unmade, Known
  <2> QED
    BY <1>1, <1>2, <2>2, <2>5 DEF Ends, Unmade, UnmadeAfter, Known, KnownAfter
<1>3. CASE ~(Ends(c, r) /\ caller[c].at = "spawned")
  <2>1. Spreads(c, r)
    BY <1>3, MoveSpreads
  <2>2. ~KnownAfter(n)
    BY <1>0, <2>1, KnownKept DEF Unmade
  <2> QED
    BY <1>1, <2>2 DEF UnmadeAfter
<1> QED
  BY <1>2, <1>3

\* A step that leaves the instances and the reapers' list alone keeps them quiet.
LEMMA QuietKept ==
  ASSUME Typed, Quiet, ~Exited, NEW c \in Actors, NEW r \in CallRecord, Moves(c, r),
         ~Makes(c, r), inst' = inst, r.at # "kill",
         \A n \in reaping' : n \in reaping \/ (inst[n].crashed /\ inst[n].holder = NoCaller)
  PROVE  Quiet'
<1>0. Steps(c, r) /\ caller'[c] = r
  <2>1. Steps(c, r)
    BY DEF Moves, Pass, Joins, Makes, Builds, Ends, Stops, Shuts, Kills, Calls, Shutdown, Exits
  <2> QED
    BY <2>1 DEF Steps
<1>1. \A n \in reaping' : inst'[n].crashed /\ inst'[n].holder = NoCaller
  BY DEF Quiet
<1>2. \A d \in Actors : caller'[d].at = "kill" => caller[d].at = "kill" /\ caller'[d].i = caller[d].i
  BY <1>0 DEF Steps
<1>3. \A n \in Numbers : inst'[n].life = "killed" =>
        /\ inst'[n].holder = NoCaller
        /\ inst'[n].crashed \/ inst'[n].shut \/ UnmadeAfter(n)
  BY UnmadeKept DEF Quiet, Unmade
<1> QED
  BY <1>1, <1>2, <1>3 DEF Quiet, UnmadeAfter, Known, KnownAfter

\* One instance changes, the others and the reapers' list do not.
LEMMA QuietChanged ==
  ASSUME Typed, Quiet, ~Exited, NEW c \in Actors, NEW r \in CallRecord, Moves(c, r),
         ~Makes(c, r), reaping' = reaping, NEW n \in Numbers,
         \A m \in Numbers \ {n} : inst'[m] = inst[m],
         n \in reaping => inst'[n].crashed /\ inst'[n].holder = NoCaller,
         \A d \in Actors : caller'[d].at = "kill" =>
           /\ caller'[d].i \in Numbers
           /\ (caller[d].at = "kill" /\ caller'[d].i = caller[d].i) \/ caller'[d].i = n,
         \A d \in Actors : caller'[d].at = "kill" /\ caller'[d].i = n =>
           inst'[n].shut /\ inst'[n].holder = NoCaller,
         inst'[n].life = "killed" =>
           /\ inst'[n].holder = NoCaller
           /\ inst'[n].crashed \/ inst'[n].shut \/ UnmadeAfter(n)
  PROVE  Quiet'
<1>0. reaping \subseteq Numbers
  BY Parts
<1>1. \A m \in reaping' : inst'[m].crashed /\ inst'[m].holder = NoCaller
  BY <1>0 DEF Quiet
<1>2. \A d \in Actors : caller'[d].at = "kill" =>
        inst'[caller'[d].i].shut /\ inst'[caller'[d].i].holder = NoCaller
  BY DEF Quiet
<1>3. \A m \in Numbers : inst'[m].life = "killed" =>
        /\ inst'[m].holder = NoCaller
        /\ inst'[m].crashed \/ inst'[m].shut \/ UnmadeAfter(m)
  BY UnmadeKept DEF Quiet, Unmade
<1> QED
  BY <1>1, <1>2, <1>3 DEF Quiet, UnmadeAfter, Known, KnownAfter

\* An instance nobody knows of carries no call.
LEMMA UnknownIsFree ==
  ASSUME Typed, NEW n \in Numbers, ~Known(n)
  PROVE  inst[n].holder = NoCaller
  BY Parts DEF Typed, TypeOK, InstRecord, Known, Held

LEMMA MoveQuiet ==
  ASSUME Typed, Private, Quiet, ~Exited, NEW c \in Actors, NEW r \in CallRecord, Moves(c, r)
  PROVE  Quiet'
<1>0. /\ Steps(c, r) /\ caller'[c] = r
      /\ inst \in [Numbers -> InstRecord] /\ reaping \subseteq Numbers
      /\ \A d \in Actors : caller[d].at \in Fresh \cup Held => caller[d].i \in Numbers
  <2>1. Steps(c, r)
    BY DEF Moves, Pass, Joins, Makes, Builds, Ends, Stops, Shuts, Kills, Calls, Shutdown, Exits
  <2>2. \A d \in Actors : caller[d].at \in Fresh \cup Held => caller[d].i \in Numbers
    BY Parts DEF Typed, Named, Numbers
  <2> QED
    BY <2>1, <2>2, Parts DEF Steps
<1>1. \A d \in Actors \ {c} : caller'[d].at = "kill" =>
        caller[d].at = "kill" /\ caller'[d].i = caller[d].i /\ caller'[d].i \in Numbers
  BY <1>0 DEF Steps, Held
<1>2. CASE Pass(c, r) \/ Joins(c, r) \/ Ends(c, r) \/ Stops(c, r) \/ (c = Main /\ Shutdown(r))
  <2>1. ~Makes(c, r)
    BY <1>2 DEF Pass, Joins, Ends, Stops, Shutdown, Makes, Spawning
  <2>2. inst' = inst /\ r.at # "kill"
    BY <1>2 DEF Pass, Joins, Ends, Stops, Shutdown
  <2>3. \A n \in reaping' : n \in reaping \/ (inst[n].crashed /\ inst[n].holder = NoCaller)
    BY <1>2 DEF Pass, Joins, Ends, Stops, Shutdown
  <2> QED
    BY <2>1, <2>2, <2>3, QuietKept
<1>3. CASE Makes(c, r)
  <2> DEFINE k == spawned + 1
  <2>1. /\ k \in Numbers /\ inst'[k].life = "made" /\ r.at = "launch" /\ r.i = k
        /\ \A n \in Numbers \ {k} : inst'[n] = inst[n]
        /\ reaping' = reaping
    BY <1>3 DEF Makes, Kept
  <2>2. spawned \in Nat
    BY Parts
  <2>3. ~Known(k) /\ k \notin reaping
        /\ \A d \in Actors : caller[d].at \in Fresh \cup Held => caller[d].i # k
    BY <2>1, <2>2 DEF Typed, Named, Known
  <2>4. \A n \in reaping' : inst'[n].crashed /\ inst'[n].holder = NoCaller
    BY <1>0, <2>1, <2>3 DEF Quiet
  <2>5. \A d \in Actors : caller'[d].at = "kill" =>
          inst'[caller'[d].i].shut /\ inst'[caller'[d].i].holder = NoCaller
    BY <1>0, <1>1, <2>1, <2>3 DEF Quiet, Held
  <2>6. Spreads(c, r)
    BY <1>3, MoveSpreads DEF Makes, Ends
  <2>7. \A d \in Actors \ {c} : caller'[d].at \in Fresh =>
          caller[d].at \in Fresh /\ caller'[d].i = caller[d].i
    BY FreshKept
  <2>8. \A n \in Numbers \ {k} : Unmade(n) => UnmadeAfter(n)
    BY <1>0, <2>1, <2>6, <2>7, KnownKept DEF Unmade, UnmadeAfter
  <2>9. \A n \in Numbers : inst'[n].life = "killed" =>
          /\ inst'[n].holder = NoCaller
          /\ inst'[n].crashed \/ inst'[n].shut \/ UnmadeAfter(n)
    BY <2>1, <2>8 DEF Quiet, Unmade
  <2> QED
    BY <2>4, <2>5, <2>9 DEF Quiet, UnmadeAfter, Known, KnownAfter
<1>4. CASE Builds(c, r)
  <2>0. /\ r.at # "kill" /\ r.i = caller[c].i /\ reaping' = reaping
        /\ caller[c].at \in {"read", "launch", "init"} /\ ~Makes(c, r)
    BY <1>4 DEF Builds, Kept, Makes
  <2>1. CASE inst' = inst
    BY <2>0, <2>1, QuietKept
  <2>2. CASE inst' # inst
    <3>1. /\ r.i \in Numbers /\ caller[c].at \in Fresh
          /\ \/ inst' = [inst EXCEPT ![r.i].life = "up"]
             \/ r.at = "failed" /\ inst' = [inst EXCEPT ![r.i].life = "killed"]
      BY <1>4, <2>2 DEF Builds, Fresh
    <3>2. ~Known(r.i) /\ \A d \in Actors \ {c} : caller[d].at \in Fresh => caller[d].i # r.i
      BY <2>0, <3>1 DEF Private
    <3>3. inst[r.i].holder = NoCaller
      BY <3>1, <3>2, UnknownIsFree
    <3>4. \A n \in Numbers \ {r.i} : inst'[n] = inst[n]
      BY <1>0, <3>1
    <3>5. inst'[r.i].holder = NoCaller
      BY <1>0, <3>1, <3>3 DEF InstRecord
    <3>6. r.i \notin reaping
      BY <3>2 DEF Known
    <3>7. \A d \in Actors : caller'[d].at = "kill" => caller'[d].i # r.i
      BY <1>0, <1>1, <2>0, <3>2 DEF Known, Held
    <3>8. inst'[r.i].life = "killed" => UnmadeAfter(r.i)
      <4> SUFFICES ASSUME inst'[r.i].life = "killed" PROVE UnmadeAfter(r.i)
        OBVIOUS
      <4>1. r.at = "failed"
        BY <1>0, <3>1 DEF InstRecord
      <4>2. Spreads(c, r)
        BY <1>4, <2>0, MoveSpreads DEF Ends
      <4>3. ~KnownAfter(r.i)
        BY <1>0, <3>1, <3>2, <4>2, KnownKept
      <4>4. \A d \in Actors : caller'[d].at \in Fresh =>
              d # c /\ caller[d].at \in Fresh /\ caller'[d].i = caller[d].i
        BY <1>0, <2>0, <4>1, FreshKept DEF Fresh
      <4> QED
        BY <3>2, <4>3, <4>4 DEF UnmadeAfter
    <3>9. \A d \in Actors : caller'[d].at = "kill" =>
            caller'[d].i \in Numbers /\ caller[d].at = "kill" /\ caller'[d].i = caller[d].i
      BY <1>0, <1>1, <2>0
    <3> QED
      BY <2>0, <3>1, <3>4, <3>5, <3>6, <3>7, <3>8, <3>9, QuietChanged
  <2> QED
    BY <2>1, <2>2
<1>5. CASE Shuts(c, r)
  <2>1. /\ r.at = "kill" /\ r.i \in Numbers /\ r.i = caller[c].i /\ reaping' = reaping
        /\ inst' = [inst EXCEPT ![r.i].shut = TRUE] /\ inst[r.i].holder = NoCaller
        /\ ~Makes(c, r) /\ caller[c].at = "shut"
    BY <1>5 DEF Shuts, Kept, Makes
  <2>2. /\ \A m \in Numbers \ {r.i} : inst'[m] = inst[m]
        /\ inst'[r.i].shut /\ inst'[r.i].holder = NoCaller
        /\ inst'[r.i].crashed = inst[r.i].crashed
    BY <1>0, <2>1 DEF InstRecord
  <2>3. r.i \in reaping => inst'[r.i].crashed /\ inst'[r.i].holder = NoCaller
    BY <2>2 DEF Quiet
  <2>4. \A d \in Actors : caller'[d].at = "kill" =>
           /\ caller'[d].i \in Numbers
           /\ (caller[d].at = "kill" /\ caller'[d].i = caller[d].i) \/ caller'[d].i = r.i
    BY <1>0, <1>1, <2>1
  <2> QED
    BY <2>1, <2>2, <2>3, <2>4, QuietChanged
<1>6. CASE Kills(c, r)
  <2> DEFINE n == caller[c].i
  <2>1. /\ caller[c].at = "kill" /\ n \in Numbers /\ reaping' = reaping /\ ~Makes(c, r)
        /\ inst' = [inst EXCEPT ![n].life = "killed"] /\ r.at # "kill"
    BY <1>6 DEF Kills, Kept, Makes
  <2>2. inst[n].shut /\ inst[n].holder = NoCaller
    BY <2>1 DEF Quiet
  <2>3. /\ \A m \in Numbers \ {n} : inst'[m] = inst[m]
        /\ inst'[n].shut /\ inst'[n].holder = NoCaller
        /\ inst'[n].crashed = inst[n].crashed
    BY <1>0, <2>1, <2>2 DEF InstRecord
  <2>4. n \in reaping => inst'[n].crashed /\ inst'[n].holder = NoCaller
    BY <2>3 DEF Quiet
  <2>5. \A d \in Actors : caller'[d].at = "kill" =>
           caller'[d].i \in Numbers /\ caller[d].at = "kill" /\ caller'[d].i = caller[d].i
    BY <1>0, <1>1, <2>1
  <2> QED
    BY <2>1, <2>3, <2>4, <2>5, QuietChanged
<1>7. CASE Calls(c, r)
  <2> DEFINE n == caller[c].i
  <2>1. /\ caller[c].at \in {"have", "rpc"} /\ n \in Numbers /\ reaping' = reaping
        /\ ~Makes(c, r) /\ r.at \in {"rpc", "idle"}
    BY <1>7 DEF Calls, Kept, Makes
  <2>2. Known(n)
    BY <2>1 DEF Known, Held
  <2>3. \A d \in Actors : caller'[d].at = "kill" =>
           caller'[d].i \in Numbers /\ caller[d].at = "kill" /\ caller'[d].i = caller[d].i
    BY <1>0, <1>1, <2>1
  <2>4. CASE r.at = "rpc"
    <3>1. inst' = [inst EXCEPT ![n].holder = c] /\ ~inst[n].crashed /\ ~inst[n].shut
      BY <1>7, <2>4 DEF Calls
    <3>2. n \notin reaping /\ inst[n].life # "killed"
      BY <2>1, <2>2, <3>1 DEF Quiet
    <3>3. \A d \in Actors : caller[d].at = "kill" => caller[d].i # n
      BY <3>1 DEF Quiet
    <3>4. inst'[n].life # "killed" /\ \A m \in Numbers \ {n} : inst'[m] = inst[m]
      BY <1>0, <2>1, <3>1, <3>2 DEF InstRecord
    <3> QED
      BY <2>1, <2>3, <3>2, <3>3, <3>4, QuietChanged
  <2>5. CASE r.at = "idle"
    <3>1. \/ inst' = [inst EXCEPT ![n].holder = NoCaller]
          \/ inst' = [inst EXCEPT ![n].holder = NoCaller, ![n].crashed = TRUE]
      BY <1>7, <2>5 DEF Calls
    <3>2. /\ \A m \in Numbers \ {n} : inst'[m] = inst[m]
          /\ inst'[n].holder = NoCaller /\ inst'[n].life = inst[n].life
          /\ inst'[n].shut = inst[n].shut /\ (inst[n].crashed => inst'[n].crashed)
      <4>1. inst[n] \in InstRecord
        BY <1>0, <2>1
      <4> QED
        BY <1>0, <2>1, <3>1, <4>1 DEF InstRecord
    <3>3. n \in reaping => inst'[n].crashed /\ inst'[n].holder = NoCaller
      BY <3>2 DEF Quiet
    <3>4. \A d \in Actors : caller'[d].at = "kill" /\ caller'[d].i = n =>
            inst'[n].shut /\ inst'[n].holder = NoCaller
      BY <2>3, <3>2 DEF Quiet
    <3>5. inst'[n].life = "killed" => inst'[n].crashed \/ inst'[n].shut
      BY <2>1, <2>2, <3>2 DEF Quiet
    <3> QED
      BY <2>1, <2>3, <3>2, <3>3, <3>4, <3>5, QuietChanged
  <2> QED
    BY <2>1, <2>4, <2>5
<1>8. CASE c = Main /\ Exits(r)
  <2>1. Exited' /\ r.at # "kill" /\ reaping' = reaping
    BY <1>0, <1>8 DEF Exits, Exited, Kept
  <2>2. \A n \in Numbers :
          /\ inst'[n].crashed = inst[n].crashed /\ inst'[n].shut = inst[n].shut
          /\ inst'[n].holder = inst[n].holder
    BY <1>0, <1>8 DEF Exits, InstRecord
  <2>3. \A n \in reaping' : inst'[n].crashed /\ inst'[n].holder = NoCaller
    BY <1>0, <2>1, <2>2 DEF Quiet
  <2>4. \A d \in Actors : caller'[d].at = "kill" =>
          inst'[caller'[d].i].shut /\ inst'[caller'[d].i].holder = NoCaller
    BY <1>0, <1>1, <2>1, <2>2 DEF Quiet
  <2> QED
    BY <2>1, <2>3, <2>4 DEF Quiet
<1> QED
  BY <1>2, <1>3, <1>4, <1>5, <1>6, <1>7, <1>8 DEF Moves

LEMMA NextQuiet == ASSUME Typed, Private, Quiet, [Next]_vars PROVE Quiet'
<1>1. CASE UNCHANGED vars
  BY <1>1 DEF vars, Quiet, Known, Exited
<1>2. CASE World
  <2>0. inst \in [Numbers -> InstRecord] /\ reaping \subseteq Numbers
        /\ \A d \in Actors : caller[d].at = "kill" => caller[d].i \in Numbers
    BY Parts DEF Typed, Named, Held, Numbers
  <2>1. PICK n \in Numbers :
          \/ /\ inst[n].life = "up" /\ inst' = [inst EXCEPT ![n].life = "dead"]
             /\ reaping' = reaping
          \/ /\ n \in reaping /\ inst' = [inst EXCEPT ![n].life = "killed"]
             /\ reaping' = reaping \ {n}
    BY <1>2 DEF World
  <2>2. caller' = caller /\ instances' = instances /\ leaving' = leaving
    BY <1>2 DEF World
  <2>3. /\ \A m \in Numbers \ {n} : inst'[m] = inst[m]
        /\ inst'[n].crashed = inst[n].crashed /\ inst'[n].shut = inst[n].shut
        /\ inst'[n].holder = inst[n].holder
    BY <2>0, <2>1 DEF InstRecord
  <2>4. reaping' \subseteq reaping
    BY <2>1
  <2>5. \A m \in reaping' : inst'[m].crashed /\ inst'[m].holder = NoCaller
    BY <2>0, <2>3, <2>4 DEF Quiet
  <2>6. \A d \in Actors : caller'[d].at = "kill" =>
          inst'[caller'[d].i].shut /\ inst'[caller'[d].i].holder = NoCaller
    BY <2>0, <2>2, <2>3 DEF Quiet
  <2>7. inst'[n].life = "killed" => inst'[n].crashed /\ inst'[n].holder = NoCaller
    <3>1. CASE inst' = [inst EXCEPT ![n].life = "dead"]
      BY <2>0, <3>1 DEF InstRecord
    <3>2. CASE n \in reaping
      BY <2>3, <3>2 DEF Quiet
    <3> QED
      BY <2>1, <3>1, <3>2
  <2>8. \A m \in Numbers : Unmade(m) => UnmadeAfter(m)
    BY <2>2, <2>4 DEF Unmade, UnmadeAfter, Known, KnownAfter
  <2>9. ~Exited' => \A m \in Numbers : inst'[m].life = "killed" =>
          /\ inst'[m].holder = NoCaller
          /\ inst'[m].crashed \/ inst'[m].shut \/ UnmadeAfter(m)
    BY <2>2, <2>3, <2>7, <2>8 DEF Quiet, Unmade, Exited
  <2> QED
    BY <2>5, <2>6, <2>9 DEF Quiet, UnmadeAfter, Known, KnownAfter
<1> QED
  BY <1>1, <1>2, NextKind, MoveQuiet

-----------------------------------------------------------------------------
(* The manager's mutex, and the goroutine that shuts the program down.      *)

\* Whoever asks a client whether it crashed holds the manager's mutex meanwhile,
\* so what it read in the map is still there.
Asking == {"peek", "looking"}
Asked ==
  \A c \in Actors : caller[c].at \in Asking =>
    lock = c /\ instances[caller[c].of] = caller[c].i

\* What each step does to the mutex.
LEMMA StepLock ==
  ASSUME Typed, NEW c \in Actors, Step(c) \/ GiveUp(c)
  PROVE  /\ caller'[c].at \in Asking =>
              /\ lock = NoCaller /\ lock' = c /\ instances' = instances
              /\ caller'[c].i = instances[caller'[c].of]
         /\ caller[c].at \notin Asking /\ caller'[c].at \notin Asking =>
              lock' = lock /\ (lock = NoCaller \/ instances' = instances)
         /\ caller[c].at \in Asking => lock' = NoCaller
<1> DEFINE h == caller[c].of
           n == instances[h]
<1>0. /\ caller \in [Actors -> CallRecord] /\ n \in 0..MaxSpawns /\ caller[c].i \in 0..MaxSpawns
      /\ caller[c] \in CallRecord /\ Idle.at = "idle" /\ c # NoCaller
      /\ \A at \in {"peek", "have", "shut", "looking", "kill", "rpc", "wait", "read", "launch", "init",
                    "spawned", "failed"} : at \in Places
  BY Parts, IdleType DEF CallRecord, Places, Spawning, Actors
<1>1. CASE Get(c) \/ Look(c)
  <2>1. CASE n # 0
    <3>1. PICK at \in Asking : With(c, at, n) /\ lock = NoCaller /\ lock' = c
                                 /\ instances' = instances
      BY <1>1, <2>1 DEF Get, Look, With, Asking
    <3>2. at \in Places
      BY <1>0 DEF Asking
    <3>3. caller'[c].i = n /\ caller'[c].of = h
      BY <1>0, <3>1, <3>2, WithEffect
    <3>4. caller[c].at \notin Asking
      BY <1>1 DEF Get, Look, Asking
    <3> QED
      BY <1>0, <1>1, <2>1, <3>1, <3>2, <3>3, <3>4, WithEffect
  <2>2. CASE n = 0
    <3>1. caller'[c].at \in {"wait", "read", "idle"}
      <4>1. CASE Get(c)
        <5>1. JoinOrSpawn(c)
          BY <2>2, <4>1 DEF Get
        <5>2. PICK r \in CallRecord : Steps(c, r) /\ r.at \in {"wait", "read"}
          BY <5>1, JoinSteps
        <5> QED
          BY <5>2 DEF Steps
      <4>2. CASE Look(c)
        BY <1>0, <2>2, <4>2, ReturnEffect DEF Look
      <4> QED
        BY <1>1, <4>1, <4>2
    <3>2. lock = NoCaller /\ lock' = lock /\ caller[c].at \notin Asking
      BY <1>1, <2>2 DEF Get, Look, Asking
    <3> QED
      BY <3>1, <3>2 DEF Asking
  <2> QED
    BY <2>1, <2>2
<1>2. CASE Peek(c)
  <2>1. lock' = NoCaller /\ caller[c].at \in Asking
    BY <1>2 DEF Peek, Asking
  <2>2. caller'[c].at \notin Asking
    <3>1. CASE JoinOrSpawn(c)
      <4>1. PICK r \in CallRecord : Steps(c, r) /\ r.at \in {"wait", "read"}
        BY <3>1, JoinSteps
      <4> QED
        BY <4>1 DEF Steps, Asking
    <3>2. CASE With(c, "have", caller[c].i)
      BY <1>0, <3>2, WithEffect DEF Asking
    <3>3. CASE Return(c)
      BY <1>0, <3>3, ReturnEffect DEF Asking
    <3> QED
      BY <1>2, <3>1, <3>2, <3>3 DEF Peek, Take, With
  <2> QED
    BY <2>1, <2>2
<1>3. CASE Looked(c)
  <2>1. lock' = NoCaller /\ caller[c].at \in Asking /\ Return(c)
    BY <1>3 DEF Looked, Asking
  <2> QED
    BY <1>0, <2>1, ReturnEffect DEF Asking
<1>4. CASE Register(c) \/ SpawnFailed(c)
  <2>1. lock = NoCaller /\ lock' = lock /\ caller[c].at \notin Asking
    BY <1>4 DEF Register, SpawnFailed, Asking
  <2>2. caller'[c].at \in {"have", "idle"}
    <3>1. [caller[c] EXCEPT !.at = "have"].at = "have"
      BY <1>0 DEF CallRecord
    <3>2. caller'[c] = Idle \/ caller'[c] = [caller[c] EXCEPT !.at = "have"]
      BY <1>0, <1>4 DEF Register, SpawnFailed, Settle
    <3> QED
      BY <1>0, <3>1, <3>2
  <2> QED
    BY <2>1, <2>2 DEF Asking
<1>5. CASE Stop(c)
  <2>1. lock = NoCaller /\ lock' = lock /\ caller[c].at = "stop"
    BY <1>5 DEF Stop
  <2>2. caller'[c].at \notin Asking
    <3>1. CASE n # 0
      <4>1. With(c, "shut", n)
        BY <1>5, <3>1 DEF Stop, With
      <4> QED
        BY <1>0, <4>1, WithEffect DEF Asking
    <3>2. CASE n = 0
      <4>1. AfterStop(c)
        BY <1>5, <3>2 DEF Stop
      <4>2. PICK r \in CallRecord : Steps(c, r) /\ r.at \in {"get", "remove", "next", "idle"}
        BY <1>0, <2>1, <4>1, AfterStopSteps DEF Stopping
      <4> QED
        BY <4>2 DEF Steps, Asking
    <3> QED
      BY <3>1, <3>2
  <2> QED
    BY <2>1, <2>2 DEF Asking
<1>6. CASE Kill(c)
  <2>1. lock' = lock /\ caller[c].at = "kill" /\ instances' = instances /\ AfterStop(c)
    BY <1>6 DEF Kill
  <2>2. PICK r \in CallRecord : Steps(c, r) /\ r.at \in {"get", "remove", "next", "idle"}
    BY <1>0, <2>1, AfterStopSteps DEF Stopping
  <2> QED
    BY <2>1, <2>2 DEF Steps, Asking
<1>7. CASE SpawnRead(c)
  <2>1. lock' = lock /\ caller[c].at = "read" /\ instances' = instances
    BY <1>7 DEF SpawnRead
  <2>2. \/ Go(c, "failed")
        \/ With(c, "launch", spawned + 1) /\ spawned < MaxSpawns
    BY <1>7 DEF SpawnRead, With
  <2>3. spawned < MaxSpawns => spawned + 1 \in 0..MaxSpawns
    BY Parts
  <2> QED
    BY <1>0, <2>1, <2>2, <2>3, WithEffect, GoEffect DEF Asking
<1>8. CASE Launch(c) \/ InitInstance(c) \/ Shut(c) \/ BeginRpc(c)
  <2>1. /\ lock' = lock /\ caller[c].at \in {"launch", "init", "shut", "have"}
        /\ instances' = instances
    BY <1>8 DEF Launch, InitInstance, Shut, BeginRpc
  <2>2. \/ Return(c)
        \/ \E at \in {"init", "failed", "spawned", "kill", "rpc"} : Go(c, at)
    BY <1>8 DEF Launch, InitInstance, Shut, BeginRpc
  <2> QED
    BY <1>0, <2>1, <2>2, GoEffect, ReturnEffect DEF Asking
<1>9. CASE Remove(c) \/ EndRpc(c) \/ RpcFails(c) \/ GiveUp(c)
  <2>1. /\ lock' = lock /\ caller[c].at \in {"remove", "rpc", "wait"}
        /\ instances' = instances /\ Return(c)
    BY <1>9 DEF Remove, EndRpc, RpcFails, GiveUp
  <2> QED
    BY <1>0, <2>1, ReturnEffect DEF Asking
<1> QED
  BY <1>1, <1>2, <1>3, <1>4, <1>5, <1>6, <1>7, <1>8, <1>9 DEF Step

\* Nobody but c is disturbed at a place where it asks.
LEMMA AskedKept ==
  ASSUME Typed, Asked, NEW c \in Actors, NEW r \in CallRecord, Steps(c, r),
         r.at \in Asking =>
              /\ lock = NoCaller /\ lock' = c /\ instances' = instances
              /\ r.i = instances[r.of],
         caller[c].at \notin Asking /\ r.at \notin Asking =>
              lock' = lock /\ (lock = NoCaller \/ instances' = instances)
  PROVE  Asked'
<1>1. caller'[c] = r /\ \A d \in Actors \ {c} :
        caller'[d].at \in Asking => caller'[d] = caller[d]
  BY DEF Steps, Asking
<1>2. \A d \in Actors \ {c} : caller[d].at \in Asking => lock = d /\ lock # NoCaller
  BY DEF Asked, Actors
<1>3. ASSUME NEW d \in Actors \ {c}, caller'[d].at \in Asking
      PROVE  lock' = d /\ instances'[caller'[d].of] = caller'[d].i
  <2>1. caller'[d] = caller[d] /\ lock = d /\ lock # NoCaller /\ instances[caller[d].of] = caller[d].i
    BY <1>1, <1>2, <1>3 DEF Asked
  <2>2. caller[c].at \notin Asking /\ r.at \notin Asking
    BY <2>1 DEF Asked
  <2> QED
    BY <2>1, <2>2
<1>4. r.at \in Asking => lock' = c /\ instances'[r.of] = r.i
  OBVIOUS
<1> QED
  BY <1>1, <1>3, <1>4 DEF Asked

LEMMA NextAsked == ASSUME Typed, Asked, [Next]_vars PROVE Asked'
<1>1. CASE UNCHANGED vars
  BY <1>1 DEF vars, Asked
<1>2. ASSUME NEW c \in Actors, Step(c) \/ GiveUp(c) PROVE Asked'
  <2>1. PICK r \in CallRecord : Steps(c, r)
    BY <1>2, StepKind DEF Pass, Joins, Makes, Builds, Ends, Stops, Shuts, Kills, Calls
  <2>2. caller'[c] = r
    BY <2>1 DEF Steps
  <2> QED
    BY <1>2, <2>1, <2>2, StepLock, AskedKept
<1>3. ASSUME NEW c \in Callers, NEW h \in Handlers, Request(c, h) PROVE Asked'
  <2>1. c \in Actors /\ caller \in [Actors -> CallRecord]
    BY Parts DEF Actors
  <2>2. PICK op \in Operations, at \in {"get", "stop", "look"} : Begin(c, h, op, at)
    BY <1>3 DEF Request, Call, BootHandler, Edit, UpdateConfig, ClearConfig, Restart, Delete,
                State, Ask, Operations
  <2>3. caller'[c].at = at /\ \A d \in Actors \ {c} : caller'[d] = caller[d]
    BY <2>1, <2>2 DEF Begin
  <2> QED
    BY <2>2, <2>3 DEF Begin, Asked, Asking
<1>4. CASE StopAll
  <2>1. \A d \in Actors : caller[d].at \notin Asking
    BY <1>4 DEF StopAll, Asked, Actors
  <2>2. \A d \in Actors : caller'[d].at = caller[d].at \/ caller'[d].at = "next"
    BY <1>4, Parts DEF StopAll, CallRecord
  <2> QED
    BY <2>1, <2>2 DEF Asked, Asking
<1>5. CASE StopNext \/ Exit
  <2>1. lock' = lock /\ instances' = instances
    BY <1>5 DEF StopNext, Exit
  <2>2. \A d \in Actors : caller'[d].at \in Asking => caller'[d] = caller[d]
    BY <1>5, Parts DEF StopNext, Exit, Go, Asking, CallRecord
  <2> QED
    BY <2>1, <2>2 DEF Asked
<1>6. CASE \E n \in Numbers : Die(n) \/ Reap(n)
  BY <1>6 DEF Die, Reap, Asked
<1> QED
  BY <1>1, <1>2, <1>3, <1>4, <1>5, <1>6 DEF Next, Actors

\* The goroutine that shuts the program down does nothing else, and finds
\* nothing left to stop when it begins.
MainOnly ==
  /\ caller[Main].at \in {"idle", "next", "shut", "kill", "exited"}
  /\ caller[Main].at # "idle" => caller[Main].op = "exit"
  /\ caller[Main].at = "idle" => leaving = {}

LEMMA NextMain == ASSUME Typed, MainOnly, [Next]_vars PROVE MainOnly'
<1>1. CASE UNCHANGED vars
  BY <1>1 DEF vars, MainOnly
<1>2. CASE World
  BY <1>2 DEF World, MainOnly
<1>3. ASSUME NEW c \in Actors \ {Main}, NEW r \in CallRecord, Moves(c, r) PROVE MainOnly'
  <2>1. Steps(c, r) /\ leaving' = leaving
    BY <1>3 DEF Moves, Pass, Joins, Makes, Builds, Ends, Stops, Shuts, Kills, Calls, Kept
  <2>2. caller'[Main] = caller[Main]
    BY <2>1 DEF Steps, MainOnly, Actors
  <2> QED
    BY <2>1, <2>2 DEF MainOnly
<1>4. ASSUME NEW r \in CallRecord, Moves(Main, r), ~Exited PROVE MainOnly'
  <2>1. ~Pass(Main, r)
    BY <1>4, ActorsAssumption DEF Pass, MainOnly
  <2>2. /\ ~Joins(Main, r) /\ ~Makes(Main, r) /\ ~Builds(Main, r) /\ ~Ends(Main, r)
        /\ ~Stops(Main, r) /\ ~Calls(Main, r)
    BY DEF MainOnly, Joins, Makes, Builds, Ends, Stops, Calls
  <2>3. Steps(Main, r) => caller'[Main] = r
    BY DEF Steps
  <2>4. CASE Shuts(Main, r) \/ Kills(Main, r)
    BY <2>3, <2>4 DEF Shuts, Kills, Kept, MainOnly
  <2>5. CASE Shutdown(r)
    BY <2>3, <2>5 DEF Shutdown, MainOnly
  <2>6. CASE Exits(r)
    <3>1. r.at = "exited" /\ caller'[Main] = r
      BY <2>3, <2>6 DEF Exits
    <3> QED
      BY <3>1, <2>6 DEF Exits, Kept, MainOnly
  <2> QED
    BY <1>4, <2>1, <2>2, <2>4, <2>5, <2>6 DEF Moves
<1> QED
  BY <1>1, <1>2, <1>3, <1>4, NextKind

-----------------------------------------------------------------------------
(* No process is lost.                                                      *)

\* A goroutine that will register or kill it.
Handling == {"init", "spawned", "shut", "kill"}

\* A step takes no live process out of everybody's hands, unless it kills it.
LEMMA OrphanKept ==
  ASSUME Typed, NoOrphan, NEW c \in Actors, NEW r \in CallRecord, Steps(c, r),
         NEW n \in Numbers, inst[n].life = "up",
         caller[c].at \in Handling /\ caller[c].i = n =>
           \/ r.at \in Handling /\ r.i = n
           \/ \E h \in Handlers : instances'[h] = n,
         \A h \in Handlers : instances[h] = n =>
           \/ \E k \in Handlers : instances'[k] = n
           \/ n \in reaping' \cup leaving'
           \/ r.at \in Handling /\ r.i = n,
         n \in reaping \cup leaving =>
           \/ n \in reaping' \cup leaving'
           \/ r.at \in Handling /\ r.i = n
  PROVE  \/ \E h \in Handlers : instances'[h] = n
         \/ n \in reaping' \cup leaving'
         \/ \E d \in Actors : caller'[d].i = n /\ caller'[d].at \in Handling
<1>1. caller'[c] = r /\ \A d \in Actors \ {c} :
        caller[d].at \in Handling => caller'[d].at \in Handling /\ caller'[d].i = caller[d].i
  BY DEF Steps, Handling
<1>2. CASE \E h \in Handlers : instances[h] = n
  BY <1>1, <1>2
<1>3. CASE n \in reaping \cup leaving
  BY <1>1, <1>3
<1>4. CASE \E d \in Actors : caller[d].i = n /\ caller[d].at \in Handling
  BY <1>1, <1>4
<1> QED
  BY <1>2, <1>3, <1>4 DEF NoOrphan, Handling

LEMMA MoveOrphan ==
  ASSUME Typed, Alone, Asked, MainOnly, NoOrphan, NEW c \in Actors, NEW r \in CallRecord, Moves(c, r)
  PROVE  NoOrphan'
<1>0. /\ Steps(c, r) /\ caller'[c] = r /\ caller[c].of \in Handlers
      /\ inst \in [Numbers -> InstRecord] /\ instances \in [Handlers -> 0..MaxSpawns]
      /\ caller[c].i \in 0..MaxSpawns
  <2>1. Steps(c, r)
    BY DEF Moves, Pass, Joins, Makes, Builds, Ends, Stops, Shuts, Kills, Calls, Shutdown, Exits
  <2> QED
    BY <2>1, Parts DEF Steps, CallRecord
<1> SUFFICES ASSUME NEW n \in Numbers, inst'[n].life = "up"
             PROVE  \/ \E h \in Handlers : instances'[h] = n
                    \/ n \in reaping' \cup leaving'
                    \/ \E d \in Actors : caller'[d].i = n /\ caller'[d].at \in Handling
  BY DEF NoOrphan, Handling
<1>1. CASE Pass(c, r)
  <2>1. inst[n].life = "up" /\ caller[c].at \notin Handling
    BY <1>1 DEF Pass, Spawning, Handling
  <2>2. instances' = instances /\ reaping' = reaping /\ leaving' = leaving
    BY <1>1 DEF Pass
  <2> QED
    BY <1>0, <2>1, <2>2, OrphanKept
<1>2. CASE Joins(c, r)
  <2>1. inst[n].life = "up" /\ caller[c].at \notin Handling /\ caller[c].at \in {"get", "peek"}
    BY <1>2 DEF Joins, Handling
  <2>2. \A h \in Handlers : instances'[h] = IF h = r.of THEN 0 ELSE instances[h]
    BY <1>0, <1>2 DEF Joins
  <2>3. reaping \cup leaving \subseteq reaping' \cup leaving'
    BY <1>2 DEF Joins
  <2>4. \A h \in Handlers : instances[h] = n =>
          (\E k \in Handlers : instances'[k] = n) \/ n \in reaping' \cup leaving'
    <3>1. instances[r.of] = n => n \in reaping'
      BY <1>2 DEF Joins, Asked, Asking, Numbers
    <3> QED
      BY <2>2, <3>1
  <2> QED
    BY <1>0, <2>1, <2>3, <2>4, OrphanKept
<1>3. CASE Makes(c, r)
  <2>1. inst[n].life = "up"
    BY <1>0, <1>3 DEF Makes
  <2>2. instances' = instances /\ reaping' = reaping /\ leaving' = leaving /\ caller[c].at = "read"
    BY <1>3 DEF Makes, Kept
  <2> QED
    BY <1>0, <2>1, <2>2, OrphanKept DEF Handling
<1>4. CASE Builds(c, r)
  <2>1. instances' = instances /\ reaping' = reaping /\ leaving' = leaving /\ r.i = caller[c].i
    BY <1>4 DEF Builds, Kept
  <2>2. CASE inst[n].life = "up"
    <3>1. caller[c].at \in Handling /\ caller[c].i = n => r.at \in Handling
      BY <1>0, <1>4, <2>2 DEF Builds, Handling, InstRecord
    <3> QED
      BY <1>0, <2>1, <2>2, <3>1, OrphanKept
  <2>3. CASE inst[n].life # "up"
    <3>1. r.i = n /\ r.at = "init"
      BY <1>0, <1>4, <2>3 DEF Builds, InstRecord
    <3> QED
      BY <1>0, <3>1 DEF Handling
  <2> QED
    BY <2>2, <2>3
<1>5. CASE Ends(c, r)
  <2>1. /\ inst[n].life = "up" /\ reaping' = reaping /\ leaving' = leaving
        /\ caller[c].at \in Spawning
    BY <1>5 DEF Ends, Spawning
  <2>2. instances[caller[c].of] = 0
    BY <2>1 DEF Alone
  <2>3. \A h \in Handlers : instances[h] = n => instances'[h] = n
    BY <1>0, <1>5, <2>2 DEF Ends, Numbers
  <2>4. caller[c].at \in Handling /\ caller[c].i = n => instances'[caller[c].of] = n
    BY <1>0, <1>5 DEF Ends, Handling
  <2> QED
    BY <1>0, <2>1, <2>3, <2>4, OrphanKept
<1>6. CASE Stops(c, r)
  <2>1. /\ inst[n].life = "up" /\ reaping' = reaping /\ leaving' = leaving
        /\ caller[c].at \notin Handling /\ r.at \in Handling
    BY <1>6 DEF Stops, Handling
  <2>2. \A h \in Handlers : instances[h] = n => instances'[h] = n \/ r.i = n
    BY <1>0, <1>6 DEF Stops
  <2> QED
    BY <1>0, <2>1, <2>2, OrphanKept
<1>7. CASE Shuts(c, r)
  <2>1. /\ inst[n].life = "up" /\ reaping' = reaping /\ leaving' = leaving
        /\ instances' = instances /\ r.at \in Handling /\ r.i = caller[c].i
    BY <1>0, <1>7 DEF Shuts, Kept, Handling, InstRecord
  <2> QED
    BY <1>0, <2>1, OrphanKept
<1>8. CASE Kills(c, r)
  <2>1. /\ inst[n].life = "up" /\ n # caller[c].i
        /\ reaping' = reaping /\ leaving' = leaving /\ instances' = instances
    BY <1>0, <1>8 DEF Kills, Kept, InstRecord
  <2> QED
    BY <1>0, <2>1, OrphanKept
<1>9. CASE Calls(c, r)
  <2>1. /\ reaping' = reaping /\ leaving' = leaving /\ instances' = instances
        /\ caller[c].at \notin Handling /\ caller[c].i \in Numbers
    BY <1>9 DEF Calls, Kept, Handling
  <2>2. inst[n].life = "up"
    <3>1. inst[caller[c].i] \in InstRecord
      BY <1>0, <2>1
    <3> QED
      BY <1>0, <1>9, <2>1, <3>1 DEF Calls, InstRecord
  <2> QED
    BY <1>0, <2>1, <2>2, OrphanKept
<1>10. CASE c = Main /\ Shutdown(r)
  <2>1. inst[n].life = "up" /\ reaping' = reaping /\ caller[c].at \notin Handling
    BY <1>10 DEF Shutdown, Handling
  <2>2. n # 0
    BY DEF Numbers
  <2>3. \A h \in Handlers : instances[h] = n =>
          (\E k \in Handlers : instances'[k] = n) \/ n \in reaping' \cup leaving'
    BY <1>10, <2>2 DEF Shutdown
  <2>4. n \in reaping \cup leaving =>
          n \in reaping' \cup leaving' \/ (r.at \in Handling /\ r.i = n)
    BY <1>10, <2>1 DEF Shutdown, MainOnly, Handling
  <2> QED
    BY <1>0, <1>10, <2>1, <2>2, <2>3, <2>4, OrphanKept
<1>11. CASE c = Main /\ Exits(r)
  BY <1>0, <1>11 DEF Exits, InstRecord
<1> QED
  BY <1>1, <1>2, <1>3, <1>4, <1>5, <1>6, <1>7, <1>8, <1>9, <1>10, <1>11 DEF Moves

LEMMA NextOrphan ==
  ASSUME Typed, Alone, Asked, MainOnly, NoOrphan, [Next]_vars
  PROVE  NoOrphan'
<1>1. CASE UNCHANGED vars
  BY <1>1 DEF vars, NoOrphan
<1>2. CASE World
  <2>1. inst \in [Numbers -> InstRecord]
    BY Parts
  <2>2. caller' = caller /\ instances' = instances /\ leaving' = leaving
    BY <1>2 DEF World
  <2>3. \A m \in Numbers : inst'[m].life = "up" =>
          inst[m].life = "up" /\ (m \in reaping => m \in reaping')
    BY <1>2, <2>1 DEF World, InstRecord
  <2> QED
    BY <2>2, <2>3 DEF NoOrphan
<1> QED
  BY <1>1, <1>2, NextKind, MoveOrphan

-----------------------------------------------------------------------------
(* A change of the code or the configuration takes hold.                    *)

\* A step that registers only what was registered or what its goroutine has
\* spawned, and that changes a version only by putting the goroutine where it
\* stops the handler.
LEMMA RecentKept ==
  ASSUME Typed, Recent, NEW c \in Actors, NEW r \in CallRecord, Steps(c, r),
         \A h \in Handlers : instances'[h] # 0 =>
           \/ instances'[h] = instances[h]
           \/ caller[c].at \in Fresh /\ caller[c].of = h /\ instances'[h] = caller[c].i,
         r.at \in Fresh =>
           caller[c].at \in Fresh /\ r.of = caller[c].of /\ r.i = caller[c].i,
         \A n \in Numbers : inst'[n].rev = inst[n].rev,
         missed \subseteq missed',
         \A h \in Handlers : gone[h] => gone'[h],
         \A h \in Handlers : rev'[h] = rev[h] \/ (r.at = "stop" /\ r.of = h),
         caller[c].at = "stop" =>
           instances'[caller[c].of] = 0 /\ InFlight(caller[c].of) \subseteq missed'
  PROVE  Recent'
<1> DEFINE OutdatedAfter(h, n) ==
      ~gone'[h] /\ inst'[n].rev # rev'[h] =>
        \/ n \in missed'
        \/ \E d \in Actors : caller'[d].at = "stop" /\ caller'[d].of = h
<1>0. /\ instances \in [Handlers -> 0..MaxSpawns] /\ caller \in [Actors -> CallRecord]
      /\ spawned \in 0..MaxSpawns
      /\ \A d \in Actors : caller[d].of \in Handlers
      /\ \A d \in Actors : caller[d].at \in Fresh => caller[d].i \in Numbers
      /\ \A h \in Handlers : instances[h] # 0 => instances[h] \in Numbers
  BY Parts DEF Typed, Named, Numbers, CallRecord
<1>1. /\ caller'[c] = r
      /\ \A d \in Actors \ {c} : caller[d].at = "stop" => caller'[d] = caller[d]
      /\ \A d \in Actors \ {c} : caller'[d].at \in Fresh => caller'[d] = caller[d]
  BY DEF Steps, Fresh
<1>2. ASSUME NEW h \in Handlers, NEW n \in Numbers, Outdated(h, n),
             ~(caller[c].at = "stop" /\ caller[c].of = h)
      PROVE  OutdatedAfter(h, n)
  BY <1>1, <1>2 DEF Outdated
<1>3. ASSUME NEW h \in Handlers, instances'[h] # 0 PROVE OutdatedAfter(h, instances'[h])
  <2>1. ~(caller[c].at = "stop" /\ caller[c].of = h)
    BY <1>3
  <2>2. instances'[h] \in Numbers /\ Outdated(h, instances'[h])
    BY <1>0, <1>3 DEF Recent
  <2> QED
    BY <1>2, <2>1, <2>2
<1>4. ASSUME NEW d \in Actors, caller'[d].at \in Fresh
      PROVE  OutdatedAfter(caller'[d].of, caller'[d].i)
  <2>1. caller[d].at \in Fresh /\ caller'[d].of = caller[d].of /\ caller'[d].i = caller[d].i
    BY <1>1, <1>4
  <2>2. Outdated(caller[d].of, caller[d].i)
    BY <2>1 DEF Recent
  <2>3. CASE caller[c].at = "stop" /\ caller[c].of = caller[d].of
    BY <2>1, <2>3 DEF InFlight, Fresh
  <2>4. CASE ~(caller[c].at = "stop" /\ caller[c].of = caller[d].of)
    BY <1>0, <1>2, <2>1, <2>2, <2>4
  <2> QED
    BY <2>3, <2>4
<1> QED
  BY <1>3, <1>4 DEF Recent, Outdated

LEMMA MoveRecent ==
  ASSUME Typed, Recent, NEW c \in Actors, NEW r \in CallRecord, Moves(c, r)
  PROVE  Recent'
<1>0. /\ Steps(c, r) /\ inst \in [Numbers -> InstRecord]
      /\ instances \in [Handlers -> 0..MaxSpawns] /\ caller[c].of \in Handlers
  <2>1. Steps(c, r)
    BY DEF Moves, Pass, Joins, Makes, Builds, Ends, Stops, Shuts, Kills, Calls, Shutdown, Exits
  <2> QED
    BY <2>1, Parts DEF CallRecord
<1>1. CASE Pass(c, r)
  <2>1. /\ instances' = instances /\ inst' = inst /\ r.at \notin Fresh
    BY <1>1 DEF Pass, Spawning, Fresh
  <2> QED
    BY <1>0, <1>1, <2>1, RecentKept DEF Pass
<1>2. CASE Joins(c, r)
  <2>1. /\ inst' = inst /\ Others /\ r.at \notin Fresh /\ caller[c].at # "stop"
    BY <1>2 DEF Joins, Fresh
  <2>2. \A h \in Handlers : instances'[h] # 0 => instances'[h] = instances[h]
    BY <1>0, <1>2 DEF Joins
  <2> QED
    BY <1>0, <2>1, <2>2, RecentKept DEF Others
<1>3. CASE Makes(c, r)
  <2> DEFINE n == spawned + 1
  <2>1. /\ rev' = rev /\ gone' = gone /\ missed' = missed /\ instances' = instances
        /\ n \in Numbers /\ inst'[n].rev = rev[r.of] /\ r.i = n /\ caller[c].at = "read"
        /\ \A m \in Numbers \ {n} : inst'[m] = inst[m]
        /\ caller'[c] = r
    BY <1>3 DEF Makes, Kept, Steps
  <2>2. /\ \A h \in Handlers : instances[h] # 0 => instances[h] \in Numbers \ {n}
        /\ \A d \in Actors : caller[d].at \in Fresh => caller[d].i \in Numbers \ {n}
    BY Parts DEF Typed, Named, Numbers
  <2> HIDE DEF n
  <2>3. /\ \A d \in Actors \ {c} : caller[d].at = "stop" => caller'[d] = caller[d]
        /\ \A d \in Actors \ {c} : caller'[d].at \in Fresh => caller'[d] = caller[d]
    BY <1>0 DEF Steps, Fresh
  <2>4. \A h \in Handlers : (\E d \in Actors : caller[d].at = "stop" /\ caller[d].of = h) =>
          \E d \in Actors : caller'[d].at = "stop" /\ caller'[d].of = h
    BY <2>1, <2>3
  <2>5. ASSUME NEW h \in Handlers, instances'[h] # 0
        PROVE  Outdated(h, instances[h])' 
    BY <2>1, <2>2, <2>4, <2>5 DEF Recent, Outdated
  <2>6. ASSUME NEW d \in Actors \ {c}, caller'[d].at \in Fresh
        PROVE  Outdated(caller[d].of, caller[d].i)'
    BY <2>1, <2>2, <2>3, <2>4, <2>6 DEF Recent, Outdated
  <2>7. Outdated(caller[c].of, caller[c].i)'
    BY <2>1 DEF Outdated
  <2> QED
    BY <2>5, <2>6, <2>7 DEF Recent
<1>4. CASE Builds(c, r)
  <2>1. /\ Others /\ instances' = instances /\ caller[c].at # "stop"
        /\ r.of = caller[c].of /\ r.i = caller[c].i
        /\ r.at \in Fresh => caller[c].at \in Fresh
    BY <1>4 DEF Builds, Kept, Fresh
  <2>2. \A n \in Numbers : inst'[n].rev = inst[n].rev
    BY <1>0, <1>4 DEF Builds, InstRecord
  <2> QED
    BY <1>0, <2>1, <2>2, RecentKept DEF Others
<1>5. CASE Ends(c, r)
  <2>1. /\ Others /\ inst' = inst /\ caller[c].at # "stop" /\ r.at \notin Fresh
    BY <1>5 DEF Ends, Fresh
  <2>2. \A h \in Handlers : instances'[h] # 0 =>
           \/ instances'[h] = instances[h]
           \/ caller[c].at \in Fresh /\ caller[c].of = h /\ instances'[h] = caller[c].i
    BY <1>0, <1>5 DEF Ends, Fresh
  <2> QED
    BY <1>0, <2>1, <2>2, RecentKept DEF Others
<1>6. CASE Stops(c, r)
  <2>1. /\ inst' = inst /\ rev' = rev /\ gone' = gone /\ r.at \notin Fresh
        /\ missed' = missed \cup InFlight(caller[c].of)
    BY <1>6 DEF Stops, Fresh
  <2>2. /\ \A h \in Handlers : instances'[h] # 0 => instances'[h] = instances[h]
        /\ instances'[caller[c].of] = 0
    BY <1>0, <1>6 DEF Stops
  <2> QED
    BY <1>0, <2>1, <2>2, RecentKept
<1>7. CASE Shuts(c, r) \/ Kills(c, r) \/ Calls(c, r)
  <2>1. /\ Others /\ instances' = instances /\ caller[c].at # "stop" /\ r.at \notin Fresh
    BY <1>7 DEF Shuts, Kills, Calls, Kept, Fresh
  <2>2. \A n \in Numbers : inst'[n].rev = inst[n].rev
    BY <1>0, <1>7 DEF Shuts, Kills, Calls, InstRecord
  <2> QED
    BY <1>0, <2>1, <2>2, RecentKept DEF Others
<1>8. CASE c = Main /\ Shutdown(r)
  <2>1. /\ Others /\ inst' = inst /\ caller[c].at # "stop" /\ r.at \notin Fresh
    BY <1>8 DEF Shutdown, Fresh
  <2>2. \A h \in Handlers : instances'[h] # 0 => instances'[h] = instances[h]
    BY <1>0, <1>8 DEF Shutdown
  <2> QED
    BY <1>0, <2>1, <2>2, RecentKept DEF Others
<1>9. CASE c = Main /\ Exits(r)
  <2>1. /\ Others /\ instances' = instances /\ caller[c].at # "stop" /\ r.at \notin Fresh
    BY <1>9 DEF Exits, Kept, Fresh
  <2>2. \A n \in Numbers : inst'[n].rev = inst[n].rev
    BY <1>0, <1>9 DEF Exits, InstRecord
  <2> QED
    BY <1>0, <2>1, <2>2, RecentKept DEF Others
<1> QED
  BY <1>1, <1>2, <1>3, <1>4, <1>5, <1>6, <1>7, <1>8, <1>9 DEF Moves

LEMMA NextRecent == ASSUME Typed, Recent, [Next]_vars PROVE Recent'
<1>1. CASE UNCHANGED vars
  BY <1>1 DEF vars, Recent, Outdated
<1>2. CASE World
  <2>1. inst \in [Numbers -> InstRecord] /\ instances \in [Handlers -> 0..MaxSpawns]
        /\ \A d \in Actors : caller[d].at \in Fresh => caller[d].i \in Numbers
    BY Parts DEF Typed, Named, Numbers
  <2>2. /\ caller' = caller /\ instances' = instances /\ rev' = rev
        /\ gone' = gone /\ missed' = missed
    BY <1>2 DEF World, Others
  <2>3. \A n \in Numbers : inst'[n].rev = inst[n].rev
    BY <1>2, <2>1 DEF World, InstRecord
  <2>4. \A h \in Handlers : instances[h] # 0 => instances[h] \in Numbers
    BY <2>1 DEF Numbers
  <2> QED
    BY <2>1, <2>2, <2>3, <2>4 DEF Recent, Outdated
<1> QED
  BY <1>1, <1>2, NextKind, MoveRecent

-----------------------------------------------------------------------------
(* The theorems.                                                            *)

IInv ==
  /\ Typed /\ Alone /\ Private /\ Quiet
  /\ Asked /\ MainOnly /\ NoOrphan /\ Recent

LEMMA InitIInv == Init => IInv
<1> SUFFICES ASSUME Init PROVE IInv
  OBVIOUS
<1>1. Typed
  BY InitType
<1>2. \A c \in Actors : caller[c].at = "idle"
  BY IdleType DEF Init
<1>3. /\ \A n \in Numbers : inst[n].life = "none"
      /\ reaping = {} /\ leaving = {} /\ \A h \in Handlers : ~spawning[h] /\ instances[h] = 0
  BY DEF Init
<1>4. Alone /\ Private /\ Quiet /\ Asked /\ NoOrphan /\ Recent
  BY <1>2, <1>3 DEF Alone, Private, Quiet, Asked, Asking, NoOrphan, Recent, Fresh, Spawning
<1>5. MainOnly
  BY <1>2, <1>3 DEF MainOnly, Actors
<1> QED
  BY <1>1, <1>4, <1>5 DEF IInv

LEMMA Inductive == Spec => []IInv
<1>1. IInv /\ [Next]_vars => IInv'
  BY NextType, NextAlone, NextPrivate, NextQuiet, NextAsked, NextMain, NextOrphan, NextRecent
     DEF IInv
<1> QED
  BY InitIInv, <1>1, PTL DEF Spec

\* A handler has at most one spawner, its channel is open exactly as long as it
\* works, nothing is registered meanwhile, and whoever waits for a spawn waits
\* for one in flight (manager.go Get).
THEOREM SingleFlight == Spec => []OneSpawner
<1>1. IInv => OneSpawner
  BY AloneIsOneSpawner DEF IInv
<1> QED
  BY Inductive, <1>1, PTL

\* Every live process is registered or in the hands of a goroutine that will
\* register or kill it, whatever crashes, stops and failed spawns came before
\* (manager.go Get, Stop, StopAll).
THEOREM NoProcessLost == Spec => []NoOrphan
<1>1. IInv => NoOrphan
  BY DEF IInv
<1> QED
  BY Inductive, <1>1, PTL

\* The manager kills no process in the middle of a call: a stop waits for the
\* client's mutex and refuses the next call, a reaper only finds crashed clients
\* (manager.go Stop, client.go Call and Shutdown).
THEOREM KilledIdle == Spec => []NeverKilledInCall
<1>1. IInv => NeverKilledInCall
  BY DEF IInv, Quiet, NeverKilledInCall
<1> QED
  BY Inductive, <1>1, PTL

\* A registered instance is of the version and configuration in force, unless
\* the operation that changed them has yet to stop it or its spawn was in flight
\* when it did (manager.go Restart, version.go, config.go).
THEOREM ChangesTakeHold == Spec => []RestartsTakeHold
<1>1. IInv => RestartsTakeHold
  BY DEF IInv, Recent, Outdated, RestartsTakeHold
<1> QED
  BY Inductive, <1>1, PTL
=============================================================================
