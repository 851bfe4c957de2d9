--------------------------------- MODULE Chat_proofs ---------------------------------
(***************************************************************************)
(* Proofs about a conversation.  ChatQueue, for any number of turns,       *)
(* requests and queues: one turn at a time, no turn lost, none run after   *)
(* its end, no tool run that nobody allowed.  ChatMemory, for threads of   *)
(* any length and any zones: nothing said is forgotten.  The two modules   *)
(* share no variable.                                                      *)
(***************************************************************************)
EXTENDS ChatQueue, ChatMemory, FiniteSetTheorems, SequenceTheorems, WellFoundedInduction, TLAPS

Maybe == Turns \cup {NoTurn}
QueueRecord == [ch : Maybe, running : BOOLEAN, dead : BOOLEAN, cancel : Maybe]
Steps == {"unmade", "idle", "expired", "got", "begin", "load", "generate", "asking", "resume",
          "final", "tail", "ended", "exited"}
RunnerRecord == [at : Steps, turn : Maybe]
SendStates == {"new", "open", "offer", "refused", "done"}
SendRecord == [at : SendStates, q : 0..MaxQueues]
CallStates == {"idle", "cancel", "drain", "finalize", "drained", "delete"}
CallRecord == [at : CallStates, op : {"cancel", "delete"}, q : 0..MaxQueues, turn : Maybe]

\* The steps before a turn's row is final, and those after.
Before == {"got", "begin", "load", "generate", "asking", "resume"}
After == {"final", "tail", "ended"}

\* A goroutine with a turn in hand, or a queue in hand, names it.
Named ==
    /\ \A q \in Queues : runner[q].at \in Before \cup After => runner[q].turn \in Turns
    /\ \A m \in Turns : send[m].at = "offer" => send[m].q \in Queues
    /\ \A p \in Callers :
          /\ call[p].at \in {"cancel", "drain", "finalize"} => call[p].q \in Queues
          /\ call[p].at = "finalize" => call[p].turn \in Turns

Typed == TypeOK /\ Named

\* The parts of the type invariant, by name.
LEMMA Parts ==
    ASSUME Typed
    PROVE  /\ row \in [Turns -> Rows] /\ deleted \in BOOLEAN
           /\ current \in 0..MaxQueues /\ made \in 0..MaxQueues
           /\ queue \in [Queues -> QueueRecord] /\ runner \in [Queues -> RunnerRecord]
           /\ cancelled \in SUBSET Turns /\ pending \in SUBSET Turns
           /\ answer \in [Turns -> Answers] /\ allowed \in BOOLEAN /\ skilled \in SUBSET Queues
           /\ send \in [Turns -> SendRecord] /\ call \in [Callers -> CallRecord]
           /\ stop \in {"up", "closed", "cancelled"}
           /\ ran \in SUBSET Turns /\ vouched \in BOOLEAN
           /\ calls \in Nat /\ crashes \in Nat
           /\ MaxQueues \in Nat \ {0} /\ NoTurn \notin Turns /\ Queues = 1..MaxQueues
  BY NoTurnAssumption, BoundAssumption
     DEF Typed, TypeOK, Maybe, QueueRecord, Steps, RunnerRecord, SendStates, SendRecord,
         CallStates, CallRecord, Queues

LEMMA Assemble ==
    ASSUME row' \in [Turns -> Rows], deleted' \in BOOLEAN,
           current' \in 0..MaxQueues, made' \in 0..MaxQueues,
           queue' \in [Queues -> QueueRecord], runner' \in [Queues -> RunnerRecord],
           cancelled' \in SUBSET Turns, pending' \in SUBSET Turns,
           answer' \in [Turns -> Answers], allowed' \in BOOLEAN, skilled' \in SUBSET Queues,
           send' \in [Turns -> SendRecord], call' \in [Callers -> CallRecord],
           stop' \in {"up", "closed", "cancelled"},
           ran' \in SUBSET Turns, vouched' \in BOOLEAN,
           calls' \in Nat, crashes' \in Nat, Named'
    PROVE  Typed'
  BY DEF Typed, TypeOK, Maybe, QueueRecord, Steps, RunnerRecord, SendStates, SendRecord,
         CallStates, CallRecord

\* The records the actions store.
LEMMA Records ==
    /\ NewQueue \in QueueRecord
    /\ Unmade \in RunnerRecord /\ Idle \in RunnerRecord /\ Exited \in RunnerRecord
    /\ Unmade.at = "unmade" /\ Idle.at = "idle" /\ Exited.at = "exited"
    /\ NewQueue.ch = NoTurn /\ NewQueue.dead = FALSE
    /\ IdleCall \in CallRecord /\ IdleCall.at = "idle"
    /\ \A a \in SendStates : Left(a) \in SendRecord /\ Left(a).at = a
  BY BoundAssumption DEF NewQueue, Unmade, Idle, Exited, IdleCall, Left, QueueRecord, RunnerRecord,
     Steps, Maybe, CallRecord, CallStates, SendRecord, SendStates, NoQueue

\* One queue's goroutine steps to a record: the other goroutines are where they were.
LEMMA RunnerSteps ==
    ASSUME Typed, NEW q \in Queues, NEW c \in RunnerRecord, runner' = [runner EXCEPT ![q] = c],
           c.at \in Before \cup After => c.turn \in Turns
    PROVE  /\ runner' \in [Queues -> RunnerRecord]
           /\ \A r \in Queues : runner'[r] = IF r = q THEN c ELSE runner[r]
           /\ \A r \in Queues : runner'[r].at \in Before \cup After => runner'[r].turn \in Turns
<1>1. runner \in [Queues -> RunnerRecord]
  BY Parts
<1>2. \A r \in Queues : runner'[r] = IF r = q THEN c ELSE runner[r]
  BY <1>1
<1> QED
  BY <1>1, <1>2 DEF Typed, Named

LEMMA RunnerMoves ==
    ASSUME Typed, NEW q \in Queues, NEW a \in Steps, Move(q, a),
           runner[q].at \in Before \cup After \/ a \notin Before \cup After
    PROVE  /\ runner' \in [Queues -> RunnerRecord]
           /\ runner'[q].at = a /\ runner'[q].turn = runner[q].turn
           /\ \A r \in Queues : r # q => runner'[r] = runner[r]
           /\ \A r \in Queues : runner'[r].at \in Before \cup After => runner'[r].turn \in Turns
<1> DEFINE c == [runner[q] EXCEPT !.at = a]
<1>1. runner \in [Queues -> RunnerRecord] /\ runner[q] \in RunnerRecord
  BY Parts
<1>2. c \in RunnerRecord /\ c.at = a /\ c.turn = runner[q].turn
  BY <1>1 DEF RunnerRecord
<1>3. runner' = [runner EXCEPT ![q] = c]
  BY <1>1, <1>2 DEF Move
<1>4. c.at \in Before \cup After => c.turn \in Turns
  BY <1>2 DEF Typed, Named
<1> HIDE DEF c
<1> QED
  BY <1>2, <1>3, <1>4, RunnerSteps

\* One queue's record changes: the others stay.
LEMMA QueueSteps ==
    ASSUME Typed, NEW q \in Queues, NEW c \in QueueRecord, queue' = [queue EXCEPT ![q] = c]
    PROVE  /\ queue' \in [Queues -> QueueRecord]
           /\ \A r \in Queues : queue'[r] = IF r = q THEN c ELSE queue[r]
  BY Parts

LEMMA QueueField ==
    ASSUME Typed, NEW q \in Queues
    PROVE  /\ queue[q] \in QueueRecord
           /\ \A m \in Maybe : /\ [queue EXCEPT ![q].ch = m] = [queue EXCEPT ![q] = [queue[q] EXCEPT !.ch = m]]
                               /\ [queue[q] EXCEPT !.ch = m] \in QueueRecord
                               /\ [queue[q] EXCEPT !.ch = m].ch = m
                               /\ [queue[q] EXCEPT !.ch = m].dead = queue[q].dead
           /\ \A m \in Maybe : /\ [queue EXCEPT ![q].cancel = m] = [queue EXCEPT ![q] = [queue[q] EXCEPT !.cancel = m]]
                               /\ [queue[q] EXCEPT !.cancel = m] \in QueueRecord
                               /\ [queue[q] EXCEPT !.cancel = m].ch = queue[q].ch
                               /\ [queue[q] EXCEPT !.cancel = m].dead = queue[q].dead
           /\ \A v \in BOOLEAN : /\ [queue EXCEPT ![q].running = v] = [queue EXCEPT ![q] = [queue[q] EXCEPT !.running = v]]
                                 /\ [queue[q] EXCEPT !.running = v] \in QueueRecord
                                 /\ [queue[q] EXCEPT !.running = v].ch = queue[q].ch
                                 /\ [queue[q] EXCEPT !.running = v].dead = queue[q].dead
           /\ /\ [queue EXCEPT ![q].dead = TRUE] = [queue EXCEPT ![q] = [queue[q] EXCEPT !.dead = TRUE]]
              /\ [queue[q] EXCEPT !.dead = TRUE] \in QueueRecord
              /\ [queue[q] EXCEPT !.dead = TRUE].ch = queue[q].ch
              /\ [queue[q] EXCEPT !.dead = TRUE].dead = TRUE
<1>1. queue \in [Queues -> QueueRecord] /\ queue[q] \in QueueRecord
  BY Parts
<1> QED
  BY <1>1 DEF QueueRecord

LEMMA QueueEffects ==
    ASSUME Typed, NEW q \in Queues,
           \/ \E m \in Maybe : queue' = [queue EXCEPT ![q].ch = m]
           \/ \E m \in Maybe : queue' = [queue EXCEPT ![q].cancel = m]
           \/ \E v \in BOOLEAN : SetRunning(q, v)
           \/ queue' = [queue EXCEPT ![q].dead = TRUE]
           \/ queue' = [queue EXCEPT ![q].running = FALSE, ![q].cancel = NoTurn]
    PROVE  /\ queue' \in [Queues -> QueueRecord]
           /\ \A r \in Queues : r # q => queue'[r] = queue[r]
<1>1. queue \in [Queues -> QueueRecord] /\ queue[q] \in QueueRecord
  BY Parts
<1>2. ASSUME NEW c \in QueueRecord, queue' = [queue EXCEPT ![q] = c]
      PROVE  /\ queue' \in [Queues -> QueueRecord]
             /\ \A r \in Queues : r # q => queue'[r] = queue[r]
  BY <1>2, QueueSteps
<1>3. CASE \E m \in Maybe : queue' = [queue EXCEPT ![q].ch = m]
  BY <1>2, <1>3, QueueField
<1>4. CASE \E m \in Maybe : queue' = [queue EXCEPT ![q].cancel = m]
  BY <1>2, <1>4, QueueField
<1>5. CASE \E v \in BOOLEAN : SetRunning(q, v)
  BY <1>2, <1>5, QueueField DEF SetRunning
<1>6. CASE queue' = [queue EXCEPT ![q].dead = TRUE]
  BY <1>2, <1>6, QueueField
<1>7. CASE queue' = [queue EXCEPT ![q].running = FALSE, ![q].cancel = NoTurn]
  <2> DEFINE c == [queue[q] EXCEPT !.running = FALSE, !.cancel = NoTurn]
  <2>1. c \in QueueRecord
    BY <1>1 DEF QueueRecord, Maybe
  <2>2. queue' = [queue EXCEPT ![q] = c]
    BY <1>1, <1>7
  <2> HIDE DEF c
  <2> QED
    BY <1>2, <2>1, <2>2
<1> QED
  BY <1>3, <1>4, <1>5, <1>6, <1>7

\* What the queue shows of a step: its channel and whether it is dead.
LEMMA QueueViews ==
    ASSUME Typed, NEW q \in Queues
    PROVE  /\ \A m \in Maybe : queue' = [queue EXCEPT ![q].ch = m] =>
                 queue'[q].ch = m /\ queue'[q].dead = queue[q].dead
           /\ \A m \in Maybe : queue' = [queue EXCEPT ![q].cancel = m] =>
                 queue'[q].ch = queue[q].ch /\ queue'[q].dead = queue[q].dead
           /\ \A v \in BOOLEAN : SetRunning(q, v) =>
                 queue'[q].ch = queue[q].ch /\ queue'[q].dead = queue[q].dead
           /\ queue' = [queue EXCEPT ![q].dead = TRUE] =>
                 queue'[q].ch = queue[q].ch /\ queue'[q].dead = TRUE
           /\ queue' = [queue EXCEPT ![q].running = FALSE, ![q].cancel = NoTurn] =>
                 queue'[q].ch = queue[q].ch /\ queue'[q].dead = queue[q].dead
<1>1. queue \in [Queues -> QueueRecord] /\ queue[q] \in QueueRecord
  BY Parts
<1> QED
  BY <1>1 DEF QueueRecord, SetRunning

\* A request steps to a record of its kind.
LEMMA CallSteps ==
    ASSUME Typed, NEW p \in Callers, NEW c \in CallRecord, Continue(p, c),
           c.at \in {"cancel", "drain", "finalize"} => c.q \in Queues,
           c.at = "finalize" => c.turn \in Turns
    PROVE  /\ call' \in [Callers -> CallRecord]
           /\ \A r \in Callers : call'[r] = IF r = p THEN c ELSE call[r]
           /\ \A r \in Callers :
                 /\ call'[r].at \in {"cancel", "drain", "finalize"} => call'[r].q \in Queues
                 /\ call'[r].at = "finalize" => call'[r].turn \in Turns
<1>1. call \in [Callers -> CallRecord]
  BY Parts
<1>2. \A r \in Callers : call'[r] = IF r = p THEN c ELSE call[r]
  BY <1>1 DEF Continue
<1>3. call' \in [Callers -> CallRecord]
  BY <1>1 DEF Continue
<1> QED
  BY <1>2, <1>3 DEF Typed, Named

LEMMA CallField ==
    ASSUME Typed, NEW p \in Callers
    PROVE  /\ call[p] \in CallRecord
           /\ \A a \in CallStates :
                 /\ [call[p] EXCEPT !.at = a] \in CallRecord
                 /\ [call[p] EXCEPT !.at = a].at = a
                 /\ [call[p] EXCEPT !.at = a].q = call[p].q
           /\ \A a \in CallStates, m \in Maybe :
                 /\ [call[p] EXCEPT !.at = a, !.turn = m] \in CallRecord
                 /\ [call[p] EXCEPT !.at = a, !.turn = m].at = a
                 /\ [call[p] EXCEPT !.at = a, !.turn = m].q = call[p].q
                 /\ [call[p] EXCEPT !.at = a, !.turn = m].turn = m
<1>1. call[p] \in CallRecord
  BY Parts
<1> QED
  BY <1>1 DEF CallRecord

\* A Send steps to a record of its kind.
LEMMA SendSteps ==
    ASSUME Typed, NEW m \in Turns, NEW c \in SendRecord, send' = [send EXCEPT ![m] = c],
           c.at = "offer" => c.q \in Queues
    PROVE  /\ send' \in [Turns -> SendRecord]
           /\ \A n \in Turns : send'[n] = IF n = m THEN c ELSE send[n]
           /\ \A n \in Turns : send'[n].at = "offer" => send'[n].q \in Queues
<1>1. send \in [Turns -> SendRecord]
  BY Parts
<1>2. \A n \in Turns : send'[n] = IF n = m THEN c ELSE send[n]
  BY <1>1
<1> QED
  BY <1>1, <1>2 DEF Typed, Named

LEMMA SendField ==
    ASSUME Typed, NEW m \in Turns, NEW a \in SendStates
    PROVE  /\ [send EXCEPT ![m].at = a] = [send EXCEPT ![m] = [send[m] EXCEPT !.at = a]]
           /\ [send[m] EXCEPT !.at = a] \in SendRecord /\ [send[m] EXCEPT !.at = a].at = a
<1>1. send \in [Turns -> SendRecord] /\ send[m] \in SendRecord
  BY Parts
<1> QED
  BY <1>1 DEF SendRecord

-----------------------------------------------------------------------------
\* The initial state is well typed.
LEMMA InitType == ASSUME Init PROVE Typed
<1>1. /\ queue \in [Queues -> QueueRecord] /\ runner \in [Queues -> RunnerRecord]
      /\ call \in [Callers -> CallRecord]
      /\ \A q \in Queues : runner[q].at = "unmade"
      /\ \A p \in Callers : call[p].at = "idle"
  BY Records DEF Init
<1>2. send \in [Turns -> SendRecord] /\ \A m \in Turns : send[m].at = "new"
  BY BoundAssumption DEF Init, SendRecord, SendStates, NoQueue
<1>3. Named
  BY <1>1, <1>2 DEF Named, Before, After
<1>4. /\ row \in [Turns -> Rows] /\ answer \in [Turns -> Answers]
      /\ current \in 0..MaxQueues /\ made \in 0..MaxQueues
  BY BoundAssumption DEF Init, Rows, Answers, NoQueue
<1>5. /\ deleted \in BOOLEAN /\ cancelled \in SUBSET Turns /\ pending \in SUBSET Turns
      /\ allowed \in BOOLEAN /\ skilled \in SUBSET Queues /\ stop \in {"up", "closed", "cancelled"}
      /\ ran \in SUBSET Turns /\ vouched \in BOOLEAN /\ calls \in Nat /\ crashes \in Nat
  BY DEF Init
<1> QED
  BY <1>1, <1>2, <1>3, <1>4, <1>5
     DEF Typed, TypeOK, Maybe, QueueRecord, Steps, RunnerRecord, SendStates, SendRecord,
         CallStates, CallRecord

\* A step of a Send keeps the types.
LEMMA SendType ==
    ASSUME Typed, NEW m \in Turns, Open(m) \/ Sender(m)
    PROVE  Typed'
<1> DEFINE Sent == /\ send' \in [Turns -> SendRecord]
                   /\ \A n \in Turns : send'[n].at = "offer" => send'[n].q \in Queues
<1>1. ASSUME Sent, UNCHANGED call,
             \A q \in Queues : runner'[q].at \in Before \cup After => runner'[q].turn \in Turns
      PROVE  Named'
  BY <1>1 DEF Typed, Named
<1>2. ASSUME Sent, UNCHANGED <<call, runner>> PROVE Named'
  BY <1>2 DEF Typed, Named
<1>3. ASSUME NEW c \in SendRecord, send' = [send EXCEPT ![m] = c], c.at = "offer" => c.q \in Queues
      PROVE Sent
  BY <1>3, SendSteps
<1> HIDE DEF Sent
<1>4. ASSUME NEW a \in SendStates, send' = [send EXCEPT ![m].at = a], a # "offer" PROVE Sent
  <2> DEFINE c == [send[m] EXCEPT !.at = a]
  <2>1. c \in SendRecord /\ c.at = a /\ send' = [send EXCEPT ![m] = c]
    BY <1>4, SendField
  <2> HIDE DEF c
  <2> QED
    BY <1>3, <1>4, <2>1
<1>5. CASE Open(m)
  <2>1. Sent
    BY <1>4, <1>5 DEF Open, SendStates
  <2>2. row' \in [Turns -> Rows]
    BY <1>5, Parts DEF Open, Rows
  <2> QED
    BY <1>2, <1>5, <2>1, <2>2, Parts, Assemble DEF Open, Sent, queues, broker, ghosts, bounds
<1>6. CASE GetQueue(m)
  <2>1. current' \in Queues /\ made' \in 0..MaxQueues /\ queue' = queue
    BY <1>6, Parts DEF GetQueue, queues, NoQueue
  <2>2. /\ runner' \in [Queues -> RunnerRecord]
        /\ \A q \in Queues : runner'[q].at \in Before \cup After => runner'[q].turn \in Turns
    <3>1. CASE current # NoQueue
      BY <1>6, <3>1, Parts DEF GetQueue, Typed, Named
    <3>2. CASE current = NoQueue
      <4>1. made + 1 \in Queues /\ runner' = [runner EXCEPT ![made + 1] = Idle]
        BY <1>6, <3>2, Parts DEF GetQueue
      <4> QED
        BY <4>1, Records, RunnerSteps DEF Before, After
    <3> QED
      BY <3>1, <3>2
  <2>3. [at |-> "offer", q |-> current'] \in SendRecord
    BY <2>1, Parts DEF SendRecord, SendStates
  <2>4. Sent
    BY <1>3, <1>6, <2>1, <2>3 DEF GetQueue
  <2>5. Named'
    BY <1>1, <1>6, <2>2, <2>4 DEF GetQueue
  <2> QED
    BY <1>6, <2>1, <2>2, <2>4, <2>5, Parts, Assemble DEF GetQueue, Sent, store, broker, ghosts, bounds
<1>7. CASE Offer(m)
  <2>1. send[m].q \in Queues
    BY <1>7 DEF Offer, Typed, Named
  <2>2. PICK a \in {"open", "refused", "done"} : send' = [send EXCEPT ![m] = Left(a)]
    BY <1>7 DEF Offer
  <2>3. Sent
    BY <1>3, <2>2, Records DEF SendStates
  <2>4. queue' \in [Queues -> QueueRecord]
    BY <1>7, <2>1, QueueEffects, Parts DEF Offer, Maybe
  <2> QED
    BY <1>2, <1>7, <2>3, <2>4, Parts, Assemble DEF Offer, Sent, store, broker, ghosts, bounds
<1>8. CASE Refuse(m)
  <2>1. Sent
    BY <1>4, <1>8 DEF Refuse, SendStates
  <2>2. row' \in [Turns -> Rows]
    BY <1>8, Parts DEF Refuse, Rows
  <2> QED
    BY <1>2, <1>8, <2>1, <2>2, Parts, Assemble DEF Refuse, Sent, queues, broker, ghosts, bounds
<1> QED
  BY <1>5, <1>6, <1>7, <1>8 DEF Sender

\* A step of a queue's goroutine keeps the types.
LEMMA RunnerType ==
    ASSUME Typed, NEW q \in Queues,
           Runner(q) \/ Expire(q) \/ ActivateSkill(q) \/ Ask(q) \/ Panic(q) \/ Deadline(q)
    PROVE  Typed'
<1> DEFINE Ran == /\ runner' \in [Queues -> RunnerRecord]
                  /\ \A r \in Queues : runner'[r].at \in Before \cup After => runner'[r].turn \in Turns
           Queued == queue' \in [Queues -> QueueRecord]
           Written == row' \in [Turns -> Rows]
           Inert == UNCHANGED <<deleted, made, send, call, stop, bounds>>
<1>1. ASSUME Ran, UNCHANGED <<send, call>> PROVE Named'
  BY <1>1 DEF Typed, Named
<1>2. ASSUME Inert, Ran, Queued, Written, current' \in 0..MaxQueues, cancelled' \in SUBSET Turns,
             pending' \in SUBSET Turns, answer' \in [Turns -> Answers], allowed' \in BOOLEAN,
             skilled' \in SUBSET Queues, ran' \in SUBSET Turns, vouched' \in BOOLEAN
      PROVE  Typed'
  BY <1>1, <1>2, Parts, Assemble DEF bounds
<1>3. UNCHANGED queue => Queued
  BY Parts
<1>4. UNCHANGED row => Written
  BY Parts
<1>5. \A s \in Rows : row' = [row EXCEPT ![Hold(q)] = s] => Written
  BY Parts
<1>6. ASSUME NEW a \in Steps, Move(q, a), runner[q].at \in Before \cup After \/ a \notin Before \cup After
      PROVE  Ran
  BY <1>6, RunnerMoves
<1>7. runner[q].at \in Before \cup After => Hold(q) \in Turns
  BY DEF Typed, Named, Hold
<1>8. runner' = [runner EXCEPT ![q] = Exited] \/ runner' = [runner EXCEPT ![q] = Idle] => Ran
  BY RunnerSteps, Records DEF Before, After
<1>9. ASSUME queue[q].ch # NoTurn,
             runner' = [runner EXCEPT ![q] = [at |-> "got", turn |-> queue[q].ch]]
      PROVE  Ran
  <2>1. queue[q].ch \in Turns
    BY <1>9, Parts DEF QueueRecord, Maybe
  <2>2. [at |-> "got", turn |-> queue[q].ch] \in RunnerRecord
    BY <2>1 DEF RunnerRecord, Steps, Maybe
  <2> QED
    BY <1>9, <2>1, <2>2, RunnerSteps
<1>10. NoTurn \in Maybe
  BY DEF Maybe
<1>11. UNCHANGED runner => Ran
  BY Parts DEF Typed, Named
<1> HIDE DEF Ran, Queued, Written
<1>12. CASE Dequeue(q)
  <2>1. Ran /\ Queued /\ Written
    BY <1>4, <1>9, <1>10, <1>12, QueueEffects DEF Dequeue, store, Queued
  <2> QED
    BY <1>2, <1>12, <2>1, Parts DEF Dequeue, store, broker, ghosts
<1>13. CASE ExitOnStop(q)
  BY <1>2, <1>3, <1>4, <1>8, <1>13, Parts DEF ExitOnStop, store, queues, broker, ghosts
<1>14. CASE TearDown(q)
  <2>1. Ran /\ Queued /\ Written
    BY <1>4, <1>8, <1>9, <1>10, <1>14, QueueEffects DEF TearDown, store, Queued
  <2>2. current' \in 0..MaxQueues
    BY <1>14, Parts DEF TearDown, NoQueue
  <2> QED
    BY <1>2, <1>14, <2>1, <2>2, Parts DEF TearDown, store, broker, ghosts
<1>15. CASE Take(q)
  <2>1. Ran /\ Queued /\ Written
    BY <1>4, <1>6, <1>15, QueueEffects DEF Take, store, Queued, Before, Steps
  <2> QED
    BY <1>2, <1>15, <2>1, Parts DEF Take, store, broker, ghosts
<1>16. CASE Register(q)
  <2>1. Hold(q) \in Maybe
    BY <1>7, <1>16 DEF Register, Before, Maybe
  <2>2. Ran /\ Queued /\ Written
    BY <1>4, <1>6, <1>16, <2>1, QueueEffects DEF Register, store, Queued, Before, Steps
  <2> QED
    BY <1>2, <1>16, <2>2, Parts DEF Register, store, broker, ghosts
<1>17. CASE Load(q)
  <2>1. Ran
    BY <1>6, <1>17 DEF Load, Before, Steps
  <2> QED
    BY <1>2, <1>3, <1>4, <1>17, <2>1, Parts DEF Load, store, queues, broker, ghosts
<1>18. CASE FailTurn(q)
  <2>1. Ran /\ Written
    BY <1>5, <1>6, <1>18 DEF FailTurn, Before, Steps, Rows
  <2> QED
    BY <1>2, <1>3, <1>18, <2>1, Parts DEF FailTurn, queues, broker, ghosts
<1>19. CASE Answered(q)
  <2>1. Ran /\ Hold(q) \in Turns
    BY <1>6, <1>7, <1>19 DEF Answered, Before, Steps
  <2> QED
    BY <1>2, <1>3, <1>4, <1>19, <2>1, Parts DEF Answered, store, queues
<1>20. CASE Aborted(q)
  <2>1. Ran
    BY <1>6, <1>20 DEF Aborted, Before, Steps
  <2> QED
    BY <1>2, <1>3, <1>4, <1>20, <2>1, Parts DEF Aborted, store, queues, ghosts
<1>21. CASE Release(q)
  <2>1. Ran /\ Queued
    BY <1>6, <1>21, QueueEffects DEF Release, Queued, After, Steps
  <2> QED
    BY <1>2, <1>4, <1>21, <2>1, Parts DEF Release, store, broker, ghosts
<1>22. CASE EndTail(q)
  <2>1. Ran
    BY <1>6, <1>22 DEF EndTail, After, Steps
  <2> QED
    BY <1>2, <1>3, <1>4, <1>22, <2>1, Parts DEF EndTail, store, queues, broker, ghosts
<1>23. CASE Rest(q)
  <2>1. Ran /\ Queued
    BY <1>8, <1>23, QueueEffects DEF Rest, Queued
  <2>2. answer' \in [Turns -> Answers]
    BY <1>23, Parts DEF Rest, Answers
  <2> QED
    BY <1>2, <1>4, <1>23, <2>1, <2>2, Parts DEF Rest, store
<1>24. ASSUME NEW s \in Rows, Finalize(q, s) PROVE Typed'
  <2>1. Ran /\ Written
    BY <1>5, <1>6, <1>24 DEF Finalize, Before, Steps
  <2> QED
    BY <1>2, <1>3, <1>24, <2>1, Parts DEF Finalize, queues, broker, ghosts
<1>25. CASE Expire(q)
  <2>1. Ran
    BY <1>6, <1>25 DEF Expire, Before, After, Steps
  <2> QED
    BY <1>2, <1>3, <1>4, <1>25, <2>1, Parts DEF Expire, store, queues, broker, ghosts
<1>26. CASE Ask(q)
  <2>1. Ran /\ Hold(q) \in Turns
    BY <1>6, <1>7, <1>26 DEF Ask, Before, Steps
  <2> QED
    BY <1>2, <1>3, <1>4, <1>26, <2>1, Parts DEF Ask, store, queues
<1>27. CASE Panic(q)
  <2>1. Ran /\ Written
    BY <1>5, <1>6, <1>27 DEF Panic, Before, After, Steps, Rows
  <2> QED
    BY <1>2, <1>3, <1>27, <2>1, Parts DEF Panic, queues, broker, ghosts
<1>28. CASE Deadline(q)
  <2>1. Hold(q) \in Turns
    BY <1>7, <1>28 DEF Deadline, Before
  <2> QED
    BY <1>2, <1>3, <1>4, <1>11, <1>28, <2>1, Parts DEF Deadline, store, queues, broker, ghosts
<1>29. CASE ActivateSkill(q)
  <2>1. skilled' \in SUBSET Queues
    BY <1>29, Parts DEF ActivateSkill
  <2> QED
    BY <1>2, <1>3, <1>4, <1>11, <1>29, <2>1, Parts DEF ActivateSkill, store, queues, ghosts
<1> QED
  BY <1>12, <1>13, <1>14, <1>15, <1>16, <1>17, <1>18, <1>19, <1>20, <1>21, <1>22, <1>23, <1>24,
     <1>25, <1>26, <1>27, <1>28, <1>29 DEF Runner

\* A step of a Cancel or a Delete keeps the types.
LEMMA CallType ==
    ASSUME Typed, NEW p \in Callers,
           Caller(p) \/ \E op \in {"cancel", "delete"} : Begin(p, op)
    PROVE  Typed'
<1> DEFINE Called == /\ call' \in [Callers -> CallRecord]
                     /\ \A r \in Callers :
                           /\ call'[r].at \in {"cancel", "drain", "finalize"} => call'[r].q \in Queues
                           /\ call'[r].at = "finalize" => call'[r].turn \in Turns
           Inert == UNCHANGED <<current, made, runner, pending, answer, skilled, send, stop, ghosts, crashes>>
<1>1. ASSUME Called, UNCHANGED <<runner, send>> PROVE Named'
  BY <1>1 DEF Typed, Named
<1>2. ASSUME Inert, Called, row' \in [Turns -> Rows], queue' \in [Queues -> QueueRecord],
             deleted' \in BOOLEAN, cancelled' \in SUBSET Turns, allowed' \in BOOLEAN, calls' \in Nat
      PROVE  Typed'
  BY <1>1, <1>2, Parts, Assemble DEF ghosts
<1>3. ASSUME NEW c \in CallRecord, Continue(p, c), c.at \in {"cancel", "drain", "finalize"} => c.q \in Queues,
             c.at = "finalize" => c.turn \in Turns
      PROVE  Called
  BY <1>3, CallSteps
<1>4. Continue(p, IdleCall) => Called
  BY Records, CallSteps
<1> HIDE DEF Called
<1>5. ASSUME NEW a \in CallStates \ {"finalize"}, Continue(p, [call[p] EXCEPT !.at = a]),
             a \in {"cancel", "drain"} => call[p].q \in Queues
      PROVE  Called
  <2> DEFINE c == [call[p] EXCEPT !.at = a]
  <2>1. c \in CallRecord /\ c.at = a /\ c.q = call[p].q
    BY <1>5, CallField, ZenonT(60)
  <2>2. Continue(p, c)
    BY <1>5
  <2> HIDE DEF c
  <2> QED
    BY <1>3, <1>5, <2>1, <2>2
<1>6. ASSUME NEW a \in {"drain", "finalize"}, NEW m \in Maybe, call[p].q \in Queues,
             a = "finalize" => m \in Turns, Continue(p, [call[p] EXCEPT !.at = a, !.turn = m])
      PROVE  Called
  <2> DEFINE c == [call[p] EXCEPT !.at = a, !.turn = m]
  <2>1. c \in CallRecord /\ c.at = a /\ c.q = call[p].q /\ c.turn = m
    <3>1. call[p] \in CallRecord
      BY Parts
    <3> QED
      BY <3>1 DEF CallRecord, CallStates
  <2>2. Continue(p, c)
    BY <1>6
  <2> HIDE DEF c
  <2> QED
    BY <1>3, <1>6, <2>1, <2>2
<1>7. call[p].at \in {"cancel", "drain", "finalize"} => call[p].q \in Queues
  BY DEF Typed, Named
<1>8. ASSUME NEW op \in {"cancel", "delete"}, Begin(p, op) PROVE Typed'
  <2> DEFINE c == [at |-> IF current = NoQueue THEN "drained" ELSE "cancel", op |-> op,
                   q |-> current, turn |-> NoTurn]
  <2>1. c \in CallRecord /\ (c.at = "cancel" => c.q \in Queues) /\ c.at \in {"drained", "cancel"}
    BY Parts DEF CallRecord, CallStates, Maybe, NoQueue
  <2>2. Continue(p, c)
    BY <1>8 DEF Begin
  <2> HIDE DEF c
  <2>3. Called
    BY <1>3, <2>1, <2>2
  <2> QED
    BY <1>2, <1>8, <2>3, Parts DEF Begin, store, queues, broker
<1>9. CASE CancelRunning(p)
  <2>1. Called
    BY <1>5, <1>7, <1>9 DEF CancelRunning, CallStates
  <2>2. cancelled' \in SUBSET Turns
    BY <1>7, <1>9, Parts DEF CancelRunning, QueueRecord, Maybe
  <2> QED
    BY <1>2, <1>9, <2>1, <2>2, Parts DEF CancelRunning, store, queues, broker, bounds
<1>10. CASE DrainOne(p)
  <2>1. call[p].q \in Queues /\ queue[call[p].q].ch \in Turns
    BY <1>7, <1>10, Parts DEF DrainOne, QueueRecord, Maybe
  <2>2. Called
    BY <1>6, <1>10, <2>1 DEF DrainOne, Maybe
  <2>3. queue' \in [Queues -> QueueRecord]
    BY <1>10, <2>1, QueueEffects DEF DrainOne, Maybe
  <2> QED
    BY <1>2, <1>10, <2>2, <2>3, Parts DEF DrainOne, store, broker, bounds
<1>11. CASE FinalizeCancelled(p)
  <2>1. Called
    BY <1>6, <1>7, <1>11 DEF FinalizeCancelled, Maybe
  <2>2. row' \in [Turns -> Rows]
    BY <1>11, Parts DEF FinalizeCancelled, Rows
  <2> QED
    BY <1>2, <1>11, <2>1, <2>2, Parts DEF FinalizeCancelled, queues, broker, bounds
<1>12. CASE Drained(p)
  <2>1. Called
    BY <1>5, <1>12 DEF Drained, CallStates
  <2> QED
    BY <1>2, <1>12, <2>1, Parts DEF Drained, store, queues, broker, bounds
<1>13. CASE Return(p)
  <2>1. Called
    BY <1>4, <1>5, <1>13 DEF Return, CallStates
  <2>2. allowed' \in BOOLEAN
    BY <1>13, Parts DEF Return
  <2> QED
    BY <1>2, <1>13, <2>1, <2>2, Parts DEF Return, store, queues, bounds
<1>14. CASE SoftDelete(p)
  <2>1. Called
    BY <1>4, <1>14 DEF SoftDelete
  <2> QED
    BY <1>2, <1>14, <2>1, Parts DEF SoftDelete, queues, broker, bounds
<1> QED
  BY <1>8, <1>9, <1>10, <1>11, <1>12, <1>13, <1>14 DEF Caller

\* The rest of the process keeps the types.
LEMMA ProcessType ==
    ASSUME Typed,
           \/ \E m \in Turns, a \in Answers : Resolve(m, a)
           \/ CloseStop \/ CancelAll \/ CrashAndBoot
    PROVE  Typed'
<1>1. ASSUME UNCHANGED <<runner, send, call>> PROVE Named'
  BY <1>1 DEF Typed, Named
<1>2. ASSUME NEW m \in Turns, NEW a \in Answers, Resolve(m, a) PROVE Typed'
  <2>1. answer' \in [Turns -> Answers] /\ vouched' \in BOOLEAN
    BY <1>2, Parts DEF Resolve
  <2> QED
    BY <1>1, <1>2, <2>1, Parts, Assemble DEF Resolve, store, queues, bounds
<1>3. CASE CloseStop
  BY <1>1, <1>3, Parts, Assemble DEF CloseStop, store, queues, broker, ghosts, bounds
<1>4. CASE CancelAll
  <2>1. cancelled' \in SUBSET Turns
    BY <1>4, Parts DEF CancelAll, QueueRecord, Maybe, NoQueue
  <2> QED
    BY <1>1, <1>4, <2>1, Parts, Assemble DEF CancelAll, store, queues, broker, ghosts, bounds
<1>5. CASE CrashAndBoot
  <2>1. Restart
    BY <1>5 DEF CrashAndBoot
  <2>2. row' \in [Turns -> Rows]
    BY <1>5, Parts DEF CrashAndBoot, Rows
  <2>3. /\ queue' \in [Queues -> QueueRecord] /\ runner' \in [Queues -> RunnerRecord]
        /\ call' \in [Callers -> CallRecord]
        /\ \A q \in Queues : runner'[q].at = "unmade"
        /\ \A p \in Callers : call'[p].at = "idle"
    BY <2>1, Records DEF Restart
  <2>4. send' \in [Turns -> SendRecord] /\ \A m \in Turns : send'[m].at \in {"new", "done"}
    <3>1. Left("done") \in SendRecord /\ Left("done").at = "done"
      BY Records DEF SendStates
    <3>2. send' = [m \in Turns |-> IF send[m].at = "new" THEN send[m] ELSE Left("done")]
      BY <2>1 DEF Restart
    <3> QED
      BY <3>1, <3>2, Parts
  <2>5. Named'
    BY <2>3, <2>4 DEF Named, Before, After
  <2>6. /\ current' \in 0..MaxQueues /\ made' \in 0..MaxQueues /\ answer' \in [Turns -> Answers]
        /\ crashes' \in Nat
    BY <2>1, Parts DEF Restart, NoQueue, Answers
  <2>7. /\ cancelled' = {} /\ pending' = {} /\ allowed' = FALSE /\ skilled' = {} /\ ran' = {} /\ vouched' = FALSE
        /\ stop' = "up" /\ deleted' = deleted /\ calls' = calls
    BY <2>1 DEF Restart
  <2> QED
    BY <2>2, <2>3, <2>4, <2>5, <2>6, <2>7, Parts, Assemble
<1> QED
  BY <1>2, <1>3, <1>4, <1>5

LEMMA NextType == ASSUME Typed, [Next]_vars PROVE Typed'
<1>1. CASE UNCHANGED vars
  BY <1>1 DEF vars, store, queues, broker, ghosts, bounds, Typed, TypeOK, Named
<1>2. CASE Next
  BY <1>2, SendType, RunnerType, CallType, ProcessType DEF Next
<1> QED
  BY <1>1, <1>2

\* Every variable keeps its type, for any number of turns, requests and queues.
THEOREM TypeCorrect == Spec => []TypeOK
<1>1. Init => Typed
  BY InitType
<1>2. Typed /\ [Next]_vars => Typed'
  BY NextType
<1>3. Typed => TypeOK
  BY DEF Typed
<1> QED
  BY <1>1, <1>2, <1>3, PTL DEF Spec

-----------------------------------------------------------------------------
(***************************************************************************)
(* The map's entry is the one queue alive.                                 *)
(***************************************************************************)
Shape ==
    /\ current <= made
    /\ \A q \in Queues : q > made => runner[q].at = "unmade" /\ ~queue[q].dead /\ queue[q].ch = NoTurn
    /\ \A q \in Queues : q <= made /\ q # current =>
          runner[q].at = "exited" /\ queue[q].dead /\ queue[q].ch = NoTurn
    /\ current # NoQueue =>
          /\ ~queue[current].dead
          /\ runner[current].at # "unmade"
          /\ stop = "up" => runner[current].at # "exited"
    /\ \A m \in Turns : send[m].at = "offer" => send[m].q <= made
    /\ stop # "up" =>
          /\ \A m \in Turns : send[m].at \in {"new", "done"}
          /\ \A p \in Callers : call[p].at = "idle"

\* Whoever runs, holds a turn or keeps one in its channel is that queue.
LEMMA Alone ==
    ASSUME Typed, Shape, NEW q \in Queues,
           runner[q].at \notin {"unmade", "exited"} \/ queue[q].ch # NoTurn
    PROVE  q = current /\ q <= made /\ current # NoQueue /\ ~queue[q].dead
<1>1. q \in Nat /\ q > 0 /\ made \in Nat /\ current \in Nat
  BY Parts
<1>2. q = current
  BY <1>1 DEF Shape
<1> QED
  BY <1>1, <1>2 DEF Shape, NoQueue

LEMMA InitShape == ASSUME Init PROVE Shape
<1>1. \A q \in Queues : runner[q].at = "unmade" /\ ~queue[q].dead /\ queue[q].ch = NoTurn
  BY Records DEF Init
<1>2. \A q \in Queues : ~(q <= made)
  BY BoundAssumption DEF Init, Queues
<1>3. \A m \in Turns : send[m].at = "new"
  BY DEF Init
<1>4. current = NoQueue /\ stop = "up" /\ current <= made
  BY DEF Init, NoQueue
<1> QED
  BY <1>1, <1>2, <1>3, <1>4 DEF Shape

\* A step that only moves the goroutine of the queue in the map, or fills,
\* empties or marks that queue, keeps the shape.
LEMMA LocalShape ==
    ASSUME Typed, Shape, NEW q \in Queues, UNCHANGED <<current, made, stop>>,
           runner[q].at \notin {"unmade", "exited"} \/ queue[q].ch # NoTurn \/ q = current,
           \A r \in Queues : r # q => runner'[r] = runner[r] /\ queue'[r] = queue[r],
           queue'[q].dead = queue[q].dead,
           runner'[q].at # "unmade",
           stop = "up" => runner'[q].at # "exited",
           \A m \in Turns : send'[m].at = "offer" => send[m].at = "offer" /\ send'[m].q = send[m].q,
           stop # "up" => /\ \A m \in Turns : send'[m].at \in {"new", "done"}
                          /\ \A p \in Callers : call'[p].at = "idle"
    PROVE  Shape'
<1>1. q = current
  BY Alone
<1>2. /\ \A r \in Queues : r > made => r # q
      /\ current # NoQueue /\ ~queue[q].dead
  <2>1. q \in Nat /\ q > 0 /\ made \in Nat /\ current \in Nat
    BY Parts
  <2> QED
    BY <1>1, <2>1 DEF Shape, NoQueue
<1> QED
  BY <1>1, <1>2 DEF Shape

\* A step that leaves the queues and their goroutines alone.
LEMMA StillShape ==
    ASSUME Typed, Shape, UNCHANGED <<current, made, stop>>,
           \A r \in Queues : runner'[r] = runner[r] /\ queue'[r] = queue[r],
           \A m \in Turns : send'[m].at = "offer" => send[m].at = "offer" /\ send'[m].q = send[m].q,
           stop # "up" => /\ \A m \in Turns : send'[m].at \in {"new", "done"}
                          /\ \A p \in Callers : call'[p].at = "idle"
    PROVE  Shape'
<1>1. current # NoQueue => current \in Queues
  BY Parts DEF NoQueue
<1> QED
  BY <1>1 DEF Shape

LEMMA SendShape ==
    ASSUME Typed, Shape, NEW m \in Turns, Open(m) \/ Sender(m)
    PROVE  Shape'
<1>1. stop = "up"
  BY DEF Shape, Open, Sender, GetQueue, Offer, Refuse
<1>2. send \in [Turns -> SendRecord]
  BY Parts
<1>3. ASSUME Open(m) \/ Refuse(m) PROVE Shape'
  <2>1. \A n \in Turns : send'[n].at = "offer" => send[n].at = "offer" /\ send'[n].q = send[n].q
    BY <1>2, <1>3 DEF Open, Refuse, SendRecord
  <2> QED
    BY <1>1, <1>3, <2>1, StillShape DEF Open, Refuse, queues
<1>4. CASE GetQueue(m)
  <2>1. \A n \in Turns : IF n = m THEN send'[n] = [at |-> "offer", q |-> current']
                         ELSE send'[n] = send[n]
    BY <1>2, <1>4 DEF GetQueue
  <2>2. made \in Nat /\ current \in Nat /\ \A q \in Queues : q \in Nat /\ q > 0
    BY Parts
  <2>3. CASE current # NoQueue
    <3>1. UNCHANGED <<queues, runner, stop>>
      BY <1>4, <2>3 DEF GetQueue
    <3> QED
      BY <1>1, <2>1, <2>2, <2>3, <3>1 DEF Shape, queues
  <2>4. CASE current = NoQueue
    <3>1. /\ made + 1 \in Queues /\ made' = made + 1 /\ current' = made + 1 /\ queue' = queue
          /\ stop' = stop
          /\ \A r \in Queues : IF r = made + 1 THEN runner'[r] = Idle ELSE runner'[r] = runner[r]
      BY <1>4, <2>4, Parts DEF GetQueue
    <3>2. Idle.at = "idle"
      BY Records
    <3>3. /\ \A q \in Queues : q > made' => runner'[q].at = "unmade" /\ ~queue'[q].dead /\ queue'[q].ch = NoTurn
          /\ \A q \in Queues : q <= made' /\ q # current' =>
                runner'[q].at = "exited" /\ queue'[q].dead /\ queue'[q].ch = NoTurn
      BY <2>2, <2>4, <3>1 DEF Shape, NoQueue
    <3>4. \A n \in Turns : send'[n].at = "offer" => send'[n].q <= made'
      <4>1. \A n \in Turns : send[n].at = "offer" => send[n].q \in Nat /\ send[n].q <= made
        BY <1>2, Parts DEF Shape, SendRecord
      <4> QED
        BY <2>1, <2>2, <3>1, <4>1
    <3> QED
      BY <1>1, <2>2, <3>1, <3>2, <3>3, <3>4 DEF Shape, NoQueue
  <2> QED
    BY <2>3, <2>4
<1>5. CASE Offer(m)
  <2>1. \A n \in Turns : send'[n].at = "offer" => send[n].at = "offer" /\ send'[n].q = send[n].q
    <3>1. PICK a \in {"open", "refused", "done"} : send' = [send EXCEPT ![m] = Left(a)]
      BY <1>5 DEF Offer
    <3>2. Left(a).at # "offer"
      BY DEF Left
    <3> QED
      BY <1>2, <3>1, <3>2
  <2>2. CASE UNCHANGED queue
    BY <1>1, <1>5, <2>1, <2>2, StillShape DEF Offer
  <2>3. CASE ~Asked(m).dead /\ queue' = [queue EXCEPT ![send[m].q].ch = m]
    <3> DEFINE q == send[m].q
    <3>1. q \in Queues /\ q <= made /\ ~queue[q].dead
      BY <1>5, <2>3 DEF Offer, Asked, Shape, Typed, Named
    <3>2. q = current
      BY <3>1 DEF Shape
    <3>3. /\ \A r \in Queues : r # q => queue'[r] = queue[r]
          /\ queue'[q].dead = queue[q].dead
      BY <2>3, <3>1, QueueEffects, QueueViews DEF Maybe
    <3> HIDE DEF q
    <3>4. current # NoQueue
      BY <3>1, <3>2, Parts DEF NoQueue
    <3>5. runner'[q].at # "unmade" /\ runner'[q].at # "exited"
      BY <1>1, <1>5, <3>2, <3>4 DEF Offer, Shape
    <3> QED
      BY <1>1, <1>5, <2>1, <3>1, <3>2, <3>3, <3>5, LocalShape DEF Offer
  <2> QED
    BY <1>5, <2>2, <2>3 DEF Offer
<1> QED
  BY <1>3, <1>4, <1>5 DEF Sender

LEMMA RunnerShape ==
    ASSUME Typed, Shape, NEW q \in Queues,
           Runner(q) \/ Expire(q) \/ ActivateSkill(q) \/ Ask(q) \/ Panic(q) \/ Deadline(q)
    PROVE  Shape'
<1> DEFINE Elsewhere == \A r \in Queues : r # q => runner'[r] = runner[r] /\ queue'[r] = queue[r]
           Inert == UNCHANGED <<made, send, call, stop>>
<1>1. runner \in [Queues -> RunnerRecord] /\ queue \in [Queues -> QueueRecord]
  BY Parts
<1>2. ASSUME Inert, UNCHANGED current, Elsewhere, queue'[q].dead = queue[q].dead,
             runner[q].at \notin {"unmade", "exited"},
             runner'[q].at # "unmade", stop = "up" => runner'[q].at # "exited"
      PROVE  Shape'
  <2>1. stop # "up" => /\ \A m \in Turns : send'[m].at \in {"new", "done"}
                       /\ \A p \in Callers : call'[p].at = "idle"
    BY <1>2 DEF Shape
  <2> QED
    BY <1>2, <2>1, LocalShape
<1>3. ASSUME NEW a \in Steps \ {"unmade", "exited"}, Move(q, a), Inert,
             UNCHANGED <<current, queue>>, runner[q].at \notin {"unmade", "exited"}
      PROVE  Shape'
  <2>1. Elsewhere /\ runner'[q].at = a
    BY <1>1, <1>3 DEF Move, RunnerRecord
  <2> QED
    BY <1>2, <1>3, <2>1
<1>4. ASSUME NEW c \in RunnerRecord, runner' = [runner EXCEPT ![q] = c]
      PROVE  runner'[q] = c /\ \A r \in Queues : r # q => runner'[r] = runner[r]
  BY <1>1, <1>4
<1>5. ASSUME queue[q].ch # NoTurn, runner[q].at \notin {"unmade", "exited"}, Inert, UNCHANGED current,
             runner' = [runner EXCEPT ![q] = [at |-> "got", turn |-> queue[q].ch]],
             queue' = [queue EXCEPT ![q].ch = NoTurn]
      PROVE  Shape'
  <2>1. Elsewhere /\ queue'[q].dead = queue[q].dead
    BY <1>1, <1>5, QueueEffects, QueueViews DEF Maybe
  <2>2. runner'[q].at = "got"
    BY <1>1, <1>5
  <2> QED
    BY <1>2, <1>5, <2>1, <2>2
<1> HIDE DEF Elsewhere
<1>6. CASE Dequeue(q)
  BY <1>5, <1>6 DEF Dequeue
<1>7. CASE ExitOnStop(q)
  <2>1. runner'[q].at = "exited" /\ Elsewhere
    BY <1>1, <1>7, Records DEF ExitOnStop, queues, Elsewhere
  <2> QED
    BY <1>2, <1>7, <2>1 DEF ExitOnStop, queues
<1>8. CASE TearDown(q)
  <2>1. CASE queue[q].ch # NoTurn
    BY <1>5, <1>8, <2>1 DEF TearDown
  <2>2. CASE queue[q].ch = NoTurn
    <3>1. /\ runner' = [runner EXCEPT ![q] = Exited] /\ queue' = [queue EXCEPT ![q].dead = TRUE]
          /\ current' = NoQueue /\ Inert
      BY <1>8, <2>2 DEF TearDown
    <3>2. runner'[q].at = "exited" /\ \A r \in Queues : r # q => runner'[r] = runner[r]
      BY <1>4, <3>1, Records
    <3>3. queue'[q].dead /\ queue'[q].ch = NoTurn /\ \A r \in Queues : r # q => queue'[r] = queue[r]
      BY <2>2, <3>1, QueueEffects, QueueViews
    <3>4. q = current /\ q <= made /\ current # NoQueue
      BY <1>8, Alone DEF TearDown
    <3>5. made \in Nat /\ current \in Nat /\ \A r \in Queues : r \in Nat /\ r > 0
      BY Parts
    <3>6. /\ \A r \in Queues : r > made => runner'[r].at = "unmade" /\ ~queue'[r].dead /\ queue'[r].ch = NoTurn
          /\ \A r \in Queues : r <= made =>
                runner'[r].at = "exited" /\ queue'[r].dead /\ queue'[r].ch = NoTurn
      BY <3>2, <3>3, <3>4, <3>5 DEF Shape
    <3> QED
      BY <3>1, <3>5, <3>6 DEF Shape, NoQueue
  <2> QED
    BY <2>1, <2>2
<1>9. CASE Take(q)
  <2>1. Elsewhere /\ queue'[q].dead = queue[q].dead /\ runner'[q].at = "begin"
    BY <1>1, <1>9, QueueEffects, QueueViews DEF Take, Move, RunnerRecord, Elsewhere
  <2> QED
    BY <1>2, <1>9, <2>1 DEF Take
<1>10. CASE Register(q)
  <2>1. Hold(q) \in Maybe
    BY <1>10 DEF Register, Typed, Named, Before, Maybe, Hold
  <2>2. Elsewhere /\ queue'[q].dead = queue[q].dead /\ runner'[q].at = "load"
    <3>1. /\ \A r \in Queues : r # q => queue'[r] = queue[r]
          /\ queue'[q].dead = queue[q].dead
      BY <1>10, <2>1, QueueEffects, QueueViews DEF Register
    <3> QED
      BY <1>1, <1>10, <3>1 DEF Register, Move, RunnerRecord, Elsewhere
  <2> QED
    BY <1>2, <1>10, <2>2 DEF Register
<1>11. CASE Load(q)
  BY <1>3, <1>11 DEF Load, queues, Steps
<1>12. CASE FailTurn(q)
  BY <1>3, <1>12 DEF FailTurn, queues, Steps
<1>13. CASE Answered(q)
  BY <1>3, <1>13 DEF Answered, queues, Steps
<1>14. CASE Aborted(q)
  BY <1>3, <1>14 DEF Aborted, queues, Steps
<1>15. CASE Release(q)
  <2>1. Elsewhere /\ queue'[q].dead = queue[q].dead /\ runner'[q].at = "tail"
    BY <1>1, <1>15, QueueEffects, QueueViews DEF Release, Move, RunnerRecord, Elsewhere
  <2> QED
    BY <1>2, <1>15, <2>1 DEF Release
<1>16. CASE EndTail(q)
  BY <1>3, <1>16 DEF EndTail, queues, Steps
<1>17. CASE Rest(q)
  <2>1. Elsewhere /\ queue'[q].dead = queue[q].dead /\ runner'[q].at = "idle"
    BY <1>1, <1>4, <1>17, QueueEffects, QueueViews, Records DEF Rest, Elsewhere
  <2> QED
    BY <1>2, <1>17, <2>1 DEF Rest
<1>18. ASSUME NEW s \in Rows, Finalize(q, s) PROVE Shape'
  BY <1>3, <1>18 DEF Finalize, queues, Steps
<1>19. CASE Expire(q)
  BY <1>3, <1>19 DEF Expire, queues, Steps
<1>20. CASE Ask(q)
  BY <1>3, <1>20 DEF Ask, queues, Steps
<1>21. CASE Panic(q)
  BY <1>3, <1>21 DEF Panic, queues, Steps
<1>22. CASE Deadline(q)
  <2>1. Elsewhere
    BY <1>22 DEF Deadline, queues, Elsewhere
  <2> QED
    BY <1>2, <1>22, <2>1 DEF Deadline, queues
<1>23. CASE ActivateSkill(q)
  <2>1. Elsewhere
    BY <1>23 DEF ActivateSkill, queues, Elsewhere
  <2> QED
    BY <1>2, <1>23, <2>1 DEF ActivateSkill, queues
<1> QED
  BY <1>6, <1>7, <1>8, <1>9, <1>10, <1>11, <1>12, <1>13, <1>14, <1>15, <1>16, <1>17, <1>18, <1>19,
     <1>20, <1>21, <1>22, <1>23 DEF Runner

LEMMA NextShape == ASSUME Typed, Shape, [Next]_vars PROVE Shape'
<1>1. send \in [Turns -> SendRecord] /\ call \in [Callers -> CallRecord]
        /\ runner \in [Queues -> RunnerRecord] /\ queue \in [Queues -> QueueRecord]
  BY Parts
<1>2. ASSUME UNCHANGED <<queues, runner, send, call, stop>> PROVE Shape'
  BY <1>2, StillShape DEF queues, Shape
<1>3. CASE UNCHANGED vars
  BY <1>2, <1>3 DEF vars
<1>4. CASE \E m \in Turns : Open(m) \/ Sender(m)
  BY <1>4, SendShape
<1>5. CASE \E q \in Queues : Runner(q) \/ Expire(q) \/ ActivateSkill(q) \/ Ask(q) \/ Panic(q) \/ Deadline(q)
  BY <1>5, RunnerShape
<1>6. ASSUME NEW m \in Turns, NEW a \in Answers, Resolve(m, a) PROVE Shape'
  BY <1>2, <1>6 DEF Resolve
<1>7. ASSUME NEW p \in Callers, Caller(p) \/ \E op \in {"cancel", "delete"} : Begin(p, op) PROVE Shape'
  <2>1. stop = "up"
    BY <1>7 DEF Shape, Caller, CancelRunning, DrainOne, FinalizeCancelled, Drained, Return,
                SoftDelete, Begin
  <2>2. CASE UNCHANGED <<queues, runner, send, stop>>
    BY <2>1, <2>2, StillShape DEF queues
  <2>3. CASE DrainOne(p)
    <3> DEFINE q == call[p].q
    <3>1. q \in Queues /\ queue[q].ch # NoTurn
      BY <2>3 DEF DrainOne, Typed, Named
    <3>2. /\ \A r \in Queues : r # q => queue'[r] = queue[r]
          /\ queue'[q].dead = queue[q].dead
      BY <2>3, <3>1, QueueEffects, QueueViews DEF DrainOne, Maybe
    <3> HIDE DEF q
    <3>3. q = current /\ current # NoQueue
      BY <3>1, Alone
    <3>4. runner[q].at # "unmade" /\ runner[q].at # "exited"
      BY <2>1, <3>3 DEF Shape
    <3> QED
      BY <2>1, <2>3, <3>1, <3>2, <3>4, LocalShape DEF DrainOne
  <2> QED
    BY <1>7, <2>2, <2>3 DEF Caller, CancelRunning, FinalizeCancelled, Drained, Return, SoftDelete,
                            Begin, queues
<1>8. CASE CloseStop
  <2>1. UNCHANGED <<queues, runner, send, call>> /\ stop = "up" /\ stop' = "closed"
        /\ (\A m \in Turns : send[m].at \in {"new", "done"}) /\ \A p \in Callers : call[p].at = "idle"
    BY <1>8 DEF CloseStop
  <2> QED
    BY <2>1 DEF Shape, queues
<1>9. CASE CancelAll
  BY <1>9 DEF CancelAll, Shape, queues
<1>10. CASE CrashAndBoot
  <2>1. Restart
    BY <1>10 DEF CrashAndBoot
  <2>2. /\ \A q \in Queues : runner'[q].at = "unmade" /\ ~queue'[q].dead /\ queue'[q].ch = NoTurn
        /\ current' = NoQueue /\ made' = 0 /\ stop' = "up"
    BY <2>1, Records DEF Restart
  <2>3. \A m \in Turns : send'[m].at # "offer"
    BY <1>1, <2>1, Records DEF Restart, SendStates
  <2>4. \A q \in Queues : ~(q <= made')
    BY <2>2, Parts
  <2> QED
    BY <2>2, <2>3, <2>4 DEF Shape, NoQueue
<1> QED
  BY <1>3, <1>4, <1>5, <1>6, <1>7, <1>8, <1>9, <1>10 DEF Next

\* One goroutine generates or compacts at a time, queues that were torn down
\* included (OneTurnAtATime; runner.go runQueue).
THEOREM OneAtATime == Spec => []OneTurnAtATime
<1>1. Init => Typed /\ Shape
  BY InitType, InitShape
<1>2. Typed /\ Shape /\ [Next]_vars => (Typed /\ Shape)'
  BY NextType, NextShape
<1>3. Typed /\ Shape => OneTurnAtATime
  BY Alone DEF OneTurnAtATime, Busy
<1> QED
  BY <1>1, <1>2, <1>3, PTL DEF Spec

-----------------------------------------------------------------------------
(***************************************************************************)
(* A streaming turn has one owner: its Send, the channel, the goroutine or *)
(* a Cancel that took it out of the channel.                               *)
(***************************************************************************)
InChannel(q, m) == queue[q].ch = m
InHand(q, m) == runner[q].at \in Before /\ runner[q].turn = m
Ended(q, m) == runner[q].at \in After /\ runner[q].turn = m
Withdrawn(p, m) == call[p].at = "finalize" /\ call[p].turn = m
Sending(m) == send[m].at \in {"open", "offer", "refused"}

Owned ==
    \A m \in Turns :
      /\ send[m].at = "new" => row[m] = "none"
      /\ Sending(m) => row[m] = "streaming"
      /\ \A q \in Queues : InChannel(q, m) \/ InHand(q, m) =>
            send[m].at = "done" /\ row[m] = "streaming"
      /\ \A p \in Callers : Withdrawn(p, m) => send[m].at = "done" /\ row[m] = "streaming"
      /\ \A q \in Queues : Ended(q, m) => send[m].at = "done" /\ row[m] # "streaming"
      /\ \A q, r \in Queues : ~(InChannel(q, m) /\ InHand(r, m))
      /\ \A q \in Queues, p \in Callers : Withdrawn(p, m) => ~InChannel(q, m) /\ ~InHand(q, m)
      /\ \A p, r \in Callers : Withdrawn(p, m) /\ Withdrawn(r, m) => p = r

Kept ==
    stop = "up" => \A m \in Turns : row[m] = "streaming" =>
        \/ Sending(m)
        \/ \E q \in Queues : InChannel(q, m)
        \/ \E q \in Queues : InHand(q, m)
        \/ \E p \in Callers : Withdrawn(p, m)

Sound == Typed /\ Shape /\ Owned /\ Kept

LEMMA InitOwned == ASSUME Init PROVE Owned /\ Kept
<1>1. /\ \A q \in Queues : queue[q].ch = NoTurn /\ runner[q].at = "unmade"
      /\ \A p \in Callers : call[p].at = "idle"
  BY Records DEF Init
<1>2. \A m \in Turns : send[m].at = "new" /\ row[m] = "none"
  BY DEF Init
<1> QED
  BY <1>1, <1>2, NoTurnAssumption
     DEF Owned, Kept, InChannel, InHand, Ended, Withdrawn, Sending, Before, After

\* A step after which every turn is where it was.
LEMMA StillOwned ==
    ASSUME Sound, UNCHANGED row, stop' = "up" => stop = "up",
           \A m \in Turns : /\ (send'[m].at = "new" <=> send[m].at = "new")
                            /\ (send'[m].at = "done" <=> send[m].at = "done")
                            /\ send'[m].at \in SendStates /\ send[m].at \in SendStates,
           \A m \in Turns, q \in Queues : /\ (InChannel(q, m)' <=> InChannel(q, m))
                                          /\ (InHand(q, m)' <=> InHand(q, m))
                                          /\ (Ended(q, m)' => Ended(q, m)),
           \A m \in Turns, p \in Callers : Withdrawn(p, m)' <=> Withdrawn(p, m)
    PROVE  Owned' /\ Kept'
<1>1. \A m \in Turns : Sending(m)' <=> Sending(m)
  BY DEF Sending, SendStates
<1>2. Owned /\ Kept
  BY DEF Sound
<1>3. Owned'
  BY <1>1, <1>2 DEF Owned
<1> QED
  BY <1>1, <1>2, <1>3 DEF Kept

\* A step that ends a turn: its row is final, and nobody owns it any more.
LEMMA EndsTurn ==
    ASSUME Sound, NEW e \in Turns, NEW s \in Rows \ {"streaming", "none"},
           row' = [row EXCEPT ![e] = s], stop' = stop, send'[e].at = "done",
           \A m \in Turns : m # e => send'[m].at = send[m].at,
           \A q \in Queues : ~InChannel(q, e)' /\ ~InHand(q, e)',
           \A p \in Callers : ~Withdrawn(p, e)',
           \A m \in Turns, q \in Queues : m # e => /\ (InChannel(q, m)' <=> InChannel(q, m))
                                                   /\ (InHand(q, m)' <=> InHand(q, m))
                                                   /\ (Ended(q, m)' => Ended(q, m)),
           \A m \in Turns, p \in Callers : m # e => (Withdrawn(p, m)' <=> Withdrawn(p, m))
    PROVE  Owned' /\ Kept'
<1>1. row \in [Turns -> Rows]
  BY Parts DEF Sound
<1>2. row'[e] = s /\ \A m \in Turns : m # e => row'[m] = row[m]
  BY <1>1
<1>3. \A m \in Turns : m # e => (Sending(m)' <=> Sending(m))
  BY DEF Sending
<1>4. Owned /\ Kept /\ ~Sending(e)'
  BY DEF Sound, Sending
<1>5. Owned'
  BY <1>2, <1>3, <1>4 DEF Owned
<1> QED
  BY <1>2, <1>3, <1>4, <1>5 DEF Kept

\* A step that hands a turn from one owner to another.
LEMMA Passes ==
    ASSUME Sound, NEW e \in Turns, UNCHANGED <<row, stop>>, row[e] = "streaming",
           send'[e].at = "done", \A m \in Turns : m # e => send'[m].at = send[m].at,
           \A q \in Queues : ~Ended(q, e)',
           \A q, r \in Queues : ~(InChannel(q, e)' /\ InHand(r, e)'),
           \A q \in Queues, p \in Callers : Withdrawn(p, e)' => ~InChannel(q, e)' /\ ~InHand(q, e)',
           \A p, r \in Callers : Withdrawn(p, e)' /\ Withdrawn(r, e)' => p = r,
           \/ \E q \in Queues : InChannel(q, e)' \/ InHand(q, e)'
           \/ \E p \in Callers : Withdrawn(p, e)',
           \A m \in Turns, q \in Queues : m # e => /\ (InChannel(q, m)' <=> InChannel(q, m))
                                                   /\ (InHand(q, m)' <=> InHand(q, m))
                                                   /\ (Ended(q, m)' => Ended(q, m)),
           \A m \in Turns, p \in Callers : m # e => (Withdrawn(p, m)' <=> Withdrawn(p, m))
    PROVE  Owned' /\ Kept'
<1>1. \A m \in Turns : m # e => (Sending(m)' <=> Sending(m))
  BY DEF Sending
<1>2. Owned /\ Kept /\ ~Sending(e)'
  BY DEF Sound, Sending
<1>3. Owned'
  BY <1>1, <1>2 DEF Owned
<1> QED
  BY <1>1, <1>2, <1>3 DEF Kept

\* A Send: it opens its row, and hands it over or ends it.
LEMMA SendOwned ==
    ASSUME Sound, NEW m \in Turns, Open(m) \/ Sender(m)
    PROVE  Owned' /\ Kept'
<1>1. /\ send \in [Turns -> SendRecord] /\ row \in [Turns -> Rows]
      /\ runner \in [Queues -> RunnerRecord] /\ queue \in [Queues -> QueueRecord]
  BY Parts DEF Sound
<1>2. \A n \in Turns : send[n].at \in SendStates
  BY <1>1 DEF SendRecord
<1>3. Owned
  BY DEF Sound
<1>4. ASSUME UNCHANGED <<queue, runner, call>>
      PROVE  /\ \A n \in Turns, q \in Queues : /\ (InChannel(q, n)' <=> InChannel(q, n))
                                               /\ (InHand(q, n)' <=> InHand(q, n))
                                               /\ (Ended(q, n)' <=> Ended(q, n))
             /\ \A n \in Turns, p \in Callers : Withdrawn(p, n)' <=> Withdrawn(p, n)
  BY <1>4 DEF InChannel, InHand, Ended, Withdrawn
<1>5. CASE Open(m)
  <2>1. /\ UNCHANGED <<queue, runner, call, stop>> /\ send[m].at = "new" /\ row[m] = "none"
        /\ row'[m] = "streaming" /\ \A n \in Turns : n # m => row'[n] = row[n]
        /\ send'[m].at = "open" /\ \A n \in Turns : n # m => send'[n] = send[n]
    BY <1>1, <1>3, <1>5 DEF Open, queues, Owned, SendRecord
  <2>2. Sending(m)' /\ \A n \in Turns : n # m => (Sending(n)' <=> Sending(n))
    BY <2>1 DEF Sending
  <2>3. Owned'
    BY <1>3, <1>4, <2>1, <2>2 DEF Owned
  <2> QED
    BY <1>4, <2>1, <2>2, <2>3 DEF Sound, Kept
<1>6. CASE GetQueue(m)
  <2>1. /\ \A n \in Turns : n # m => send'[n] = send[n]
        /\ send[m].at = "open" /\ send'[m].at = "offer"
    BY <1>1, <1>6 DEF GetQueue
  <2>2. queue' = queue /\ UNCHANGED <<row, stop, call>>
    BY <1>6 DEF GetQueue, queues, store
  <2>3. \A q \in Queues : runner'[q] = runner[q] \/ (runner[q].at = "unmade" /\ runner'[q].at = "idle")
    <3>1. CASE current # NoQueue
      BY <1>6, <3>1 DEF GetQueue
    <3>2. CASE current = NoQueue
      <4>1. made + 1 \in Queues /\ made + 1 > made /\ runner' = [runner EXCEPT ![made + 1] = Idle]
        BY <1>6, <3>2, Parts DEF GetQueue, Sound
      <4>2. runner[made + 1].at = "unmade" /\ Idle.at = "idle"
        BY <4>1, Records DEF Sound, Shape
      <4> QED
        BY <1>1, <4>1, <4>2
    <3> QED
      BY <3>1, <3>2
  <2>4. /\ \A n \in Turns, q \in Queues : /\ (InChannel(q, n)' <=> InChannel(q, n))
                                          /\ (InHand(q, n)' <=> InHand(q, n))
                                          /\ (Ended(q, n)' => Ended(q, n))
        /\ \A n \in Turns, p \in Callers : Withdrawn(p, n)' <=> Withdrawn(p, n)
    BY <2>2, <2>3 DEF InChannel, InHand, Ended, Withdrawn, Before, After
  <2>5. \A n \in Turns : /\ (send'[n].at = "new" <=> send[n].at = "new")
                         /\ (send'[n].at = "done" <=> send[n].at = "done")
                         /\ send'[n].at \in SendStates
    BY <1>2, <2>1 DEF SendStates
  <2> QED
    BY <1>2, <2>2, <2>4, <2>5, StillOwned
<1>7. CASE Offer(m)
  <2>1. UNCHANGED <<row, runner, call, stop>> /\ send[m].at = "offer"
    BY <1>7 DEF Offer, store
  <2>2. ASSUME NEW a \in {"open", "refused"}, send' = [send EXCEPT ![m] = Left(a)], UNCHANGED queue
        PROVE  Owned' /\ Kept'
    <3>1. \A n \in Turns : /\ (send'[n].at = "new" <=> send[n].at = "new")
                           /\ (send'[n].at = "done" <=> send[n].at = "done")
                           /\ send'[n].at \in SendStates
      BY <1>1, <1>2, <2>1, <2>2 DEF Left, SendStates
    <3> QED
      BY <1>2, <1>4, <2>1, <2>2, <3>1, StillOwned
  <2>3. ASSUME Asked(m).ch = NoTurn, send' = [send EXCEPT ![m] = Left("done")],
               queue' = [queue EXCEPT ![send[m].q].ch = m]
        PROVE  Owned' /\ Kept'
    <3>1. PICK q \in Queues : q = send[m].q /\ queue[q].ch = NoTurn
      BY <2>1, <2>3 DEF Asked, Sound, Typed, Named
    <3>2. queue'[q].ch = m /\ \A r \in Queues : r # q => queue'[r] = queue[r]
      BY <1>1, <2>3, <3>1 DEF QueueRecord
    <3>3. \A n \in Turns, r \in Queues : n # m => (InChannel(r, n)' <=> InChannel(r, n))
      BY <3>1, <3>2, NoTurnAssumption DEF InChannel
    <3>4. /\ \A n \in Turns, r \in Queues : /\ (InHand(r, n)' <=> InHand(r, n))
                                            /\ (Ended(r, n)' <=> Ended(r, n))
          /\ \A n \in Turns, p \in Callers : Withdrawn(p, n)' <=> Withdrawn(p, n)
      BY <2>1 DEF InHand, Ended, Withdrawn
    <3>5. send'[m].at = "done" /\ \A n \in Turns : n # m => send'[n].at = send[n].at
      BY <1>1, <2>3 DEF Left
    <3>6. /\ row[m] = "streaming"
          /\ \A r \in Queues : ~InHand(r, m) /\ ~Ended(r, m)
          /\ \A p \in Callers : ~Withdrawn(p, m)
      BY <1>3, <2>1 DEF Owned, Sending
    <3>7. InChannel(q, m)'
      BY <3>2 DEF InChannel
    <3> QED
      BY <2>1, <3>1, <3>3, <3>4, <3>5, <3>6, <3>7, Passes
  <2> QED
    BY <1>7, <2>2, <2>3 DEF Offer
<1>8. CASE Refuse(m)
  <2>1. /\ row' = [row EXCEPT ![m] = "error"] /\ UNCHANGED <<queue, runner, call, stop>>
        /\ send'[m].at = "done" /\ \A n \in Turns : n # m => send'[n].at = send[n].at
    BY <1>1, <1>8 DEF Refuse, queues, SendRecord
  <2>2. /\ \A q \in Queues : ~InChannel(q, m) /\ ~InHand(q, m)
        /\ \A p \in Callers : ~Withdrawn(p, m)
    BY <1>3, <1>8 DEF Refuse, Owned
  <2>3. "error" \in Rows \ {"streaming", "none"}
    BY DEF Rows
  <2> QED
    BY <1>4, <2>1, <2>2, <2>3, EndsTurn
<1> QED
  BY <1>5, <1>6, <1>7, <1>8 DEF Sender

\* A queue's goroutine: it takes a turn from the channel, works, and ends it.
LEMMA RunnerOwned ==
    ASSUME Sound, NEW q \in Queues,
           Runner(q) \/ Expire(q) \/ ActivateSkill(q) \/ Ask(q) \/ Panic(q) \/ Deadline(q)
    PROVE  Owned' /\ Kept'
<1> DEFINE Aside == \A r \in Queues : r # q => runner'[r] = runner[r]
           SameChannels == \A r \in Queues : queue'[r].ch = queue[r].ch
           Inert == UNCHANGED <<send, call, stop>>
<1>1. /\ send \in [Turns -> SendRecord] /\ row \in [Turns -> Rows]
      /\ runner \in [Queues -> RunnerRecord] /\ queue \in [Queues -> QueueRecord]
      /\ \A m \in Turns : send[m].at \in SendStates
  BY Parts DEF Sound, SendRecord
<1>2. Owned
  BY DEF Sound
<1>3. ASSUME Inert, UNCHANGED row, Aside, SameChannels,
             \/ runner'[q].turn = runner[q].turn /\ runner[q].at \in Before /\ runner'[q].at \in Before
             \/ runner'[q].turn = runner[q].turn /\ runner[q].at \in After /\ runner'[q].at \in After
             \/ runner[q].at \notin Before /\ runner'[q].at \notin Before \cup After
      PROVE  Owned' /\ Kept'
  <2>1. \A m \in Turns, r \in Queues : /\ (InChannel(r, m)' <=> InChannel(r, m))
                                       /\ (InHand(r, m)' <=> InHand(r, m))
                                       /\ (Ended(r, m)' => Ended(r, m))
    BY <1>3 DEF InChannel, InHand, Ended, Before, After
  <2>2. \A m \in Turns, p \in Callers : Withdrawn(p, m)' <=> Withdrawn(p, m)
    BY <1>3 DEF Withdrawn
  <2> QED
    BY <1>1, <1>3, <2>1, <2>2, StillOwned
<1>4. ASSUME NEW a \in Steps, Move(q, a)
      PROVE  Aside /\ runner'[q].at = a /\ runner'[q].turn = runner[q].turn
  BY <1>1, <1>4 DEF Move, RunnerRecord
<1>5. UNCHANGED queue => SameChannels
  OBVIOUS
<1>6. ASSUME \/ \E v \in BOOLEAN : SetRunning(q, v)
             \/ \E m \in Maybe : queue' = [queue EXCEPT ![q].cancel = m]
             \/ queue' = [queue EXCEPT ![q].dead = TRUE]
             \/ queue' = [queue EXCEPT ![q].running = FALSE, ![q].cancel = NoTurn]
      PROVE  SameChannels
  <2>1. \A r \in Queues : r # q => queue'[r] = queue[r]
    BY <1>6, QueueEffects DEF Sound
  <2>2. queue'[q].ch = queue[q].ch
    BY <1>6, QueueViews DEF Sound
  <2> QED
    BY <2>1, <2>2
\* The turn in the channel comes into the goroutine's hands.
<1>7. ASSUME queue[q].ch # NoTurn, runner[q].at \in {"idle", "expired"}, Inert, UNCHANGED row,
             runner' = [runner EXCEPT ![q] = [at |-> "got", turn |-> queue[q].ch]],
             queue' = [queue EXCEPT ![q].ch = NoTurn]
      PROVE  Owned' /\ Kept'
  <2>1. PICK e \in Turns : queue[q].ch = e
    BY <1>1, <1>7 DEF QueueRecord, Maybe
  <2>2. /\ runner'[q] = [at |-> "got", turn |-> e] /\ Aside
        /\ queue'[q].ch = NoTurn /\ \A r \in Queues : r # q => queue'[r] = queue[r]
    BY <1>1, <1>7, <2>1 DEF QueueRecord
  <2>3. \A r \in Queues : queue'[r].ch # e
    <3>1. \A r \in Queues : queue[r].ch # NoTurn => r = q
      BY <1>7, Alone DEF Sound
    <3> QED
      BY <2>2, <3>1, NoTurnAssumption
  <2>4. /\ row[e] = "streaming" /\ send[e].at = "done"
        /\ \A r \in Queues : ~InHand(r, e) /\ ~Ended(r, e)
        /\ \A p \in Callers : ~Withdrawn(p, e)
    BY <1>2, <2>1 DEF Owned, InChannel
  <2>5. InHand(q, e)' /\ \A r \in Queues : ~Ended(r, e)' /\ ~InChannel(r, e)'
    BY <2>2, <2>3, <2>4 DEF InHand, Ended, InChannel, Before, After
  <2>6. \A p \in Callers : ~Withdrawn(p, e)'
    BY <1>7, <2>4 DEF Withdrawn
  <2>7. \A m \in Turns, r \in Queues : m # e => /\ (InChannel(r, m)' <=> InChannel(r, m))
                                                /\ (InHand(r, m)' <=> InHand(r, m))
                                                /\ (Ended(r, m)' => Ended(r, m))
    BY <1>7, <2>1, <2>2, NoTurnAssumption DEF InHand, Ended, InChannel, Before, After
  <2>8. \A m \in Turns, p \in Callers : m # e => (Withdrawn(p, m)' <=> Withdrawn(p, m))
    BY <1>7 DEF Withdrawn
  <2> QED
    BY <1>7, <2>4, <2>5, <2>6, <2>7, <2>8, Passes
\* The turn in hand ends.
<1>8. ASSUME NEW s \in Rows \ {"streaming", "none"}, row' = [row EXCEPT ![Hold(q)] = s], Inert,
             UNCHANGED queue, NEW a \in After, Move(q, a), runner[q].at \in Before \cup After
      PROVE  Owned' /\ Kept'
  <2>1. PICK e \in Turns : runner[q].turn = e /\ Hold(q) = e
    BY <1>8 DEF Sound, Typed, Named, Hold
  <2>2. /\ send[e].at = "done"
        /\ \A r \in Queues : ~InChannel(r, e)
        /\ \A p \in Callers : ~Withdrawn(p, e)
    BY <1>2, <1>8, <2>1 DEF Owned, InHand, Ended
  <2>3. Aside /\ runner'[q].at = a /\ runner'[q].turn = e
    BY <1>4, <1>8, <2>1 DEF After, Steps
  <2>4. \A r \in Queues : r # q => runner[r].at \in {"unmade", "exited"}
    BY <1>8, Alone DEF Sound, Before, After
  <2>5. \A r \in Queues : ~InChannel(r, e)' /\ ~InHand(r, e)'
    BY <1>8, <2>2, <2>3, <2>4 DEF InChannel, InHand, Before, After
  <2>6. \A m \in Turns, r \in Queues : m # e => /\ (InChannel(r, m)' <=> InChannel(r, m))
                                                /\ (InHand(r, m)' <=> InHand(r, m))
                                                /\ (Ended(r, m)' => Ended(r, m))
    BY <1>8, <2>1, <2>3 DEF InHand, Ended, InChannel
  <2>7. \A m \in Turns, p \in Callers : Withdrawn(p, m)' <=> Withdrawn(p, m)
    BY <1>8 DEF Withdrawn
  <2>8. row' = [row EXCEPT ![e] = s]
    BY <1>8, <2>1
  <2> QED
    BY <1>8, <2>2, <2>5, <2>6, <2>7, <2>8, EndsTurn
<1> HIDE DEF Aside, SameChannels
<1>9. CASE Dequeue(q)
  BY <1>7, <1>9 DEF Dequeue, store
<1>10. CASE ExitOnStop(q)
  <2>1. Aside /\ runner'[q].at = "exited"
    BY <1>1, <1>10, Records DEF ExitOnStop, Aside
  <2> QED
    BY <1>3, <1>5, <1>10, <2>1 DEF ExitOnStop, store, queues, Before, After
<1>11. CASE TearDown(q)
  <2>1. CASE queue[q].ch # NoTurn
    BY <1>7, <1>11, <2>1 DEF TearDown, store
  <2>2. CASE queue[q].ch = NoTurn
    <3>1. Aside /\ runner'[q].at = "exited"
      BY <1>1, <1>11, <2>2, Records DEF TearDown, Aside
    <3> QED
      BY <1>3, <1>6, <1>11, <2>2, <3>1 DEF TearDown, store, Before, After
  <2> QED
    BY <2>1, <2>2
<1>12. CASE Take(q)
  BY <1>3, <1>4, <1>6, <1>12 DEF Take, store, Before, Steps
<1>13. CASE Register(q)
  <2>1. Hold(q) \in Maybe
    BY <1>13 DEF Register, Sound, Typed, Named, Before, Maybe, Hold
  <2>2. SameChannels
    BY <1>6, <1>13, <2>1 DEF Register
  <2> QED
    BY <1>3, <1>4, <1>13, <2>2 DEF Register, store, Before, Steps
<1>14. CASE Load(q)
  BY <1>3, <1>4, <1>5, <1>14 DEF Load, store, queues, Before, Steps
<1>15. CASE FailTurn(q)
  BY <1>8, <1>15 DEF FailTurn, queues, Before, After, Rows
<1>16. CASE Answered(q)
  BY <1>3, <1>4, <1>5, <1>16 DEF Answered, store, queues, Before, Steps
<1>17. CASE Aborted(q)
  BY <1>3, <1>4, <1>5, <1>17 DEF Aborted, store, queues, Before, Steps
<1>18. CASE Release(q)
  BY <1>3, <1>4, <1>6, <1>18 DEF Release, store, After, Steps
<1>19. CASE EndTail(q)
  BY <1>3, <1>4, <1>5, <1>19 DEF EndTail, store, queues, After, Steps
<1>20. CASE Rest(q)
  <2>1. Aside /\ runner'[q].at = "idle" /\ SameChannels
    BY <1>1, <1>6, <1>20, Records DEF Rest, Aside
  <2> QED
    BY <1>3, <1>20, <2>1 DEF Rest, store, Before, After
<1>21. ASSUME NEW s \in Rows, Finalize(q, s) PROVE Owned' /\ Kept'
  BY <1>8, <1>21 DEF Finalize, queues, Before, After, Rows
<1>22. CASE Expire(q)
  BY <1>3, <1>4, <1>5, <1>22 DEF Expire, store, queues, Before, After, Steps
<1>23. CASE Ask(q)
  BY <1>3, <1>4, <1>5, <1>23 DEF Ask, store, queues, Before, Steps
<1>24. CASE Panic(q)
  BY <1>8, <1>24 DEF Panic, queues, Before, After, Rows
<1>25. CASE Deadline(q)
  <2>1. Aside /\ SameChannels
    BY <1>25 DEF Deadline, queues, Aside, SameChannels
  <2> QED
    BY <1>3, <1>25, <2>1 DEF Deadline, store, Before, After
<1>26. CASE ActivateSkill(q)
  <2>1. Aside /\ SameChannels
    BY <1>26 DEF ActivateSkill, queues, Aside, SameChannels
  <2> QED
    BY <1>3, <1>26, <2>1 DEF ActivateSkill, store, Before, After
<1> QED
  BY <1>9, <1>10, <1>11, <1>12, <1>13, <1>14, <1>15, <1>16, <1>17, <1>18, <1>19, <1>20, <1>21,
     <1>22, <1>23, <1>24, <1>25, <1>26 DEF Runner

\* A Cancel or a Delete: it takes a turn from the channel and ends it.
LEMMA CallOwned ==
    ASSUME Sound, NEW p \in Callers,
           Caller(p) \/ \E op \in {"cancel", "delete"} : Begin(p, op)
    PROVE  Owned' /\ Kept'
<1> DEFINE Others == \A r \in Callers : r # p => call'[r] = call[r]
           Inert == UNCHANGED <<send, runner, stop>>
<1>1. /\ call \in [Callers -> CallRecord] /\ queue \in [Queues -> QueueRecord]
      /\ \A m \in Turns : send[m].at \in SendStates
  BY Parts DEF Sound, SendRecord
<1>2. Owned
  BY DEF Sound
<1>3. ASSUME NEW c, Continue(p, c) PROVE Others /\ call'[p] = c
  BY <1>1, <1>3 DEF Continue
<1>4. ASSUME Inert, UNCHANGED <<row, queue>>, Others, call[p].at # "finalize", call'[p].at # "finalize"
      PROVE  Owned' /\ Kept'
  <2>1. \A m \in Turns, r \in Callers : Withdrawn(r, m)' <=> Withdrawn(r, m)
    BY <1>4 DEF Withdrawn
  <2>2. \A m \in Turns, r \in Queues : /\ (InChannel(r, m)' <=> InChannel(r, m))
                                       /\ (InHand(r, m)' <=> InHand(r, m))
                                       /\ (Ended(r, m)' => Ended(r, m))
    BY <1>4 DEF InChannel, InHand, Ended
  <2> QED
    BY <1>1, <1>4, <2>1, <2>2, StillOwned
<1> HIDE DEF Others
<1>5. call[p] \in CallRecord
  BY <1>1
<1>6. ASSUME NEW op \in {"cancel", "delete"}, Begin(p, op) PROVE Owned' /\ Kept'
  <2>1. Others /\ call'[p].at # "finalize"
    BY <1>3, <1>6 DEF Begin
  <2> QED
    BY <1>4, <1>6, <2>1 DEF Begin, store, queues
<1>7. CASE CancelRunning(p)
  <2>1. Others /\ call'[p].at = "drain"
    BY <1>3, <1>5, <1>7 DEF CancelRunning, CallRecord
  <2> QED
    BY <1>4, <1>7, <2>1 DEF CancelRunning, store, queues
<1>8. CASE Drained(p)
  <2>1. Others /\ call'[p].at = "drained"
    BY <1>3, <1>5, <1>8 DEF Drained, CallRecord
  <2> QED
    BY <1>4, <1>8, <2>1 DEF Drained, store, queues
<1>9. CASE Return(p)
  <2>1. Others /\ call'[p].at # "finalize"
    BY <1>3, <1>5, <1>9, Records DEF Return, CallRecord
  <2> QED
    BY <1>4, <1>9, <2>1 DEF Return, store, queues
<1>10. CASE SoftDelete(p)
  <2>1. Others /\ call'[p].at # "finalize"
    BY <1>3, <1>10, Records DEF SoftDelete
  <2> QED
    BY <1>4, <1>10, <2>1 DEF SoftDelete, queues
<1>11. CASE DrainOne(p)
  <2>1. PICK q \in Queues : q = call[p].q /\ queue[q].ch # NoTurn
    BY <1>11 DEF DrainOne, Sound, Typed, Named
  <2>2. PICK e \in Turns : queue[q].ch = e
    BY <1>1, <2>1 DEF QueueRecord, Maybe
  <2>3. /\ call'[p].at = "finalize" /\ call'[p].turn = e /\ Others
        /\ queue'[q].ch = NoTurn /\ \A r \in Queues : r # q => queue'[r] = queue[r]
    <3>1. Others /\ call'[p] = [call[p] EXCEPT !.at = "finalize", !.turn = e]
      BY <1>3, <1>11, <2>1, <2>2 DEF DrainOne
    <3> QED
      BY <1>1, <1>5, <1>11, <2>1, <3>1 DEF DrainOne, QueueRecord, CallRecord
  <2>4. /\ row[e] = "streaming" /\ send[e].at = "done"
        /\ \A r \in Queues : ~InHand(r, e) /\ ~Ended(r, e)
        /\ \A r \in Callers : ~Withdrawn(r, e)
    BY <1>2, <2>2 DEF Owned, InChannel
  <2>5. \A r \in Queues : queue'[r].ch # e
    <3>1. \A r \in Queues : queue[r].ch # NoTurn => r = q
      BY <2>1, Alone DEF Sound
    <3> QED
      BY <2>3, <3>1, NoTurnAssumption
  <2>6. UNCHANGED <<row, stop, send, runner>>
    BY <1>11 DEF DrainOne, store
  <2>7. \A r \in Queues : ~InChannel(r, e)' /\ ~InHand(r, e)' /\ ~Ended(r, e)'
    BY <2>4, <2>5, <2>6 DEF InChannel, InHand, Ended
  <2>8. Withdrawn(p, e)' /\ \A r \in Callers : Withdrawn(r, e)' => r = p
    BY <2>3, <2>4 DEF Withdrawn, Others
  <2>9. \A m \in Turns, r \in Queues : m # e => /\ (InChannel(r, m)' <=> InChannel(r, m))
                                                /\ (InHand(r, m)' <=> InHand(r, m))
                                                /\ (Ended(r, m)' => Ended(r, m))
    BY <2>2, <2>3, <2>6, NoTurnAssumption DEF InChannel, InHand, Ended
  <2>10. \A m \in Turns, r \in Callers : m # e => (Withdrawn(r, m)' <=> Withdrawn(r, m))
    BY <1>11, <2>3 DEF Withdrawn, Others, DrainOne
  <2> QED
    BY <2>4, <2>6, <2>7, <2>8, <2>9, <2>10, Passes
<1>12. CASE FinalizeCancelled(p)
  <2>1. PICK e \in Turns : call[p].turn = e
    BY <1>12 DEF FinalizeCancelled, Sound, Typed, Named
  <2>2. /\ row' = [row EXCEPT ![e] = "cancelled"] /\ UNCHANGED <<queue, runner, send, stop>>
        /\ Others /\ call'[p].at = "drain"
    <3>1. Others /\ call'[p] = [call[p] EXCEPT !.at = "drain", !.turn = NoTurn]
      BY <1>3, <1>12 DEF FinalizeCancelled
    <3> QED
      BY <1>5, <1>12, <2>1, <3>1 DEF FinalizeCancelled, queues, CallRecord
  <2>3. /\ send[e].at = "done"
        /\ \A r \in Queues : ~InChannel(r, e) /\ ~InHand(r, e)
        /\ \A r \in Callers : r # p => ~Withdrawn(r, e)
    BY <1>2, <1>12, <2>1 DEF Owned, Withdrawn, FinalizeCancelled
  <2>4. \A r \in Callers : ~Withdrawn(r, e)'
    BY <2>2, <2>3 DEF Withdrawn, Others
  <2>5. \A m \in Turns, r \in Queues : /\ (InChannel(r, m)' <=> InChannel(r, m))
                                       /\ (InHand(r, m)' <=> InHand(r, m))
                                       /\ (Ended(r, m)' => Ended(r, m))
    BY <2>2 DEF InChannel, InHand, Ended
  <2>6. \A m \in Turns, r \in Callers : m # e => (Withdrawn(r, m)' <=> Withdrawn(r, m))
    BY <2>1, <2>2 DEF Withdrawn, Others
  <2>7. "cancelled" \in Rows \ {"streaming", "none"}
    BY DEF Rows
  <2> QED
    BY <2>2, <2>3, <2>4, <2>5, <2>6, <2>7, EndsTurn
<1> QED
  BY <1>6, <1>7, <1>8, <1>9, <1>10, <1>11, <1>12 DEF Caller

LEMMA NextOwned == ASSUME Sound, [Next]_vars PROVE Owned' /\ Kept'
<1>1. \A m \in Turns : send[m].at \in SendStates
  BY Parts DEF Sound, SendRecord
<1>2. ASSUME UNCHANGED <<row, queue, runner, send, call>>, stop' = "up" => stop = "up" PROVE Owned' /\ Kept'
  <2>1. \A m \in Turns, q \in Queues : /\ (InChannel(q, m)' <=> InChannel(q, m))
                                       /\ (InHand(q, m)' <=> InHand(q, m))
                                       /\ (Ended(q, m)' => Ended(q, m))
    BY <1>2 DEF InChannel, InHand, Ended
  <2>2. \A m \in Turns, p \in Callers : Withdrawn(p, m)' <=> Withdrawn(p, m)
    BY <1>2 DEF Withdrawn
  <2> QED
    BY <1>1, <1>2, <2>1, <2>2, StillOwned
<1>3. CASE UNCHANGED vars
  BY <1>2, <1>3 DEF vars, store, queues
<1>4. CASE \E m \in Turns : Open(m) \/ Sender(m)
  BY <1>4, SendOwned
<1>5. CASE \E q \in Queues : Runner(q) \/ Expire(q) \/ ActivateSkill(q) \/ Ask(q) \/ Panic(q) \/ Deadline(q)
  BY <1>5, RunnerOwned
<1>6. CASE \E p \in Callers : Caller(p) \/ \E op \in {"cancel", "delete"} : Begin(p, op)
  BY <1>6, CallOwned
<1>7. CASE \E m \in Turns, a \in Answers : Resolve(m, a)
  BY <1>2, <1>7 DEF Resolve, store, queues
<1>8. CASE CloseStop \/ CancelAll
  BY <1>2, <1>8 DEF CloseStop, CancelAll, store, queues
<1>9. CASE CrashAndBoot
  <2>1. Restart
    BY <1>9 DEF CrashAndBoot
  <2>2. /\ \A q \in Queues : runner'[q].at = "unmade" /\ queue'[q].ch = NoTurn
        /\ \A p \in Callers : call'[p].at = "idle"
    BY <2>1, Records DEF Restart
  <2>3. \A m \in Turns : IF send[m].at = "new" THEN send'[m].at = "new" ELSE send'[m].at = "done"
    BY <2>1, Records DEF Restart, SendStates
  <2>4. \A m \in Turns : row'[m] = IF row[m] = "streaming" THEN "cancelled" ELSE row[m]
    BY <1>9 DEF CrashAndBoot
  <2>5. \A m \in Turns : send[m].at = "new" => row[m] = "none"
    BY DEF Sound, Owned
  <2> QED
    BY <2>2, <2>3, <2>4, <2>5, NoTurnAssumption
       DEF Owned, Kept, InChannel, InHand, Ended, Withdrawn, Sending, Before, After
<1> QED
  BY <1>3, <1>4, <1>5, <1>6, <1>7, <1>8, <1>9 DEF Next

LEMMA SoundInvariant == Spec => []Sound
<1>1. Init => Sound
  BY InitType, InitShape, InitOwned DEF Sound
<1>2. Sound /\ [Next]_vars => Sound'
  BY NextType, NextShape, NextOwned DEF Sound
<1> QED
  BY <1>1, <1>2, PTL DEF Spec

\* No row streams without somebody who will end it (NothingStranded; chat.go
\* enqueue and runner.go runQueue's teardown).
THEOREM NothingLost == Spec => []NothingStranded
<1>1. ASSUME Sound PROVE NothingStranded
  <2>1. \A q \in Queues, m \in Turns : InChannel(q, m) /\ stop = "up" =>
           runner[q].at \notin {"unmade", "exited"}
    BY <1>1, Alone, NoTurnAssumption DEF InChannel, Sound, Shape
  <2> QED
    BY <1>1, <2>1 DEF Sound, Kept, NothingStranded, Sending, InChannel, InHand, Withdrawn
<1> QED
  BY <1>1, SoundInvariant, PTL

\* A turn in hand is open: what was refused, withdrawn or ended is never
\* generated (RunsOpenTurns; chat.go Cancel).
THEOREM OnlyOpenTurns == Spec => []RunsOpenTurns
<1>1. ASSUME Sound PROVE RunsOpenTurns
  <2>1. \A q \in Queues : runner[q].at \in Before => Hold(q) \in Turns /\ InHand(q, Hold(q))
    BY <1>1 DEF Sound, Typed, Named, Hold, InHand
  <2> QED
    BY <1>1, <2>1 DEF Sound, Owned, RunsOpenTurns, Before
<1> QED
  BY <1>1, SoundInvariant, PTL

-----------------------------------------------------------------------------
(***************************************************************************)
(* The human-in-the-loop gate.                                             *)
(***************************************************************************)
Prompted == \A m \in pending : \E q \in Queues : runner[q].at = "asking" /\ runner[q].turn = m

\* The steps after a turn's dangerous tool.
PastTool == {"resume", "final", "tail", "ended"}

\* The turn's own queue had a skill that pre-approves the tool, and still has it.
Excused(m) == \E q \in skilled : runner[q].turn = m /\ runner[q].at \in PastTool

Gated ==
    /\ allowed => vouched
    /\ \A m \in Turns : answer[m] = "approve_always" => vouched
    /\ \A m \in ran : vouched \/ answer[m] \in {"approve", "approve_always"} \/ Excused(m)

\* A goroutine that steps is the only one, so a prompt is its own.
LEMMA RunnerPrompted ==
    ASSUME Sound, Prompted, NEW q \in Queues,
           Runner(q) \/ Expire(q) \/ ActivateSkill(q) \/ Ask(q) \/ Panic(q) \/ Deadline(q)
    PROVE  Prompted'
<1>1. runner \in [Queues -> RunnerRecord]
  BY Parts DEF Sound
<1>2. ASSUME runner[q].at \notin {"unmade", "exited"}
      PROVE  \A m \in pending : runner[q].at = "asking" /\ runner[q].turn = m
  <2>1. \A r \in Queues : runner[r].at = "asking" => r = q
    BY <1>2, Alone DEF Sound
  <2> QED
    BY <2>1 DEF Prompted
<1>3. CASE Ask(q)
  <2>1. pending = {}
    BY <1>2, <1>3 DEF Ask
  <2>2. CASE allowed \/ q \in skilled
    BY <1>3, <2>1, <2>2 DEF Ask, Prompted
  <2>3. CASE ~(allowed \/ q \in skilled)
    <3>1. pending' = {runner[q].turn} /\ runner'[q].at = "asking" /\ runner'[q].turn = runner[q].turn
      BY <1>1, <1>3, <2>1, <2>3 DEF Ask, Move, Hold, RunnerRecord
    <3> QED
      BY <3>1 DEF Prompted
  <2> QED
    BY <2>2, <2>3
<1>4. CASE Answered(q) \/ Aborted(q)
  <2>1. pending' = {}
    BY <1>2, <1>4 DEF Answered, Aborted, Hold
  <2> QED
    BY <2>1 DEF Prompted
<1>5. CASE Deadline(q) \/ ActivateSkill(q)
  BY <1>5 DEF Deadline, ActivateSkill, broker, Prompted
<1>6. CASE ~(Ask(q) \/ Answered(q) \/ Aborted(q) \/ Deadline(q) \/ ActivateSkill(q))
  <2>1. pending' = pending /\ runner[q].at \notin {"unmade", "exited", "asking"}
    BY <1>6 DEF Runner, Dequeue, ExitOnStop, TearDown, Take, Register, Load, FailTurn, Release,
                EndTail, Rest, Finalize, Expire, Panic, broker
  <2> QED
    BY <1>2, <2>1 DEF Prompted
<1> QED
  BY <1>3, <1>4, <1>5, <1>6

LEMMA NextPrompted == ASSUME Sound, Prompted, [Next]_vars PROVE Prompted'
<1>1. ASSUME UNCHANGED <<pending, runner>> PROVE Prompted'
  BY <1>1 DEF Prompted
<1>2. CASE UNCHANGED vars
  BY <1>1, <1>2 DEF vars, broker
<1>3. ASSUME NEW m \in Turns, GetQueue(m) PROVE Prompted'
  <2>1. CASE current # NoQueue
    BY <1>1, <1>3, <2>1 DEF GetQueue, broker
  <2>2. CASE current = NoQueue
    <3>1. \A q \in Queues : runner[q].at # "asking"
      BY <2>2, Alone DEF Sound
    <3> QED
      BY <1>3, <3>1 DEF Prompted, GetQueue, broker
  <2> QED
    BY <2>1, <2>2
<1>4. ASSUME NEW m \in Turns, Open(m) \/ Offer(m) \/ Refuse(m) PROVE Prompted'
  BY <1>1, <1>4 DEF Open, Offer, Refuse, broker
<1>5. CASE \E q \in Queues : Runner(q) \/ Expire(q) \/ ActivateSkill(q) \/ Ask(q) \/ Panic(q) \/ Deadline(q)
  BY <1>5, RunnerPrompted
<1>6. CASE \E p \in Callers : Caller(p) \/ \E op \in {"cancel", "delete"} : Begin(p, op)
  BY <1>1, <1>6 DEF Caller, CancelRunning, DrainOne, FinalizeCancelled, Drained, Return, SoftDelete,
                    Begin, broker
<1>7. CASE \E m \in Turns, a \in Answers : Resolve(m, a)
  BY <1>1, <1>7 DEF Resolve
<1>8. CASE CloseStop \/ CancelAll
  BY <1>1, <1>8 DEF CloseStop, CancelAll, broker
<1>9. CASE CrashAndBoot
  BY <1>9 DEF CrashAndBoot, Restart, Prompted
<1> QED
  BY <1>2, <1>3, <1>4, <1>5, <1>6, <1>7, <1>8, <1>9 DEF Next, Sender

\* A prompt on show belongs to the turn that waits for it (PromptsAreLive;
\* humanloop.go Request).
THEOREM PromptsLive == Spec => []PromptsAreLive
<1>1. Init => Prompted
  BY DEF Init, Prompted
<1>2. Sound /\ Prompted /\ [Next]_vars => Prompted'
  BY NextPrompted
<1>3. ASSUME Sound, Prompted PROVE PromptsAreLive
  <2>1. runner \in [Queues -> RunnerRecord]
    BY <1>3, Parts DEF Sound
  <2> QED
    BY <1>3, <2>1 DEF Prompted, PromptsAreLive, RunnerRecord
<1> QED
  BY <1>1, <1>2, <1>3, SoundInvariant, PTL DEF Spec

\* A goroutine that has run its tool is past the step where skills are activated.
LEMMA ExcusesStay ==
    ASSUME Sound, NEW q \in Queues,
           Runner(q) \/ Expire(q) \/ ActivateSkill(q) \/ Ask(q) \/ Panic(q) \/ Deadline(q)
    PROVE  \A m \in Turns : Excused(m) /\ (Rest(q) => m # Hold(q)) => Excused(m)'
<1> DEFINE Past(r) == r \in skilled /\ runner[r].at \in PastTool
<1>1. runner \in [Queues -> RunnerRecord] /\ skilled \in SUBSET Queues
  BY Parts DEF Sound
<1>2. ASSUME \A r \in Queues : Past(r) => /\ r \in skilled' /\ runner'[r].at \in PastTool
                                          /\ runner'[r].turn = runner[r].turn
      PROVE  \A m \in Turns : Excused(m) => Excused(m)'
  BY <1>1, <1>2 DEF Excused
<1>3. ASSUME NEW a \in Steps, Move(q, a), skilled' = skilled,
             runner[q].at \in PastTool => a \in PastTool
      PROVE  \A m \in Turns : Excused(m) => Excused(m)'
  <2>1. \A r \in Queues : /\ runner'[r].turn = runner[r].turn
                          /\ runner'[r].at = IF r = q THEN a ELSE runner[r].at
    BY <1>1, <1>3 DEF Move, RunnerRecord
  <2> QED
    BY <1>2, <1>3, <2>1
<1>4. ASSUME \A r \in Queues : r # q => runner'[r] = runner[r], skilled' = skilled,
             runner[q].at \notin PastTool
      PROVE  \A m \in Turns : Excused(m) => Excused(m)'
  BY <1>2, <1>4
<1> HIDE DEF Past
<1>5. CASE Rest(q)
  <2>1. \A r \in Queues : r # q => runner'[r] = runner[r]
    BY <1>1, <1>5 DEF Rest
  <2> QED
    BY <1>1, <1>5, <2>1 DEF Rest, Excused, Hold
<1>6. CASE ActivateSkill(q)
  <2>1. /\ runner[q].at \notin PastTool /\ runner' = runner
        /\ skilled' \in {skilled \cup {q}, skilled \ {q}}
    BY <1>6 DEF ActivateSkill, PastTool
  <2>2. \A r \in Queues : Past(r) => r \in skilled'
    BY <2>1 DEF Past
  <2> QED
    BY <1>2, <2>1, <2>2 DEF Past
<1>7. CASE Deadline(q)
  BY <1>2, <1>7 DEF Deadline, broker, Past
<1>8. ASSUME NEW s \in Rows, Finalize(q, s) PROVE \A m \in Turns : Excused(m) => Excused(m)'
  BY <1>3, <1>8 DEF Finalize, broker, PastTool, Steps
<1>9. CASE Panic(q) \/ Ask(q) \/ Answered(q) \/ Aborted(q)
  BY <1>3, <1>9 DEF Panic, Ask, Answered, Aborted, broker, PastTool, Steps
<1>10. CASE Expire(q) \/ Take(q) \/ Register(q) \/ Load(q) \/ FailTurn(q) \/ Release(q) \/ EndTail(q)
  BY <1>3, <1>10 DEF Expire, Take, Register, Load, FailTurn, Release, EndTail, broker, PastTool, Steps
<1>11. CASE Dequeue(q) \/ ExitOnStop(q) \/ TearDown(q)
  BY <1>1, <1>4, <1>11 DEF Dequeue, ExitOnStop, TearDown, broker, PastTool
<1> QED
  BY <1>5, <1>6, <1>7, <1>8, <1>9, <1>10, <1>11 DEF Runner

LEMMA NextGated == ASSUME Sound, Gated, [Next]_vars PROVE Gated'
<1>1. answer \in [Turns -> Answers] /\ ran \in SUBSET Turns /\ runner \in [Queues -> RunnerRecord]
  BY Parts DEF Sound
<1>2. ASSUME UNCHANGED <<ran, vouched, answer>>, allowed' => allowed,
             \A m \in Turns : Excused(m) => Excused(m)'
      PROVE  Gated'
  BY <1>1, <1>2 DEF Gated
<1>3. UNCHANGED <<runner, skilled>> => \A m \in Turns : Excused(m) => Excused(m)'
  BY DEF Excused
<1>4. CASE UNCHANGED vars
  BY <1>2, <1>3, <1>4 DEF vars, broker, ghosts
<1>5. ASSUME NEW m \in Turns, Open(m) \/ Offer(m) \/ Refuse(m) PROVE Gated'
  BY <1>2, <1>3, <1>5 DEF Open, Offer, Refuse, broker, ghosts
<1>6. ASSUME NEW m \in Turns, GetQueue(m) PROVE Gated'
  <2>1. CASE current # NoQueue
    BY <1>2, <1>3, <1>6, <2>1 DEF GetQueue, broker, ghosts
  <2>2. CASE current = NoQueue
    <3>1. \A q \in Queues : runner[q].at \notin PastTool
      BY <2>2, Alone DEF Sound, PastTool
    <3>2. \A n \in Turns : ~Excused(n)
      BY <3>1, Parts DEF Excused, Sound
    <3> QED
      BY <1>2, <1>6, <3>2 DEF GetQueue, broker, ghosts
  <2> QED
    BY <2>1, <2>2
<1>7. ASSUME NEW q \in Queues, Ask(q) PROVE Gated'
  <2>1. \A m \in Turns : Excused(m) => Excused(m)'
    BY <1>7, ExcusesStay DEF Ask, Rest
  <2>2. UNCHANGED <<vouched, answer, allowed>>
    BY <1>7 DEF Ask
  <2>3. CASE q \in skilled
    <3>1. PICK n : n = Hold(q)
      OBVIOUS
    <3>2. /\ runner'[q].at \in PastTool /\ runner'[q].turn = n /\ ran' = ran \cup {n}
          /\ skilled' = skilled
      BY <1>1, <1>7, <2>3, <3>1 DEF Ask, Move, Hold, RunnerRecord, PastTool
    <3>3. Excused(n)'
      BY <2>3, <3>2 DEF Excused
    <3>4. \A m \in ran' : m = n \/ m \in ran
      BY <3>2
    <3> QED
      BY <1>1, <2>1, <2>2, <3>3, <3>4 DEF Gated
  <2>4. CASE q \notin skilled
    <3>1. ran' = ran \/ allowed
      BY <1>7, <2>4 DEF Ask
    <3> QED
      BY <1>1, <2>1, <2>2, <3>1 DEF Gated
  <2> QED
    BY <2>3, <2>4
<1>8. ASSUME NEW q \in Queues, Answered(q) PROVE Gated'
  <2>1. Hold(q) \in Turns /\ answer[Hold(q)] \in {"approve", "approve_always", "deny"}
    BY <1>1, <1>8 DEF Answered, Sound, Typed, Named, Hold, Before, Answers
  <2>2. \A m \in Turns : Excused(m) => Excused(m)'
    BY <1>8, ExcusesStay DEF Runner, Answered, Rest
  <2> QED
    BY <1>1, <1>8, <2>1, <2>2 DEF Answered, Gated
<1>9. ASSUME NEW q \in Queues, Rest(q) PROVE Gated'
  <2>1. \A m \in Turns : m # Hold(q) => answer'[m] = answer[m]
    BY <1>1, <1>9 DEF Rest
  <2>2. \A m \in Turns : answer'[m] \in {answer[m], "none"}
    BY <1>1, <1>9 DEF Rest
  <2>3. UNCHANGED <<allowed, vouched>> /\ ran' = ran \ {Hold(q)}
    BY <1>9 DEF Rest
  <2>4. \A m \in Turns : m # Hold(q) /\ Excused(m) => Excused(m)'
    BY <1>9, ExcusesStay DEF Runner
  <2> QED
    BY <1>1, <2>1, <2>2, <2>3, <2>4 DEF Gated
<1>10. ASSUME NEW q \in Queues,
              Runner(q) \/ Expire(q) \/ ActivateSkill(q) \/ Panic(q) \/ Deadline(q),
              ~Answered(q), ~Rest(q)
       PROVE  Gated'
  <2>1. UNCHANGED <<ran, vouched, answer, allowed>>
    <3>1. CASE Aborted(q) \/ ActivateSkill(q)
      BY <3>1 DEF Aborted, ActivateSkill, ghosts
    <3>2. ASSUME NEW s \in Rows, Finalize(q, s) PROVE UNCHANGED <<ran, vouched, answer, allowed>>
      BY <3>2 DEF Finalize, broker, ghosts
    <3>3. CASE Expire(q) \/ Panic(q) \/ Deadline(q)
      BY <3>3 DEF Expire, Panic, Deadline, broker, ghosts
    <3>4. CASE Dequeue(q) \/ ExitOnStop(q) \/ TearDown(q) \/ Take(q) \/ Register(q) \/ Load(q)
      BY <3>4 DEF Dequeue, ExitOnStop, TearDown, Take, Register, Load, broker, ghosts
    <3>5. CASE FailTurn(q) \/ Release(q) \/ EndTail(q)
      BY <3>5 DEF FailTurn, Release, EndTail, broker, ghosts
    <3> QED
      BY <1>10, <3>1, <3>2, <3>3, <3>4, <3>5 DEF Runner
  <2>2. \A m \in Turns : Excused(m) => Excused(m)'
    BY <1>10, ExcusesStay
  <2> QED
    BY <1>2, <2>1, <2>2
<1>11. CASE \E p \in Callers : Caller(p) \/ \E op \in {"cancel", "delete"} : Begin(p, op)
  <2>1. UNCHANGED <<runner, skilled, ran, vouched, answer>> /\ (allowed' => allowed)
    BY <1>11 DEF Caller, CancelRunning, DrainOne, FinalizeCancelled, Drained, Return, SoftDelete,
                 Begin, broker, ghosts
  <2> QED
    BY <1>2, <1>3, <2>1
<1>12. ASSUME NEW m \in Turns, NEW a \in Answers, Resolve(m, a) PROVE Gated'
  <2>1. answer'[m] = a /\ \A n \in Turns : n # m => answer'[n] = answer[n]
    BY <1>1, <1>12 DEF Resolve
  <2>2. /\ answer[m] = "none" /\ UNCHANGED <<ran, allowed, runner, skilled>>
        /\ vouched' = (vouched \/ a = "approve_always")
    BY <1>12 DEF Resolve
  <2> QED
    BY <1>1, <1>3, <2>1, <2>2 DEF Gated
<1>13. CASE CloseStop \/ CancelAll
  BY <1>2, <1>3, <1>13 DEF CloseStop, CancelAll, broker, ghosts
<1>14. CASE CrashAndBoot
  BY <1>14 DEF CrashAndBoot, Restart, Gated
<1> QED
  BY <1>4, <1>5, <1>6, <1>7, <1>8, <1>9, <1>10, <1>11, <1>12, <1>13, <1>14 DEF Next, Sender

\* Whatever a turn reports as dangerous has run only on a human's word, or under
\* a skill active in that turn's queue (GatedToolsAskFirst; tools.go
\* dispatchWithGate and skillPreApproves, humanloop.go).
THEOREM GateHolds == Spec => []GatedToolsAskFirst
<1>1. Init => Gated
  BY DEF Init, Gated
<1>2. Sound /\ Gated /\ [Next]_vars => Gated'
  BY NextGated
<1>3. Sound /\ Gated => GatedToolsAskFirst
  BY Parts DEF Sound, Gated, GatedToolsAskFirst, Excused
<1> QED
  BY <1>1, <1>2, <1>3, SoundInvariant, PTL DEF Spec

-----------------------------------------------------------------------------
(***************************************************************************)
(* ChatMemory.  The thread only grows, a seq once given stays, and a new   *)
(* one is above all others; what a summary covers then follows from where  *)
(* its watermark stands.                                                   *)
(***************************************************************************)
Roles == {"user", "assistant", "subagent", "anchor"}
AgeNames == {"hot", "warm", "cold", "archived"}
MessageRecord == [role : Roles, seq : Nat, age : AgeNames, task : Nat]
TailSteps == {"tail", "summary", "demote", "summarize", "set", "archive", "anchor"}
Running == {"got", "load", "generate"}
TurnSteps == {"idle"} \cup Running \cup TailSteps
TurnRecord(S, R) == [at : TurnSteps, msg : S \cup {NoMessage}, row : R, seen : SUBSET S,
                     loaded : Nat, fold : SUBSET S]
PatchRecord(R) == [at : {"idle", "write"}, row : R]

LEMMA AgesAre == {Ages[k] : k \in DOMAIN Ages} = AgeNames
<1>1. DOMAIN Ages = 1..4 /\ Ages[1] = "hot" /\ Ages[2] = "warm" /\ Ages[3] = "cold"
        /\ Ages[4] = "archived"
  BY DEF Ages
<1>2. 1..4 = {1, 2, 3, 4}
  OBVIOUS
<1> QED
  BY <1>1, <1>2 DEF AgeNames

\* The parts of the type invariant, by name.
LEMMA MemoryParts ==
    ASSUME MemoryTypeOK
    PROVE  /\ thread \in Seq(MessageRecord) /\ Len(thread) \in Nat
           /\ Messages = 1..Len(thread) /\ Messages \subseteq Nat
           /\ \A i \in Messages : /\ thread[i] \in MessageRecord /\ thread[i].role \in Roles
                                  /\ thread[i].seq \in Nat /\ thread[i].age \in AgeNames
                                  /\ thread[i].task \in Nat
           /\ Row = [summary : SUBSET Messages, mark : Nat]
           /\ conv \in Row /\ patch \in PatchRecord(Row) /\ patch.row \in Row
           /\ turn \in TurnRecord(Messages, Row) /\ turn.row \in Row
           /\ opening \in Messages \cup {NoMessage} /\ slot \in Messages \cup {NoMessage}
           /\ busy = (turn.at \in {"load", "generate"})
           /\ slot # NoMessage => thread[slot].role = "assistant"
           /\ turn.msg # NoMessage => thread[turn.msg].role = "assistant"
           /\ late \subseteq Messages /\ undone \subseteq Messages
           /\ sends \in Nat /\ events \in Nat
<1>1. thread \in Seq(MessageRecord)
  BY AgesAre DEF MemoryTypeOK, MessageRecord, Roles
<1>2. Len(thread) \in Nat /\ DOMAIN thread = 1..Len(thread) /\ thread \in [1..Len(thread) -> MessageRecord]
  BY <1>1, LenProperties
<1>3. Messages = 1..Len(thread) /\ \A i \in Messages : thread[i] \in MessageRecord
  BY <1>2 DEF Messages
<1>4. \A m \in MessageRecord : m.role \in Roles /\ m.seq \in Nat /\ m.age \in AgeNames /\ m.task \in Nat
  BY DEF MessageRecord
<1>5. conv \in Row /\ patch \in PatchRecord(Row) /\ turn \in TurnRecord(Messages, Row)
  BY DEF MemoryTypeOK, PatchRecord, TurnRecord, TurnSteps, Running, TailSteps
<1>6. patch.row \in Row /\ turn.row \in Row
  BY <1>5 DEF PatchRecord, TurnRecord
<1>7. sends \in Nat /\ events \in Nat
  BY DEF MemoryTypeOK, limits
<1>8. Row = [summary : SUBSET Messages, mark : Nat]
  BY DEF Row
<1>9. /\ opening \in Messages \cup {NoMessage} /\ slot \in Messages \cup {NoMessage}
      /\ busy = (turn.at \in {"load", "generate"})
      /\ slot # NoMessage => thread[slot].role = "assistant"
      /\ turn.msg # NoMessage => thread[turn.msg].role = "assistant"
      /\ late \subseteq Messages /\ undone \subseteq Messages
  BY DEF MemoryTypeOK
<1>10. \A i \in Messages : /\ thread[i] \in MessageRecord /\ thread[i].role \in Roles
                           /\ thread[i].seq \in Nat /\ thread[i].age \in AgeNames
                           /\ thread[i].task \in Nat
  BY <1>3, <1>4
<1> QED
  BY <1>1, <1>2, <1>3, <1>5, <1>6, <1>7, <1>8, <1>9, <1>10

\* And back, for the state a step leads to.
LEMMA MemoryAssemble ==
    ASSUME thread' \in Seq(MessageRecord), conv' \in Row', patch' \in PatchRecord(Row'),
           turn' \in TurnRecord(Messages', Row'),
           opening' \in Messages' \cup {NoMessage}, slot' \in Messages' \cup {NoMessage},
           busy' = (turn'.at \in {"load", "generate"}),
           slot' # NoMessage => thread'[slot'].role = "assistant",
           turn'.msg # NoMessage => thread'[turn'.msg].role = "assistant",
           late' \subseteq Messages', undone' \subseteq Messages',
           sends' \in Nat, events' \in Nat
    PROVE  MemoryTypeOK'
<1>1. thread' \in Seq([role : {"user", "assistant", "subagent", "anchor"}, seq : Nat,
                       age : {Ages[k] : k \in DOMAIN Ages}, task : Nat])
  BY AgesAre DEF MessageRecord, Roles
<1>2. limits' \in Nat \X Nat
  BY DEF limits
<1>3. patch' \in [at : {"idle", "write"}, row : Row']
  BY DEF PatchRecord
<1>4. turn' \in [at : {"idle", "got", "load", "generate", "tail", "summary", "demote",
                       "summarize", "set", "archive", "anchor"},
                 msg : Messages' \cup {NoMessage}, row : Row', seen : SUBSET Messages',
                 loaded : Nat, fold : SUBSET Messages']
  BY DEF TurnRecord, TurnSteps, Running, TailSteps
<1> QED
  BY <1>1, <1>2, <1>3, <1>4 DEF MemoryTypeOK

-----------------------------------------------------------------------------
(* How the thread changes.                                                 *)

\* Some seq is the highest.
HasMax == \E s \in Seqs \cup {NoSeq} : \A r \in Seqs : r <= s

LEMMA NextSeqIsNew ==
    ASSUME MemoryTypeOK, HasMax
    PROVE  NextSeq \in Nat \ {0} /\ \A r \in Seqs \cup {NoSeq} : r \in Nat /\ r < NextSeq
<1>1. \A r \in Seqs \cup {NoSeq} : r \in Nat
  BY MemoryParts DEF Seqs, NoSeq
<1>2. PICK s \in Seqs \cup {NoSeq} : NextSeq = 1 + s /\ \A r \in Seqs : r <= s
  BY DEF HasMax, NextSeq
<1> QED
  BY <1>1, <1>2 DEF NoSeq

\* A message keeps its role, its task and the seq it has; a message that gets a
\* seq gets one above all others.
Grown ==
    /\ Len(thread') \in Nat /\ Len(thread) <= Len(thread') /\ Messages' = 1..Len(thread')
    /\ \A i \in Messages : /\ thread'[i].role = thread[i].role
                           /\ thread'[i].task = thread[i].task
                           /\ thread[i].seq # NoSeq => thread'[i].seq = thread[i].seq
    /\ \A i \in Messages' : \/ i \in Messages /\ thread'[i].seq = thread[i].seq
                            \/ thread'[i].seq = NoSeq
                            \/ \A r \in Seqs \cup {NoSeq} : r < thread'[i].seq

\* Of two messages the later one has the higher seq, unless it is known as late.
Ordered == \A i, j \in Messages :
    j < i /\ Spoken(i) /\ Spoken(j) /\ thread[i].seq <= thread[j].seq => i \in late

\* Nothing but ages changes.
Aged == /\ thread' \in Seq(MessageRecord) /\ Messages' = Messages /\ Len(thread') = Len(thread)
        /\ \A i \in Messages : /\ thread'[i].role = thread[i].role
                               /\ thread'[i].seq = thread[i].seq
                               /\ thread'[i].task = thread[i].task

LEMMA AgedGrows ==
    ASSUME MemoryTypeOK, HasMax, Ordered, Aged, late \subseteq late'
    PROVE  Grown /\ HasMax' /\ Ordered'
<1>1. Grown
  BY MemoryParts DEF Grown, Aged
<1>2. Seqs' = Seqs
  BY DEF Aged, Seqs
<1>3. HasMax'
  BY <1>2 DEF HasMax
<1>4. Ordered'
  BY DEF Ordered, Aged, Spoken
<1> QED
  BY <1>1, <1>3, <1>4

\* A message is added, with no seq or with the next one.
Added(m) == /\ m \in MessageRecord /\ m.seq \in {NoSeq, NextSeq}
            /\ thread' = Append(thread, m)

LEMMA AddedIs ==
    ASSUME MemoryTypeOK, NEW m, Added(m)
    PROVE  /\ thread' \in Seq(MessageRecord) /\ Len(thread') = Len(thread) + 1
           /\ Messages' = 1..(Len(thread) + 1) /\ Messages' = Messages \cup {Len(thread) + 1}
           /\ Len(thread) + 1 \notin Messages
           /\ thread'[Len(thread) + 1] = m /\ \A i \in Messages : thread'[i] = thread[i]
<1>1. thread \in Seq(MessageRecord) /\ Len(thread) \in Nat /\ Messages = 1..Len(thread)
  BY MemoryParts
<1>2. thread' \in Seq(MessageRecord) /\ Len(thread') = Len(thread) + 1
        /\ thread'[Len(thread) + 1] = m /\ \A i \in 1..Len(thread) : thread'[i] = thread[i]
  BY <1>1, AppendProperties DEF Added
<1>3. Messages' = 1..(Len(thread) + 1)
  BY <1>1, <1>2, LenProperties DEF Messages
<1> QED
  BY <1>1, <1>2, <1>3

LEMMA AddedGrows ==
    ASSUME MemoryTypeOK, HasMax, Ordered, NEW m, Added(m), late \subseteq late',
           m.seq \in {NoSeq, NextSeq}
    PROVE  Grown /\ HasMax' /\ Ordered'
<1> DEFINE n == Len(thread) + 1
<1>1. /\ n \in Nat /\ Len(thread) \in Nat /\ n > Len(thread) /\ Messages = 1..Len(thread)
      /\ Messages' = Messages \cup {n} /\ Messages' = 1..n
      /\ Len(thread') = n /\ thread'[n] = m /\ \A i \in Messages : thread'[i] = thread[i] /\ i < n
  BY MemoryParts, AddedIs
<1>2. \A r \in Seqs \cup {NoSeq} : r \in Nat /\ r < NextSeq
  BY NextSeqIsNew
<1>3. NextSeq \in Nat \ {0} /\ NoSeq = 0
  BY NextSeqIsNew DEF NoSeq
<1> HIDE DEF n
<1>4. Grown
  BY <1>1, <1>2 DEF Grown
<1>5. Seqs' = Seqs \cup {m.seq}
  BY <1>1 DEF Seqs
<1>6. HasMax'
  <2>1. CASE m.seq = NextSeq
    BY <1>2, <1>3, <1>5, <2>1 DEF HasMax
  <2>2. CASE m.seq = NoSeq
    <3>1. PICK s \in Seqs \cup {NoSeq} : \A r \in Seqs : r <= s
      BY DEF HasMax
    <3>2. s \in Seqs' \cup {NoSeq} /\ \A r \in Seqs' : r <= s
      BY <1>2, <1>3, <1>5, <2>2, <3>1
    <3> QED
      BY <3>2 DEF HasMax
  <2> QED
    BY <2>1, <2>2
<1>7. Ordered'
  <2> SUFFICES ASSUME NEW i \in Messages', NEW j \in Messages', j < i, Spoken(i)', Spoken(j)',
                      thread'[i].seq <= thread'[j].seq
               PROVE  i \in late'
    BY DEF Ordered
  <2>1. j # n
    BY <1>1
  <2>2. CASE i = n
    <3>1. thread'[i].seq = NextSeq /\ j \in Messages /\ thread'[j].seq \in Seqs
      BY <1>1, <2>1, <2>2 DEF Spoken, Seqs
    <3> QED
      BY <1>2, <1>3, <3>1
  <2>3. CASE i # n
    BY <1>1, <2>1, <2>3 DEF Ordered, Spoken
  <2> QED
    BY <2>2, <2>3
<1> QED
  BY <1>4, <1>6, <1>7

\* The turn's message gets its seq when the turn ends.
Numbered(m) == m \in Messages /\ thread' = [thread EXCEPT ![m].seq = NextSeq]

LEMMA NumberedIs ==
    ASSUME MemoryTypeOK, HasMax, NEW m, Numbered(m)
    PROVE  /\ thread' \in Seq(MessageRecord) /\ Len(thread') = Len(thread) /\ Messages' = Messages
           /\ thread'[m].seq = NextSeq /\ thread'[m].role = thread[m].role
           /\ thread'[m].task = thread[m].task /\ thread'[m].age = thread[m].age
           /\ \A i \in Messages \ {m} : thread'[i] = thread[i]
<1>1. /\ thread \in Seq(MessageRecord) /\ Len(thread) \in Nat /\ Messages = 1..Len(thread)
      /\ m \in 1..Len(thread) /\ thread[m] \in MessageRecord
  BY MemoryParts DEF Numbered
<1>2. NextSeq \in Nat
  BY NextSeqIsNew
<1>3. PICK e : e = [thread[m] EXCEPT !.seq = NextSeq]
  OBVIOUS
<1>4. e \in MessageRecord /\ e.seq = NextSeq /\ e.role = thread[m].role /\ e.task = thread[m].task
        /\ e.age = thread[m].age
  BY <1>1, <1>2, <1>3 DEF MessageRecord
<1>5. thread' = [thread EXCEPT ![m] = e]
  BY <1>3 DEF Numbered
<1>6. /\ thread' \in Seq(MessageRecord) /\ Len(thread') = Len(thread)
      /\ \A j \in 1..Len(thread) : thread'[j] = IF j = m THEN e ELSE thread[j]
  BY <1>1, <1>4, <1>5, ExceptSeq
<1>7. Messages' = 1..Len(thread)
  BY <1>6, LenProperties DEF Messages
<1> QED
  BY <1>1, <1>4, <1>6, <1>7

LEMMA NumberedGrows ==
    ASSUME MemoryTypeOK, HasMax, Ordered, NEW m, Numbered(m), late' = late, thread[m].seq = NoSeq,
           \A i \in Messages : i > m /\ Spoken(i) => i \in late
    PROVE  Grown /\ HasMax' /\ Ordered'
<1>1. /\ Len(thread) \in Nat /\ Messages = 1..Len(thread) /\ m \in Messages
      /\ Messages' = Messages /\ Len(thread') = Len(thread)
      /\ thread'[m].seq = NextSeq /\ thread'[m].role = thread[m].role
      /\ thread'[m].task = thread[m].task
      /\ \A i \in Messages \ {m} : thread'[i] = thread[i]
  BY MemoryParts, NumberedIs DEF Numbered
<1>2. \A r \in Seqs \cup {NoSeq} : r \in Nat /\ r < NextSeq
  BY NextSeqIsNew
<1>3. NextSeq \in Nat \ {0} /\ NoSeq = 0
  BY NextSeqIsNew DEF NoSeq
<1>4. Grown
  BY <1>1, <1>2 DEF Grown
<1>5. Seqs' \subseteq Seqs \cup {NextSeq} /\ NextSeq \in Seqs'
  BY <1>1 DEF Seqs
<1>6. HasMax'
  BY <1>2, <1>3, <1>5 DEF HasMax
<1>7. Ordered'
  <2> SUFFICES ASSUME NEW i \in Messages', NEW j \in Messages', j < i, Spoken(i)', Spoken(j)',
                      thread'[i].seq <= thread'[j].seq
               PROVE  i \in late'
    BY DEF Ordered
  <2>1. CASE i = m
    <3>1. thread'[i].seq = NextSeq /\ j # m /\ thread'[j].seq \in Seqs
      BY <1>1, <2>1 DEF Seqs
    <3> QED
      BY <1>2, <1>3, <3>1
  <2>2. CASE i # m /\ j = m
    BY <1>1, <2>2 DEF Spoken
  <2>3. CASE i # m /\ j # m
    BY <1>1, <2>3 DEF Ordered, Spoken
  <2> QED
    BY <2>1, <2>2, <2>3
<1> QED
  BY <1>4, <1>6, <1>7

-----------------------------------------------------------------------------
(* What each step does to the turn in hand.                                *)

LEMMA RestingIs ==
    /\ Resting.at = "idle" /\ Resting.msg = NoMessage /\ Resting.row = EmptyRow
    /\ Resting.seen = {} /\ Resting.fold = {}
    /\ \A S : Resting \in TurnRecord(S, [summary : SUBSET S, mark : Nat])
  BY DEF Resting, EmptyRow, TurnRecord, TurnSteps, NoMessage

\* The turn's fields, by type.
LEMMA TurnParts ==
    ASSUME MemoryTypeOK
    PROVE  /\ turn.at \in TurnSteps /\ turn.msg \in Messages \cup {NoMessage}
           /\ turn.seen \in SUBSET Messages /\ turn.loaded \in Nat
           /\ turn.fold \in SUBSET Messages /\ turn.row \in Row
           /\ turn = [at |-> turn.at, msg |-> turn.msg, row |-> turn.row, seen |-> turn.seen,
                      loaded |-> turn.loaded, fold |-> turn.fold]
<1>1. turn \in TurnRecord(Messages, Row)
  BY MemoryParts
<1> QED
  BY <1>1 DEF TurnRecord

\* The turn goes on from `at` to `next` with everything but what is said unchanged.
Goes(at, next, m, R, S, n, F) ==
    /\ turn.at = at /\ turn' \in TurnRecord(Messages, Row)
    /\ turn'.at = next /\ turn'.msg = m /\ turn'.row = R /\ turn'.seen = S
    /\ turn'.loaded = n /\ turn'.fold = F

\* A pass over the thread looks at messages the thread has, and a summary is of
\* some message.
MemoryTyped ==
    /\ MemoryTypeOK
    /\ turn.at \in {"summary", "demote", "summarize", "set"} => turn.loaded <= Len(thread)
    /\ turn.at = "set" => turn.fold # {}

LEMMA FoldIs ==
    ASSUME MemoryTyped, turn.at = "summarize"
    PROVE  /\ Fold \in SUBSET Messages
           /\ Fold = {i \in Messages : /\ i + Protected <= turn.loaded
                                       /\ thread[i].role \in {"user", "assistant"}
                                       /\ thread[i].seq > turn.row.mark}
<1>1. turn.loaded <= Len(thread) /\ MemoryTypeOK
  BY DEF MemoryTyped
<1>2. Messages = 1..Len(thread) /\ Len(thread) \in Nat /\ turn.loaded \in Nat
  BY <1>1, MemoryParts, TurnParts
<1>3. Unprotected = {i \in Messages : i + Protected <= turn.loaded}
  BY <1>1, <1>2, ZonesAssumption DEF Unprotected
<1> QED
  BY <1>3 DEF Fold

LEMMA TurnDoes ==
    ASSUME MemoryTyped
    PROVE  /\ TakeTurn => /\ slot # NoMessage
                          /\ Goes("idle", "got", slot, turn.row, turn.seen, turn.loaded, turn.fold)
           /\ LoadConversation => Goes("got", "load", turn.msg, conv, turn.seen, turn.loaded, turn.fold)
           /\ LoadHistory => Goes("load", "generate", turn.msg, turn.row,
                                  {i \in Messages : Verbatim(i)}, turn.loaded, turn.fold)
           /\ GetSummary => Goes("summary", "demote", turn.msg, conv, turn.seen, turn.loaded, turn.fold)
           /\ LoadThread => \/ turn' = Resting
                            \/ Goes("tail", "summary", turn.msg, turn.row, turn.seen, Len(thread), turn.fold)
           /\ Demote => \/ turn' = Resting
                        \/ Goes("demote", "summarize", turn.msg, turn.row, turn.seen, turn.loaded, turn.fold)
           /\ Summarize => \/ turn' = Resting
                           \/ Fold # {} /\ Goes("summarize", "set", turn.msg, turn.row, turn.seen,
                                                turn.loaded, Fold)
           /\ \A words : WriteFinalize(words) => Goes("generate", "tail", NoMessage, EmptyRow, {}, 0, {})
           /\ SetSummary => \/ turn' = Resting
                            \/ Goes("set", "archive", NoMessage, EmptyRow, {}, 0, turn.fold)
           /\ Archive => Goes("archive", "anchor", NoMessage, EmptyRow, {}, 0, {})
<1> USE DEF MemoryTyped
<1>1. /\ turn.at \in TurnSteps /\ turn.msg \in Messages \cup {NoMessage}
      /\ turn.seen \in SUBSET Messages /\ turn.loaded \in Nat
      /\ turn.fold \in SUBSET Messages /\ turn.row \in Row /\ conv \in Row
      /\ slot \in Messages \cup {NoMessage} /\ Len(thread) \in Nat
  BY TurnParts, MemoryParts
<1>2. turn \in TurnRecord(Messages, Row)
  BY MemoryParts
<1>3. \A a \in {"got", "load", "generate", "tail", "summary", "demote", "summarize", "set",
                "archive", "anchor"} : a \in TurnSteps
  BY DEF TurnSteps, Running, TailSteps
<1>5. EmptyRow \in Row /\ {} \in SUBSET Messages /\ 0 \in Nat /\ {i \in Messages : Verbatim(i)} \in SUBSET Messages
  BY DEF EmptyRow, Row
<1>4. Resting \in TurnRecord(Messages, Row) /\ Resting.loaded = 0
  BY RestingIs DEF Row, Resting
<1>6. TakeTurn => slot # NoMessage
                  /\ Goes("idle", "got", slot, turn.row, turn.seen, turn.loaded, turn.fold)
  BY <1>1, <1>2, <1>3 DEF Goes, TurnRecord, TakeTurn
<1>7. LoadConversation => Goes("got", "load", turn.msg, conv, turn.seen, turn.loaded, turn.fold)
  BY <1>1, <1>2, <1>3 DEF Goes, TurnRecord, LoadConversation
<1>8. LoadHistory => Goes("load", "generate", turn.msg, turn.row,
                          {i \in Messages : Verbatim(i)}, turn.loaded, turn.fold)
  BY <1>1, <1>2, <1>3, <1>5 DEF Goes, TurnRecord, LoadHistory
<1>9. GetSummary => Goes("summary", "demote", turn.msg, conv, turn.seen, turn.loaded, turn.fold)
  BY <1>1, <1>2, <1>3 DEF Goes, TurnRecord, GetSummary
<1>10. LoadThread => \/ turn' = Resting
                     \/ Goes("tail", "summary", turn.msg, turn.row, turn.seen, Len(thread), turn.fold)
  BY <1>1, <1>2, <1>3 DEF Goes, TurnRecord, LoadThread, Retire
<1>11. Demote => \/ turn' = Resting
                 \/ Goes("demote", "summarize", turn.msg, turn.row, turn.seen, turn.loaded, turn.fold)
  BY <1>1, <1>2, <1>3 DEF Goes, TurnRecord, Demote, Retire, Proceed
<1>12. Summarize => \/ turn' = Resting
                    \/ Fold # {} /\ Goes("summarize", "set", turn.msg, turn.row, turn.seen,
                                         turn.loaded, Fold)
  <2>1. Summarize => turn.at = "summarize" /\ Fold \in SUBSET Messages
    BY FoldIs DEF Summarize
  <2> QED
    BY <1>1, <1>2, <1>3, <2>1 DEF Goes, TurnRecord, Summarize, Retire
\* What a turn that rests but for one field is.
<1>16. \A a \in TurnSteps :
          /\ [Resting EXCEPT !.at = a] \in TurnRecord(Messages, Row)
          /\ [Resting EXCEPT !.at = a].at = a /\ [Resting EXCEPT !.at = a].msg = NoMessage
          /\ [Resting EXCEPT !.at = a].row = EmptyRow /\ [Resting EXCEPT !.at = a].seen = {}
          /\ [Resting EXCEPT !.at = a].loaded = 0 /\ [Resting EXCEPT !.at = a].fold = {}
  BY <1>4, RestingIs, SMTT(30) DEF TurnRecord
<1>13. \A words : WriteFinalize(words) => Goes("generate", "tail", NoMessage, EmptyRow, {}, 0, {})
  BY <1>3, <1>16, SMTT(30) DEF Goes, WriteFinalize
<1>14. SetSummary => \/ turn' = Resting
                     \/ Goes("set", "archive", NoMessage, EmptyRow, {}, 0, turn.fold)
  <2> SUFFICES ASSUME turn.at = "set",
                      turn' = [Resting EXCEPT !.at = "archive", !.fold = turn.fold]
               PROVE  Goes("set", "archive", NoMessage, EmptyRow, {}, 0, turn.fold)
    BY DEF SetSummary, Retire
  <2>1. turn' \in TurnRecord(Messages, Row)
    <3>1. turn' = [at |-> "archive", msg |-> NoMessage, row |-> EmptyRow, seen |-> {},
                   loaded |-> 0, fold |-> turn.fold]
      BY ZenonT(60) DEF Resting
    <3>2. \A F \in SUBSET Messages :
             [at |-> "archive", msg |-> NoMessage, row |-> EmptyRow, seen |-> {},
              loaded |-> 0, fold |-> F] \in TurnRecord(Messages, Row)
      BY <1>3, <1>5 DEF TurnRecord
    <3> QED
      BY <1>1, <3>1, <3>2
  <2>2. turn'.at = "archive" /\ turn'.fold = turn.fold
    BY <1>4, SMTT(30) DEF TurnRecord
  <2>3. turn'.msg = Resting.msg /\ turn'.row = Resting.row
    BY <1>4, SMTT(30) DEF TurnRecord
  <2>4. turn'.seen = Resting.seen /\ turn'.loaded = Resting.loaded
    BY <1>4, SMTT(30) DEF TurnRecord
  <2> QED
    BY <1>4, <2>1, <2>2, <2>3, <2>4, RestingIs DEF Goes
<1>15. Archive => Goes("archive", "anchor", NoMessage, EmptyRow, {}, 0, {})
  BY <1>1, <1>3, <1>4, <1>5, RestingIs DEF Goes, TurnRecord, Archive
<1> QED
  BY <1>6, <1>7, <1>8, <1>9, <1>10, <1>11, <1>12, <1>13, <1>14, <1>15

\* Messages age without anything else, and none leaves the archive.
LEMMA DemotedAges ==
    ASSUME MemoryTyped, Demote
    PROVE  Aged /\ \A i \in Messages : thread'[i].age = "archived" => thread[i].age = "archived"
<1>1. MemoryTypeOK
  BY DEF MemoryTyped
<1>2. /\ thread \in Seq(MessageRecord) /\ Len(thread) \in Nat /\ Messages = 1..Len(thread)
      /\ \A i \in Messages : thread[i] \in MessageRecord
  BY <1>1, MemoryParts
<1>3. thread' = Demoted
  BY DEF Demote
<1>4. \A i \in Messages :
         /\ Demoted[i] \in MessageRecord
         /\ Demoted[i].role = thread[i].role /\ Demoted[i].seq = thread[i].seq
         /\ Demoted[i].task = thread[i].task
         /\ Demoted[i].age \in {thread[i].age, "warm", "cold"}
  <2> SUFFICES ASSUME NEW i \in Messages
               PROVE  /\ Demoted[i] \in MessageRecord
                      /\ Demoted[i].role = thread[i].role /\ Demoted[i].seq = thread[i].seq
                      /\ Demoted[i].task = thread[i].task
                      /\ Demoted[i].age \in {thread[i].age, "warm", "cold"}
    OBVIOUS
  <2>1. PICK age \in {"warm", "cold"} :
           Demoted[i] = thread[i] \/ Demoted[i] = [thread[i] EXCEPT !.age = age]
    BY DEF Demoted
  <2> QED
    BY <1>2, <2>1 DEF MessageRecord, AgeNames
<1>5. Demoted \in [1..Len(thread) -> MessageRecord]
  BY <1>2, <1>4 DEF Demoted
<1>6. thread' \in Seq(MessageRecord) /\ Len(thread') = Len(thread) /\ Messages' = Messages
  <2>1. thread' \in Seq(MessageRecord)
    BY <1>2, <1>3, <1>5, SeqDef
  <2>2. DOMAIN thread' = 1..Len(thread)
    BY <1>3, <1>5
  <2>3. Len(thread') \in Nat /\ DOMAIN thread' = 1..Len(thread')
    BY <2>1, LenProperties
  <2>4. Len(thread') = Len(thread)
    BY <1>2, <2>2, <2>3
  <2> QED
    BY <1>2, <2>1, <2>2, <2>4 DEF Messages
<1> QED
  BY <1>3, <1>4, <1>6 DEF Aged

LEMMA SetAgeAges ==
    ASSUME MemoryTyped, NEW S, SetAge(S, "archived")
    PROVE  Aged /\ \A i \in Messages : thread'[i].age = "archived" => thread[i].age = "archived" \/ i \in S
<1>1. MemoryTypeOK
  BY DEF MemoryTyped
<1>2. /\ thread \in Seq(MessageRecord) /\ Len(thread) \in Nat /\ Messages = 1..Len(thread)
      /\ \A i \in Messages : thread[i] \in MessageRecord
  BY <1>1, MemoryParts
<1>3. thread' = [i \in Messages |-> IF i \in S THEN [thread[i] EXCEPT !.age = "archived"]
                                               ELSE thread[i]]
  BY DEF SetAge
<1>4. \A i \in Messages :
         /\ thread'[i] \in MessageRecord
         /\ thread'[i].role = thread[i].role /\ thread'[i].seq = thread[i].seq
         /\ thread'[i].task = thread[i].task
         /\ thread'[i].age = thread[i].age \/ i \in S
  BY <1>2, <1>3 DEF MessageRecord, AgeNames
<1>5. thread' \in [1..Len(thread) -> MessageRecord]
  BY <1>2, <1>3, <1>4
<1>6. thread' \in Seq(MessageRecord) /\ Len(thread') = Len(thread) /\ Messages' = Messages
  <2>1. thread' \in Seq(MessageRecord)
    BY <1>2, <1>5, SeqDef
  <2>2. DOMAIN thread' = 1..Len(thread)
    BY <1>5
  <2>3. Len(thread') \in Nat /\ DOMAIN thread' = 1..Len(thread')
    BY <2>1, LenProperties
  <2>4. Len(thread') = Len(thread)
    BY <1>2, <2>2, <2>3
  <2> QED
    BY <1>2, <2>1, <2>2, <2>4 DEF Messages
<1> QED
  BY <1>4, <1>6 DEF Aged

LEMMA SameAges ==
    ASSUME MemoryTypeOK, thread' = thread
    PROVE  Aged
  BY MemoryParts DEF Aged, Messages

-----------------------------------------------------------------------------
(* The messages that wait for their turn, and what was said after them.    *)

\* The assistant's row of a turn to come or in hand: whatever was said after it
\* was made is known as late.
Fresh(m) ==
    /\ m \in Messages /\ thread[m].role = "assistant" /\ thread[m].seq = NoSeq
    /\ thread[m].task \in Messages /\ thread[m].task < m
    /\ thread[thread[m].task].role = "user"
    /\ \A i \in Messages : i > m /\ Spoken(i) => i \in late

PendingSound ==
    /\ slot # NoMessage => Fresh(slot)
    /\ turn.at \in Running => Fresh(turn.msg)
    /\ slot # NoMessage /\ turn.at \in Running => thread[slot].task > turn.msg
    /\ opening # NoMessage =>
         /\ opening \in Messages /\ thread[opening].role = "user"
         /\ slot # NoMessage => opening > slot
         /\ turn.at \in Running => opening > turn.msg

ThreadSound == MemoryTyped /\ HasMax /\ Ordered /\ PendingSound

LEMMA ThreadSoundParts ==
    ASSUME ThreadSound
    PROVE  MemoryTypeOK /\ MemoryTyped /\ HasMax /\ Ordered /\ PendingSound
  BY DEF ThreadSound, MemoryTyped

\* The messages the steps add.
LEMMA NewMessages ==
    ASSUME ThreadSound
    PROVE  /\ \A words \in BOOLEAN : SendUser(words) =>
                \E s \in {NoSeq, NextSeq} :
                   Added([role |-> "user", seq |-> s, age |-> "hot", task |-> NoMessage])
           /\ SendAssistant =>
                Added([role |-> "assistant", seq |-> NoSeq, age |-> "hot", task |-> opening])
           /\ Trace =>
                Added([role |-> "subagent", seq |-> NextSeq, age |-> "hot", task |-> NoMessage])
           /\ WriteAnchor =>
                \/ Added([role |-> "anchor", seq |-> NextSeq, age |-> "hot", task |-> NoMessage])
                \/ thread' = thread
           /\ \A words \in BOOLEAN : WriteFinalize(words) => Numbered(turn.msg) \/ thread' = thread
<1>1. NextSeq \in Nat /\ NoSeq \in Nat /\ NoMessage \in Nat /\ opening \in Nat
  <2>1. NextSeq \in Nat
    BY ThreadSoundParts, NextSeqIsNew
  <2>2. opening \in Nat
    BY ThreadSoundParts, MemoryParts DEF NoMessage
  <2> QED
    BY <2>1, <2>2 DEF NoSeq, NoMessage
<1>2. \A role \in Roles, s \in {NoSeq, NextSeq}, task \in Nat :
         [role |-> role, seq |-> s, age |-> "hot", task |-> task] \in MessageRecord
  BY <1>1 DEF MessageRecord, AgeNames
<1>3. {"user", "assistant", "subagent", "anchor"} = Roles
  BY DEF Roles
<1>4. \A words \in BOOLEAN : SendUser(words) =>
         \E s \in {NoSeq, NextSeq} :
            Added([role |-> "user", seq |-> s, age |-> "hot", task |-> NoMessage])
  BY <1>1, <1>2, <1>3 DEF Added, SendUser, Create
<1>5. SendAssistant =>
         Added([role |-> "assistant", seq |-> NoSeq, age |-> "hot", task |-> opening])
  BY <1>1, <1>2, <1>3 DEF Added, SendAssistant, Create
<1>6. Trace => Added([role |-> "subagent", seq |-> NextSeq, age |-> "hot", task |-> NoMessage])
  BY <1>1, <1>2, <1>3 DEF Added, Trace, Create
<1>7. WriteAnchor =>
         \/ Added([role |-> "anchor", seq |-> NextSeq, age |-> "hot", task |-> NoMessage])
         \/ thread' = thread
  BY <1>1, <1>2, <1>3 DEF Added, WriteAnchor, Create
<1>8. \A words \in BOOLEAN : WriteFinalize(words) => Numbered(turn.msg) \/ thread' = thread
  <2>1. turn.at = "generate" => turn.msg \in Messages
    BY ThreadSoundParts DEF PendingSound, Running, Fresh
  <2> QED
    BY <2>1 DEF WriteFinalize, Numbered
<1> QED
  BY <1>4, <1>5, <1>6, <1>7, <1>8

\* How each step changes the thread.
ThreadChanges ==
    \/ Aged
    \/ \E m \in MessageRecord : Added(m)
    \/ turn.at = "generate" /\ Numbered(turn.msg) /\ late' = late

LEMMA ThreadMoves ==
    ASSUME ThreadSound, [MemoryNext]_memoryVars
    PROVE  ThreadChanges /\ late \subseteq late' /\ undone \subseteq undone'
<1>1. MemoryTypeOK /\ MemoryTyped
  BY ThreadSoundParts
<1>2. thread' = thread => ThreadChanges
  BY <1>1, SameAges DEF ThreadChanges
<1>3. (\E m : Added(m)) => ThreadChanges
  BY DEF ThreadChanges, Added
<1>4. CASE \E words \in BOOLEAN : SendUser(words)
  BY <1>3, <1>4, NewMessages DEF SendUser
<1>5. CASE \E words \in BOOLEAN : WriteFinalize(words)
  BY <1>2, <1>5, NewMessages DEF WriteFinalize, ThreadChanges, exceptions
<1>6. CASE SendAssistant
  BY <1>3, <1>6, NewMessages DEF SendAssistant, exceptions
<1>7. CASE Trace
  BY <1>3, <1>7, NewMessages DEF Trace, exceptions
<1>8. CASE WriteAnchor
  BY <1>2, <1>3, <1>8, NewMessages DEF WriteAnchor, exceptions
<1>9. CASE Demote
  BY <1>1, <1>9, DemotedAges DEF Demote, exceptions, ThreadChanges
<1>10. CASE Archive
  BY <1>1, <1>2, <1>10, SetAgeAges DEF Archive, exceptions, ThreadChanges
<1>11. CASE WriteRow
  BY <1>2, <1>11 DEF WriteRow
<1>12. CASE TakeTurn \/ LoadConversation \/ LoadHistory \/ LoadThread \/ GetSummary \/ Summarize
            \/ SetSummary \/ ReadRow \/ Crash
  BY <1>2, <1>12 DEF TakeTurn, LoadConversation, LoadHistory, LoadThread, GetSummary, Summarize,
                     SetSummary, ReadRow, Crash, exceptions, tables
<1>13. CASE UNCHANGED memoryVars
  BY <1>2, <1>13 DEF memoryVars, tables, exceptions
<1> QED
  BY <1>4, <1>5, <1>6, <1>7, <1>8, <1>9, <1>10, <1>11, <1>12, <1>13 DEF MemoryNext

LEMMA ThreadGrows ==
    ASSUME ThreadSound, [MemoryNext]_memoryVars
    PROVE  /\ Grown /\ HasMax' /\ Ordered' /\ thread' \in Seq(MessageRecord)
           /\ Messages \subseteq Messages' /\ late \subseteq late' /\ undone \subseteq undone'
<1>1. MemoryTypeOK /\ HasMax /\ Ordered /\ PendingSound
  BY ThreadSoundParts
<1>2. ThreadChanges /\ late \subseteq late' /\ undone \subseteq undone'
  BY ThreadMoves
<1>3. Grown /\ HasMax' /\ Ordered' /\ thread' \in Seq(MessageRecord)
  <2>1. CASE Aged
    BY <1>1, <1>2, <2>1, AgedGrows DEF Aged
  <2>2. CASE \E m \in MessageRecord : Added(m)
    <3>1. PICK m \in MessageRecord : Added(m)
      BY <2>2
    <3> QED
      BY <1>1, <1>2, <3>1, AddedGrows, AddedIs DEF Added
  <2>3. CASE turn.at = "generate" /\ Numbered(turn.msg) /\ late' = late
    <3>1. PICK m : m = turn.msg
      OBVIOUS
    <3>2. Fresh(m) /\ Numbered(m)
      BY <1>1, <2>3, <3>1 DEF PendingSound, Running
    <3> QED
      BY <1>1, <2>3, <3>2, NumberedGrows, NumberedIs DEF Fresh
  <2> QED
    BY <1>2, <2>1, <2>2, <2>3 DEF ThreadChanges
<1>4. Messages \subseteq Messages'
  BY <1>1, <1>3, MemoryParts DEF Grown
<1> QED
  BY <1>2, <1>3, <1>4

-----------------------------------------------------------------------------
(* Types.                                                                  *)

LEMMA RowsGrow ==
    ASSUME MemoryTypeOK, Messages \subseteq Messages'
    PROVE  /\ Row \subseteq Row' /\ PatchRecord(Row) \subseteq PatchRecord(Row')
           /\ TurnRecord(Messages, Row) \subseteq TurnRecord(Messages', Row')
<1>1. Row \subseteq Row'
  BY DEF Row
<1>2. \A R, Q : R \subseteq Q => PatchRecord(R) \subseteq PatchRecord(Q)
  BY DEF PatchRecord
<1>3. \A S, U, R, Q : S \subseteq U /\ R \subseteq Q => TurnRecord(S, R) \subseteq TurnRecord(U, Q)
  BY DEF TurnRecord
<1> QED
  BY <1>1, <1>2, <1>3

\* What is enough for the types to hold after a step that grows the thread.
LEMMA TypedStep ==
    ASSUME MemoryTypeOK, Grown, thread' \in Seq(MessageRecord), Messages \subseteq Messages',
           turn' \in TurnRecord(Messages, Row), turn'.msg \in {turn.msg, slot, NoMessage},
           conv' \in Row, patch' \in PatchRecord(Row),
           opening' \in Messages' \cup {NoMessage},
           slot' \in {slot, NoMessage} \/ (slot' \in Messages' /\ thread'[slot'].role = "assistant"),
           busy' = (turn'.at \in {"load", "generate"}),
           late' \subseteq Messages', undone' \subseteq Messages', sends' \in Nat, events' \in Nat,
           turn'.at \in {"summary", "demote", "summarize", "set"} => turn'.loaded <= Len(thread),
           turn'.at = "set" => turn'.fold # {}
    PROVE  MemoryTyped'
<1>1. /\ Len(thread) \in Nat /\ slot \in Messages \cup {NoMessage}
      /\ slot # NoMessage => thread[slot].role = "assistant"
      /\ turn.msg # NoMessage => thread[turn.msg].role = "assistant"
      /\ turn.msg \in Messages \cup {NoMessage}
  BY MemoryParts, TurnParts
<1>2. \A i \in Messages : thread[i].role = "assistant" => thread'[i].role = "assistant"
  BY DEF Grown
<1>3. slot' \in Messages' \cup {NoMessage} /\ (slot' # NoMessage => thread'[slot'].role = "assistant")
  BY <1>1, <1>2
<1>4. turn'.msg # NoMessage => thread'[turn'.msg].role = "assistant"
  BY <1>1, <1>2
<1>5. conv' \in Row' /\ patch' \in PatchRecord(Row') /\ turn' \in TurnRecord(Messages', Row')
  BY RowsGrow
<1>6. MemoryTypeOK'
  BY <1>3, <1>4, <1>5, MemoryAssemble
<1>7. turn' \in TurnRecord(Messages, Row) => turn'.loaded \in Nat
  BY DEF TurnRecord
<1>8. turn'.at \in {"summary", "demote", "summarize", "set"} => turn'.loaded <= Len(thread')
  BY <1>1, <1>7 DEF Grown
<1> QED
  BY <1>6, <1>8 DEF MemoryTyped

-----------------------------------------------------------------------------
(* The new watermark.                                                      *)

\* A set of naturals that is not empty has a least element.
LEMMA Least ==
    ASSUME NEW T \in SUBSET Nat, T # {}
    PROVE  \E x \in T : \A y \in T : x <= y
<1> DEFINE R == {r \in Nat \X Nat : r[1] < r[2]}
<1>1. IsWellFoundedOn(R, Nat)
  BY NatLessThanWellFounded DEF OpToRel
<1> HIDE DEF R
<1>2. \E x \in T : \A y \in T : ~ (<<y, x>> \in R)
  BY <1>1, WFMin
<1>3. PICK x \in T : \A y \in T : <<y, x>> \notin R
  BY <1>2
<1>4. ASSUME NEW y \in T PROVE x <= y
  <2>1. x \in Nat /\ y \in Nat /\ <<y, x>> \notin R
    BY <1>3
  <2>2. ~ (y < x)
    BY <2>1 DEF R
  <2> QED
    BY <2>1, <2>2
<1> QED
  BY <1>4

\* And a greatest one, when it is bounded.
LEMMA Greatest ==
    ASSUME NEW T \in SUBSET Nat, T # {}, NEW n \in Nat, \A t \in T : t <= n
    PROVE  \E x \in T : \A y \in T : y <= x
<1> DEFINE U == {m \in Nat : \A t \in T : t <= m}
<1>1. PICK m \in U : \A k \in U : m <= k
  BY Least
<1>2. CASE m \in T
  BY <1>1, <1>2
<1>3. CASE m \notin T
  <2>1. \A t \in T : t < m
    BY <1>1, <1>3
  <2>2. m \in Nat /\ m - 1 \in Nat
    <3>1. PICK t \in T : TRUE
      OBVIOUS
    <3>2. t \in Nat /\ t < m /\ m \in Nat
      BY <1>1, <2>1
    <3> QED
      BY <3>2
  <2>3. m - 1 \in U
    BY <2>1, <2>2
  <2> QED
    BY <1>1, <2>2, <2>3
<1> QED
  BY <1>2, <1>3

LEMMA NewMarkIs ==
    ASSUME MemoryTypeOK, HasMax, turn.fold # {}
    PROVE  /\ NewMark \in Nat /\ \A i \in turn.fold : thread[i].seq <= NewMark
           /\ \E j \in turn.fold : thread[j].seq = NewMark
<1> DEFINE T == {thread[i].seq : i \in turn.fold}
<1>1. turn.fold \subseteq Messages /\ \A i \in Messages : thread[i].seq \in Nat
  BY TurnParts, MemoryParts
<1>2. T \in SUBSET Nat /\ T # {} /\ T \subseteq Seqs
  BY <1>1 DEF Seqs
<1>3. PICK s \in Seqs \cup {NoSeq} : \A r \in Seqs : r <= s
  BY DEF HasMax
<1>4. s \in Nat /\ \A t \in T : t <= s
  BY <1>1, <1>2, <1>3 DEF Seqs, NoSeq
<1>5. \E x \in T : \A y \in T : y <= x
  BY <1>2, <1>4, Greatest
<1>6. NewMark \in T /\ \A i \in turn.fold : thread[i].seq <= NewMark
  BY <1>5 DEF NewMark
<1> QED
  BY <1>2, <1>6

LEMMA MemoryInitTyped == MemoryInit => ThreadSound
<1> SUFFICES ASSUME MemoryInit
             PROVE  ThreadSound
  OBVIOUS
<1>1. thread = << >> /\ Messages = {} /\ Seqs = {}
  BY DEF MemoryInit, Messages, Seqs
<1>2. EmptyRow \in Row /\ NoPatch \in PatchRecord(Row)
  BY DEF EmptyRow, Row, NoPatch, PatchRecord
<1>3. Resting \in TurnRecord(Messages, Row)
  BY RestingIs DEF Row
<1>4. << >> \in Seq([role : {"user", "assistant", "subagent", "anchor"}, seq : Nat,
                     age : {Ages[k] : k \in DOMAIN Ages}, task : Nat])
  BY EmptySeq
<1>5. MemoryTypeOK
  <2>1. turn \in TurnRecord(Messages, Row) /\ patch \in PatchRecord(Row) /\ conv \in Row
    BY <1>2, <1>3 DEF MemoryInit
  <2>2. turn \in [at : {"idle", "got", "load", "generate", "tail", "summary", "demote",
                        "summarize", "set", "archive", "anchor"},
                  msg : Messages \cup {NoMessage}, row : Row, seen : SUBSET Messages,
                  loaded : Nat, fold : SUBSET Messages]
    BY <2>1 DEF TurnRecord, TurnSteps, Running, TailSteps
  <2>3. patch \in [at : {"idle", "write"}, row : Row]
    BY <2>1 DEF PatchRecord
  <2>4. /\ {opening, slot} \subseteq Messages \cup {NoMessage}
        /\ \A i \in {slot, turn.msg} : i # NoMessage => thread[i].role = "assistant"
        /\ late \subseteq Messages /\ undone \subseteq Messages
        /\ busy = FALSE /\ turn.at \notin {"load", "generate"}
    BY RestingIs DEF MemoryInit
  <2>7. busy = (turn.at \in {"load", "generate"})
    <3>1. (turn.at \in {"load", "generate"}) = FALSE
      BY <2>4
    <3> QED
      BY <2>4, <3>1
  <2>5. limits \in Nat \X Nat
    BY DEF MemoryInit, limits
  <2>6. thread \in Seq([role : {"user", "assistant", "subagent", "anchor"}, seq : Nat,
                       age : {Ages[k] : k \in DOMAIN Ages}, task : Nat])
    BY <1>1, <1>4
  <2> QED
    BY <2>1, <2>2, <2>3, <2>4, <2>5, <2>6, <2>7 DEF MemoryTypeOK
<1>6. MemoryTyped
  BY <1>5, RestingIs DEF MemoryTyped, MemoryInit
<1>7. HasMax /\ Ordered /\ PendingSound
  BY <1>1, RestingIs DEF HasMax, Ordered, PendingSound, MemoryInit, NoMessage, Running, NoSeq
<1> QED
  BY <1>6, <1>7 DEF ThreadSound

\* The types hold whatever the step.
LEMMA TypedNext ==
    ASSUME ThreadSound, [MemoryNext]_memoryVars
    PROVE  MemoryTyped'
<1>1. MemoryTypeOK /\ MemoryTyped
  BY ThreadSoundParts
<1>2. Grown /\ thread' \in Seq(MessageRecord) /\ Messages \subseteq Messages'
        /\ late \subseteq late' /\ undone \subseteq undone'
  BY ThreadGrows
<1>3. /\ turn \in TurnRecord(Messages, Row) /\ conv \in Row /\ patch \in PatchRecord(Row)
      /\ patch.row \in Row /\ Len(thread) \in Nat
      /\ opening \in Messages \cup {NoMessage} /\ slot \in Messages \cup {NoMessage}
      /\ busy = (turn.at \in {"load", "generate"})
      /\ late \subseteq Messages /\ undone \subseteq Messages /\ sends \in Nat /\ events \in Nat
  BY <1>1, MemoryParts
<1>4. /\ turn.msg \in Messages \cup {NoMessage} /\ turn.at \in TurnSteps /\ turn.loaded \in Nat
      /\ turn.fold \in SUBSET Messages /\ turn.row \in Row
  BY <1>1, TurnParts
<1>5. turn.at \in {"summary", "demote", "summarize", "set"} => turn.loaded <= Len(thread)
  BY <1>1 DEF MemoryTyped
<1>27. turn.at = "set" => turn.fold # {}
  BY <1>1 DEF MemoryTyped
<1>6. Resting \in TurnRecord(Messages, Row) /\ Resting.at = "idle" /\ Resting.msg = NoMessage
  BY RestingIs DEF Row
<1>7. sends + 1 \in Nat /\ events + 1 \in Nat
  BY <1>3
<1>8. late \subseteq Messages' /\ undone \subseteq Messages' /\ opening \in Messages' \cup {NoMessage}
  BY <1>2, <1>3
<1>9. CASE \E words \in BOOLEAN : SendUser(words)
  <2>1. \E m \in MessageRecord : Added(m)
    BY <1>9, NewMessages DEF Added
  <2>2. Len(thread) + 1 \in Messages'
    BY <1>1, <2>1, AddedIs
  <2> QED
    BY <1>1, <1>2, <1>3, <1>5, <1>27, <1>7, <1>8, <1>9, <2>2, TypedStep DEF SendUser, exceptions
<1>10. CASE SendAssistant
  <2>1. PICK m : m = [role |-> "assistant", seq |-> NoSeq, age |-> "hot", task |-> opening]
    OBVIOUS
  <2>2. Added(m)
    BY <1>10, <2>1, NewMessages
  <2>3. Len(thread) + 1 \in Messages' /\ thread'[Len(thread) + 1].role = "assistant"
    BY <1>1, <2>1, <2>2, AddedIs
  <2> QED
    BY <1>1, <1>2, <1>3, <1>5, <1>27, <1>8, <1>10, <2>3, TypedStep DEF SendAssistant, exceptions, limits
<1>11. CASE TakeTurn
  BY <1>1, <1>2, <1>3, <1>4, <1>8, <1>11, TurnDoes, TypedStep
  DEF TakeTurn, exceptions, limits, tables, Goes
<1>12. CASE LoadConversation
  BY <1>1, <1>2, <1>3, <1>4, <1>8, <1>12, TurnDoes, TypedStep
  DEF LoadConversation, exceptions, limits, tables, Goes
<1>13. CASE LoadHistory
  BY <1>1, <1>2, <1>3, <1>4, <1>8, <1>13, TurnDoes, TypedStep
  DEF LoadHistory, exceptions, limits, tables, intake, Goes
<1>14. CASE Trace
  BY <1>1, <1>2, <1>3, <1>5, <1>27, <1>7, <1>8, <1>14, TypedStep DEF Trace, exceptions, intake
<1>15. CASE \E words \in BOOLEAN : WriteFinalize(words)
  <2>1. PICK words \in BOOLEAN : WriteFinalize(words)
    BY <1>15
  <2>2. Goes("generate", "tail", NoMessage, EmptyRow, {}, 0, {})
    BY <1>1, <2>1, TurnDoes
  <2>3. /\ turn' \in TurnRecord(Messages, Row) /\ turn'.msg = NoMessage
        /\ busy' = FALSE /\ turn'.at \notin {"load", "generate"} /\ conv' = conv /\ patch' = patch
        /\ opening' = opening /\ slot' = slot /\ late' = late /\ undone' = undone
        /\ sends' = sends /\ events' = events
        /\ turn'.at \notin {"summary", "demote", "summarize", "set"}
    BY <2>1, <2>2 DEF WriteFinalize, exceptions, limits, Goes
  <2>4. busy' = (turn'.at \in {"load", "generate"})
    <3>1. (turn'.at \in {"load", "generate"}) = FALSE
      BY <2>3
    <3> QED
      BY <2>3, <3>1
  <2> QED
    BY <1>1, <1>2, <1>3, <1>8, <2>3, <2>4, TypedStep
<1>16. CASE LoadThread
  BY <1>1, <1>2, <1>3, <1>4, <1>6, <1>8, <1>16, TurnDoes, TypedStep
  DEF LoadThread, exceptions, limits, tables, intake, Goes
<1>17. CASE GetSummary
  BY <1>1, <1>2, <1>3, <1>4, <1>5, <1>27, <1>8, <1>17, TurnDoes, TypedStep
  DEF GetSummary, exceptions, limits, tables, intake, Goes
<1>18. CASE Demote
  BY <1>1, <1>2, <1>3, <1>4, <1>5, <1>27, <1>6, <1>8, <1>18, TurnDoes, TypedStep
  DEF Demote, exceptions, limits, tables, intake, Goes
<1>19. CASE Summarize
  BY <1>1, <1>2, <1>3, <1>4, <1>5, <1>27, <1>6, <1>8, <1>19, TurnDoes, TypedStep
  DEF Summarize, exceptions, limits, tables, intake, Goes
<1>20. CASE SetSummary
  <2>1. conv' \in Row
    BY <1>1, <1>3, <1>4, <1>20, <1>27, NewMarkIs, ThreadSoundParts DEF SetSummary, Row
  <2> QED
    BY <1>1, <1>2, <1>3, <1>4, <1>6, <1>8, <1>20, <2>1, TurnDoes, TypedStep
    DEF SetSummary, exceptions, limits, intake, Goes
<1>21. CASE Archive
  BY <1>1, <1>2, <1>3, <1>8, <1>21, TurnDoes, TypedStep
  DEF Archive, exceptions, limits, intake, Goes
<1>22. CASE WriteAnchor
  BY <1>1, <1>2, <1>3, <1>6, <1>8, <1>22, TypedStep DEF WriteAnchor, exceptions, limits, intake, Retire
<1>23. CASE ReadRow
  <2>1. patch' \in PatchRecord(Row)
    BY <1>3, <1>23 DEF ReadRow, PatchRecord
  <2> QED
    BY <1>1, <1>2, <1>3, <1>5, <1>27, <1>7, <1>8, <1>23, <2>1, TypedStep
    DEF ReadRow, exceptions, intake, tables
<1>24. CASE WriteRow
  <2>1. NoPatch \in PatchRecord(Row)
    BY DEF NoPatch, PatchRecord, EmptyRow, Row
  <2>2. conv.summary \subseteq Messages
    BY <1>3 DEF Row
  <2>3. undone' \subseteq Messages' /\ conv' \in Row /\ patch' \in PatchRecord(Row)
    BY <1>2, <1>3, <1>24, <2>1, <2>2 DEF WriteRow
  <2> QED
    BY <1>1, <1>2, <1>3, <1>5, <1>27, <1>8, <1>24, <2>3, TypedStep DEF WriteRow, intake, limits
<1>25. CASE Crash
  <2>1. NoPatch \in PatchRecord(Row)
    BY DEF NoPatch, PatchRecord, EmptyRow, Row
  <2>2. /\ turn' \in TurnRecord(Messages, Row) /\ turn'.msg = NoMessage
        /\ busy' = FALSE /\ turn'.at \notin {"load", "generate"} /\ conv' = conv /\ patch' = NoPatch
        /\ opening' = NoMessage /\ slot' = NoMessage /\ late' = late /\ undone' = undone
        /\ sends' = sends /\ events' \in Nat
        /\ turn'.at \notin {"summary", "demote", "summarize", "set"}
    BY <1>6, <1>7, <1>25 DEF Crash, exceptions, tables
  <2>3. busy' = (turn'.at \in {"load", "generate"})
    <3>1. (turn'.at \in {"load", "generate"}) = FALSE
      BY <2>2
    <3> QED
      BY <2>2, <3>1
  <2> QED
    BY <1>1, <1>2, <1>3, <1>8, <2>1, <2>2, <2>3, TypedStep
<1>26. CASE UNCHANGED memoryVars
  BY <1>1, <1>2, <1>3, <1>5, <1>27, <1>8, <1>26, TypedStep
  DEF memoryVars, tables, intake, exceptions, limits
<1> QED
  BY <1>9, <1>10, <1>11, <1>12, <1>13, <1>14, <1>15, <1>16, <1>17, <1>18, <1>19, <1>20, <1>21,
     <1>22, <1>23, <1>24, <1>25, <1>26 DEF MemoryNext

-----------------------------------------------------------------------------
(* A message that waits stays as it was until its turn ends.               *)

LEMMA FreshKeeps ==
    ASSUME ThreadSound, Grown, late \subseteq late', NEW m, Fresh(m), thread'[m].seq = NoSeq,
           \A i \in Messages' : i > m /\ Spoken(i)' => i \in late' \/ (i \in Messages /\ Spoken(i))
    PROVE  Fresh(m)'
<1>1. /\ Len(thread) \in Nat /\ Messages = 1..Len(thread)
      /\ \A i \in Messages : thread[i].task \in Nat
  BY ThreadSoundParts, MemoryParts
<1>2. Messages \subseteq Messages'
  BY <1>1 DEF Grown
<1>3. PICK t : t = thread[m].task
  OBVIOUS
<1>4. /\ m \in Messages /\ t \in Messages /\ t < m /\ thread'[m].task = t
      /\ thread'[t].role = "user" /\ thread'[m].role = "assistant"
  BY <1>3 DEF Fresh, Grown
<1> QED
  BY <1>2, <1>4 DEF Fresh

\* A step that adds no words said: what waits still does.
LEMMA QuietKeepsFresh ==
    ASSUME ThreadSound, Grown, late \subseteq late', NEW m, Fresh(m), thread'[m].seq = NoSeq,
           \A i \in Messages' : Spoken(i)' => i \in Messages /\ Spoken(i)
    PROVE  Fresh(m)'
  BY FreshKeeps

\* What a step says that is new.
LEMMA AgedSaysNothing ==
    ASSUME Aged
    PROVE  /\ \A i \in Messages' : Spoken(i)' => i \in Messages /\ Spoken(i)
           /\ \A i \in Messages : thread'[i].seq = thread[i].seq
  BY DEF Aged, Spoken

LEMMA AddedSays ==
    ASSUME ThreadSound, NEW m, Added(m)
    PROVE  /\ \A i \in Messages' : Spoken(i)' => (i \in Messages /\ Spoken(i)) \/ i = Len(thread) + 1
           /\ \A i \in Messages : thread'[i].seq = thread[i].seq
           /\ (m.role \notin {"user", "assistant"} \/ m.seq = NoSeq)
                => \A i \in Messages' : Spoken(i)' => i \in Messages /\ Spoken(i)
<1>1. /\ Messages' = Messages \cup {Len(thread) + 1} /\ thread'[Len(thread) + 1] = m
      /\ \A i \in Messages : thread'[i] = thread[i]
  BY ThreadSoundParts, AddedIs
<1> QED
  BY <1>1 DEF Spoken

LEMMA PendingNext ==
    ASSUME ThreadSound, [MemoryNext]_memoryVars
    PROVE  PendingSound'
<1>1. MemoryTypeOK /\ MemoryTyped /\ HasMax /\ PendingSound
  BY ThreadSoundParts
<1>2. Grown /\ Messages \subseteq Messages' /\ late \subseteq late'
  BY ThreadGrows
<1>3. PICK s, o, g : s = slot /\ o = opening /\ g = turn.msg
  OBVIOUS
<1>4. /\ slot # NoMessage => Fresh(s)
      /\ turn.at \in Running => Fresh(g)
      /\ slot # NoMessage /\ turn.at \in Running => thread[s].task > g
      /\ opening # NoMessage =>
           /\ o \in Messages /\ thread[o].role = "user"
           /\ slot # NoMessage => o > s
           /\ turn.at \in Running => o > g
  BY <1>1, <1>3 DEF PendingSound
<1>5. \A m \in Messages : thread'[m].role = thread[m].role /\ thread'[m].task = thread[m].task
  BY <1>2 DEF Grown
<1>6. slot # NoMessage => s \in Messages /\ thread[s].seq = NoSeq
  BY <1>4 DEF Fresh
<1>7. turn.at \in Running => g \in Messages /\ thread[g].seq = NoSeq
  BY <1>4 DEF Fresh
\* A step that says nothing new.
<1>8. ASSUME \A i \in Messages' : Spoken(i)' => i \in Messages /\ Spoken(i),
             \A i \in Messages : thread'[i].seq = thread[i].seq
      PROVE  /\ slot # NoMessage => Fresh(s)'
             /\ turn.at \in Running => Fresh(g)'
  BY <1>2, <1>4, <1>6, <1>7, <1>8, QuietKeepsFresh
<1>9. CASE \E words \in BOOLEAN : SendUser(words)
  <2>1. PICK words \in BOOLEAN : SendUser(words)
    BY <1>9
  <2>2. PICK w \in {NoSeq, NextSeq} :
           Added([role |-> "user", seq |-> w, age |-> "hot", task |-> NoMessage])
    BY <2>1, NewMessages
  <2>3. PICK m, n : m = [role |-> "user", seq |-> w, age |-> "hot", task |-> NoMessage]
                    /\ n = Len(thread) + 1
    OBVIOUS
  <2>4. /\ Added(m) /\ n \in Messages' /\ n \notin Messages /\ thread'[n] = m /\ m.role = "user"
        /\ n \in Nat /\ \A i \in Messages : i < n
    BY <1>1, <2>2, <2>3, AddedIs, MemoryParts
  <2>5. /\ \A i \in Messages' : Spoken(i)' => (i \in Messages /\ Spoken(i)) \/ i = n
        /\ \A i \in Messages : thread'[i].seq = thread[i].seq
    BY <2>3, <2>4, AddedSays
  <2>6. /\ opening' = n /\ slot' = slot /\ turn' = turn
        /\ slot # NoMessage \/ turn.at \in Running => n \in late'
    BY <2>1, <2>3 DEF SendUser, Running
  <2>7. slot # NoMessage => Fresh(s)'
    BY <1>2, <1>4, <1>6, <2>5, <2>6, FreshKeeps
  <2>8. turn.at \in Running => Fresh(g)'
    BY <1>2, <1>4, <1>7, <2>5, <2>6, FreshKeeps
  <2>9. slot # NoMessage /\ turn.at \in Running => thread'[s].task > g
    BY <1>4, <1>5, <1>6
  <2> QED
    BY <1>3, <1>6, <1>7, <2>4, <2>6, <2>7, <2>8, <2>9 DEF PendingSound
<1>10. CASE SendAssistant
  <2>1. PICK m, n : m = [role |-> "assistant", seq |-> NoSeq, age |-> "hot", task |-> o]
                    /\ n = Len(thread) + 1
    OBVIOUS
  <2>2. /\ Added(m) /\ n \in Messages' /\ n \notin Messages /\ thread'[n] = m
        /\ m.role = "assistant" /\ m.seq = NoSeq /\ m.task = o
        /\ n \in Nat /\ Messages' = Messages \cup {n} /\ \A i \in Messages : i < n
    BY <1>1, <1>3, <1>10, <2>1, NewMessages, AddedIs, MemoryParts
  <2>3. /\ \A i \in Messages' : Spoken(i)' => i \in Messages /\ Spoken(i)
        /\ \A i \in Messages : thread'[i].seq = thread[i].seq
    BY <2>2, AddedSays
  <2>4. /\ opening # NoMessage /\ opening' = NoMessage /\ turn' = turn
        /\ slot' = slot \/ (slot = NoMessage /\ slot' = n)
    BY <1>10, <2>1 DEF SendAssistant
  <2>5. Fresh(n)'
    <3>1. \A i \in Messages' : ~ (i > n)
      <4>1. Messages \subseteq Nat
        BY <1>1, MemoryParts
      <4> QED
        BY <2>2, <4>1
    <3>2. o \in Messages /\ o < n /\ o # n /\ thread'[o].role = "user"
      BY <1>4, <1>5, <2>2, <2>4
    <3> QED
      BY <1>2, <2>2, <3>1, <3>2 DEF Fresh
  <2>6. (slot # NoMessage => Fresh(s)') /\ (turn.at \in Running => Fresh(g)')
    BY <1>8, <2>3
  <2>7. slot # NoMessage /\ turn.at \in Running => thread'[s].task > g
    BY <1>4, <1>5, <1>6
  <2>8. turn.at \in Running => thread'[n].task > g
    BY <1>4, <2>2, <2>4
  <2> QED
    BY <1>3, <2>4, <2>5, <2>6, <2>7, <2>8 DEF PendingSound
<1>11. CASE \E words \in BOOLEAN : WriteFinalize(words)
  <2>1. PICK words \in BOOLEAN : WriteFinalize(words)
    BY <1>11
  <2>2. /\ turn.at = "generate" /\ turn'.at = "tail" /\ slot' = slot /\ opening' = opening
        /\ turn.at \in Running
    BY <1>1, <2>1, TurnDoes DEF Goes, WriteFinalize, Running
  <2>3. Numbered(turn.msg) \/ thread' = thread
    BY <2>1, NewMessages
  <2>4. /\ Messages' = Messages /\ \A i \in Messages \ {g} : thread'[i] = thread[i]
    BY <1>1, <1>3, <2>3, NumberedIs DEF Messages
  <2>5. slot # NoMessage => Fresh(s)'
    <3> SUFFICES ASSUME slot # NoMessage
                 PROVE  Fresh(s)'
      OBVIOUS
    <3>1. Fresh(s) /\ thread[s].task > g /\ s \in Messages /\ thread[s].seq = NoSeq
            /\ thread[s].task < s /\ thread[s].task \in Messages /\ g \in Messages
      BY <1>4, <1>6, <1>7, <2>2 DEF Fresh
    <3>2. s # g /\ s > g
      BY <1>1, <3>1, MemoryParts
    <3>3. thread'[s].seq = NoSeq
      BY <2>4, <3>1, <3>2
    <3>4. \A i \in Messages' : i > s /\ Spoken(i)' => i \in Messages /\ Spoken(i)
      <4>1. \A i \in Messages : i > s => i # g
        <5>1. Messages \subseteq Nat
          BY <1>1, MemoryParts
        <5> QED
          BY <3>1, <3>2, <5>1
      <4> QED
        BY <2>4, <4>1 DEF Spoken
    <3> QED
      BY <1>2, <3>1, <3>3, <3>4, FreshKeeps
  <2> QED
    BY <1>2, <1>3, <1>4, <1>5, <2>2, <2>5 DEF PendingSound, Running
<1>12. CASE TakeTurn
  <2>1. slot # NoMessage /\ slot' = NoMessage /\ turn'.msg = s /\ turn'.at = "got"
          /\ opening' = opening /\ thread' = thread
    BY <1>1, <1>3, <1>12, TurnDoes DEF Goes, TakeTurn, tables
  <2>2. Fresh(s)'
    BY <1>1, <1>8, <2>1, SameAges, AgedSaysNothing
  <2> QED
    BY <1>2, <1>3, <1>4, <1>5, <2>1, <2>2 DEF PendingSound
<1>13. CASE LoadConversation \/ LoadHistory
  <2>1. /\ turn.at \in Running /\ turn'.at \in Running /\ turn'.msg = g
        /\ slot' = slot /\ opening' = opening /\ thread' = thread
    BY <1>1, <1>3, <1>13, TurnDoes
    DEF Goes, LoadConversation, LoadHistory, tables, intake, Running
  <2>2. (slot # NoMessage => Fresh(s)') /\ (turn.at \in Running => Fresh(g)')
    BY <1>1, <1>8, <2>1, SameAges, AgedSaysNothing
  <2> QED
    BY <1>2, <1>3, <1>4, <1>5, <1>6, <2>1, <2>2 DEF PendingSound
<1>14. CASE LoadThread \/ GetSummary \/ Demote \/ Summarize \/ SetSummary \/ Archive \/ WriteAnchor
  <2>1. turn'.at \notin Running /\ slot' = slot /\ opening' = opening
    BY <1>1, <1>14, TurnDoes, RestingIs
    DEF Goes, LoadThread, GetSummary, Demote, Summarize, SetSummary, Archive, WriteAnchor, Retire,
        intake, Running
  <2>2. /\ \A i \in Messages' : Spoken(i)' => i \in Messages /\ Spoken(i)
        /\ \A i \in Messages : thread'[i].seq = thread[i].seq
    <3>1. CASE Aged
      BY <3>1, AgedSaysNothing
    <3>2. CASE Added([role |-> "anchor", seq |-> NextSeq, age |-> "hot", task |-> NoMessage])
      <4>1. PICK m : m = [role |-> "anchor", seq |-> NextSeq, age |-> "hot", task |-> NoMessage]
        OBVIOUS
      <4> QED
        BY <3>2, <4>1, AddedSays
    <3>3. CASE thread' = thread
      BY <1>1, <3>3, SameAges, AgedSaysNothing
    <3> QED
      BY <1>1, <1>14, <3>1, <3>2, <3>3, DemotedAges, SetAgeAges, NewMessages
      DEF LoadThread, GetSummary, Summarize, SetSummary, Archive, tables
  <2>3. slot # NoMessage => Fresh(s)'
    BY <1>8, <2>2
  <2> QED
    BY <1>2, <1>3, <1>4, <1>5, <2>1, <2>3 DEF PendingSound
<1>15. CASE Trace
  <2>1. /\ turn' = turn /\ slot' = slot /\ opening' = opening
    BY <1>15 DEF Trace, intake
  <2>2. PICK m : m = [role |-> "subagent", seq |-> NextSeq, age |-> "hot", task |-> NoMessage]
    OBVIOUS
  <2>3. /\ \A i \in Messages' : Spoken(i)' => i \in Messages /\ Spoken(i)
        /\ \A i \in Messages : thread'[i].seq = thread[i].seq
    BY <1>15, <2>2, NewMessages, AddedSays
  <2>4. (slot # NoMessage => Fresh(s)') /\ (turn.at \in Running => Fresh(g)')
    BY <1>8, <2>3
  <2> QED
    BY <1>2, <1>3, <1>4, <1>5, <1>6, <2>1, <2>4 DEF PendingSound
<1>16. CASE ReadRow \/ WriteRow \/ UNCHANGED memoryVars
  <2>1. turn' = turn /\ slot' = slot /\ opening' = opening /\ thread' = thread
    BY <1>16 DEF ReadRow, WriteRow, memoryVars, tables, intake
  <2>2. (slot # NoMessage => Fresh(s)') /\ (turn.at \in Running => Fresh(g)')
    BY <1>1, <1>8, <2>1, SameAges, AgedSaysNothing
  <2> QED
    BY <1>2, <1>3, <1>4, <1>5, <1>6, <2>1, <2>2 DEF PendingSound
<1>17. CASE Crash
  BY <1>17, RestingIs DEF Crash, PendingSound, Running
<1> QED
  BY <1>9, <1>10, <1>11, <1>12, <1>13, <1>14, <1>15, <1>16, <1>17 DEF MemoryNext

LEMMA ThreadSoundNext ==
    ASSUME ThreadSound, [MemoryNext]_memoryVars
    PROVE  ThreadSound'
  BY TypedNext, PendingNext, ThreadGrows DEF ThreadSound

-----------------------------------------------------------------------------
(* What a row of the conversation stands for.                              *)

\* What a turn, queued or in hand, is still to answer.
Awaited(t) ==
    \/ t = opening
    \/ slot # NoMessage /\ t = thread[slot].task
    \/ turn.at \in Running /\ t = thread[turn.msg].task

Owed(t) == Spoken(t) /\ t \notin late /\ Awaited(t)

Later(t) == {i \in t..Len(thread) : thread[i].role # "anchor"}

\* So much was sent since that the message is not among the protected ones.
Crowded(t) == Cardinality(Later(t)) > Protected

\* What a row says it covers it covers, and what it passes by is known; it does
\* not cover what is still to be answered unless that is not protected any more.
RowSound(R) ==
    /\ R.mark \in Seqs \cup {NoSeq}
    /\ R.summary \subseteq Messages
    /\ \A i \in R.summary : Spoken(i) /\ thread[i].seq <= R.mark
    /\ \A i \in Messages : Spoken(i) /\ thread[i].seq <= R.mark =>
                             i \in R.summary \cup late \cup undone
    /\ \A t \in Messages : Owed(t) /\ thread[t].seq <= R.mark => Crowded(t)

\* No message becomes owed but one that is new.
OwedShrinks == \A t \in Messages : Owed(t)' => Owed(t)

LEMMA LaterIsFinite ==
    ASSUME MemoryTypeOK, NEW t \in Messages
    PROVE  IsFiniteSet(Later(t)) /\ Cardinality(Later(t)) \in Nat
<1>1. t \in Int /\ Len(thread) \in Int
  BY MemoryParts
<1>2. IsFiniteSet(t..Len(thread))
  BY <1>1, FS_Interval
<1>3. IsFiniteSet(Later(t))
  BY <1>2, FS_Subset DEF Later
<1> QED
  BY <1>3, FS_CardinalityType

LEMMA CrowdedKeeps ==
    ASSUME ThreadSound, Grown, NEW t \in Messages, Crowded(t)
    PROVE  Crowded(t)'
<1>1. /\ t \in Nat /\ Len(thread) \in Nat /\ Len(thread') \in Nat /\ Len(thread) <= Len(thread')
      /\ Messages = 1..Len(thread) /\ t \in Messages' /\ MemoryTypeOK
      /\ \A i \in Messages : thread'[i].role = thread[i].role
  BY ThreadSoundParts, MemoryParts DEF Grown
<1>2. PICK A, B : A = Later(t) /\ B = Later(t)'
  OBVIOUS
<1>3. IsFiniteSet(B) /\ Cardinality(B) \in Nat
  <2>1. t \in Int /\ Len(thread') \in Int
    BY <1>1
  <2>2. IsFiniteSet(t..Len(thread'))
    BY <2>1, FS_Interval
  <2>3. B \subseteq t..Len(thread')
    BY <1>2 DEF Later
  <2> QED
    BY <2>2, <2>3, FS_Subset, FS_CardinalityType
<1>4. A \subseteq B
  <2>1. t..Len(thread) \subseteq Messages /\ t..Len(thread) \subseteq t..Len(thread')
    BY <1>1
  <2> QED
    BY <1>1, <1>2, <2>1 DEF Later
<1>5. Cardinality(A) <= Cardinality(B) /\ Cardinality(A) \in Nat
  BY <1>1, <1>2, <1>3, <1>4, FS_Subset, LaterIsFinite
<1> QED
  BY <1>2, <1>3, <1>5, ZonesAssumption DEF Crowded

LEMMA SoundKeeps ==
    ASSUME ThreadSound, Grown, thread' \in Seq(MessageRecord),
           late \subseteq late', undone \subseteq undone',
           OwedShrinks, NEW R \in Row, RowSound(R)
    PROVE  RowSound(R)'
<1>1. /\ Messages \subseteq Messages' /\ MemoryTypeOK
      /\ \A i \in Messages : thread[i].seq \in Nat
      /\ \A i \in Messages' : thread'[i].seq \in Nat
      /\ R.mark \in Nat /\ NoSeq = 0
  <2>1. MemoryTypeOK
    BY ThreadSoundParts
  <2>2. Messages \subseteq Messages'
    BY <2>1, MemoryParts DEF Grown
  <2>3. \A i \in Messages' : thread'[i].seq \in Nat
    <3>1. DOMAIN thread' = 1..Len(thread') /\ thread' \in [1..Len(thread') -> MessageRecord]
      BY LenProperties
    <3>2. \A i \in Messages' : thread'[i] \in MessageRecord
      BY <3>1 DEF Messages
    <3> QED
      BY <3>2 DEF MessageRecord
  <2> QED
    BY <2>1, <2>2, <2>3, MemoryParts DEF Row, NoSeq
<1>2. \A i \in Messages : /\ thread'[i].role = thread[i].role
                          /\ thread[i].seq # NoSeq => thread'[i].seq = thread[i].seq
  BY DEF Grown
<1>3. R.mark \in Seqs' \cup {NoSeq}
  <2>1. CASE R.mark = NoSeq
    BY <2>1
  <2>2. CASE R.mark # NoSeq
    <3>1. PICK i \in Messages : thread[i].seq = R.mark
      BY <2>2 DEF RowSound, Seqs
    <3> QED
      BY <1>1, <1>2, <2>2, <3>1 DEF Seqs
  <2> QED
    BY <2>1, <2>2
\* A message with a seq up to the watermark is one that had it.
<1>4. ASSUME NEW i \in Messages', Spoken(i)', thread'[i].seq <= R.mark
      PROVE  i \in Messages /\ Spoken(i) /\ thread[i].seq <= R.mark
  <2>1. R.mark \in Seqs \cup {NoSeq}
    BY DEF RowSound
  <2>2. thread'[i].seq # NoSeq /\ ~ (R.mark < thread'[i].seq)
    BY <1>1, <1>4 DEF Spoken
  <2>3. i \in Messages /\ thread'[i].seq = thread[i].seq
    BY <2>1, <2>2 DEF Grown
  <2> QED
    BY <1>2, <1>4, <2>3 DEF Spoken
<1>5. R.summary \subseteq Messages' /\ \A i \in R.summary : Spoken(i)' /\ thread'[i].seq <= R.mark
  BY <1>1, <1>2 DEF RowSound, Spoken
<1>6. \A i \in Messages' : Spoken(i)' /\ thread'[i].seq <= R.mark =>
                             i \in R.summary \cup late' \cup undone'
  BY <1>4 DEF RowSound
<1>7. \A t \in Messages' : Owed(t)' /\ thread'[t].seq <= R.mark => Crowded(t)'
  <2> SUFFICES ASSUME NEW t \in Messages', Owed(t)', thread'[t].seq <= R.mark
               PROVE  Crowded(t)'
    OBVIOUS
  <2>1. t \in Messages /\ Spoken(t) /\ thread[t].seq <= R.mark
    BY <1>4 DEF Owed
  <2>2. Owed(t)
    BY <2>1 DEF OwedShrinks
  <2>3. Crowded(t)
    BY <2>1, <2>2 DEF RowSound
  <2> QED
    BY <2>1, <2>3, CrowdedKeeps
<1> QED
  BY <1>3, <1>5, <1>6, <1>7 DEF RowSound

LEMMA EmptyIsSound == ASSUME MemoryTypeOK PROVE RowSound(EmptyRow) /\ EmptyRow \in Row
<1>1. \A i \in Messages : thread[i].seq \in Nat
  BY MemoryParts
<1>2. EmptyRow.mark = NoSeq /\ EmptyRow.summary = {} /\ NoSeq = 0 /\ EmptyRow \in Row
  BY DEF EmptyRow, NoSeq, Row
<1>3. \A i \in Messages : Spoken(i) => ~ (thread[i].seq <= EmptyRow.mark)
  BY <1>1, <1>2 DEF Spoken
<1> QED
  BY <1>2, <1>3 DEF RowSound, Owed

-----------------------------------------------------------------------------
(* Nothing said before becomes owed.                                       *)

LEMMA AwaitedIs ==
    ASSUME ThreadSound
    PROVE  /\ \A t \in Messages : Awaited(t) => thread[t].role = "user"
           /\ slot # NoMessage => slot \in Messages /\ thread[slot].task \in Messages
           /\ turn.at \in Running => turn.msg \in Messages /\ thread[turn.msg].task \in Messages
           /\ NoMessage \notin Messages
<1>1. NoMessage \notin Messages /\ PendingSound
  BY ThreadSoundParts, MemoryParts DEF NoMessage
<1> QED
  BY <1>1 DEF Awaited, PendingSound, Fresh

\* A user's message keeps its seq.
LEMMA UsersKeepSeq ==
    ASSUME ThreadSound, [MemoryNext]_memoryVars
    PROVE  \A i \in Messages : thread[i].role = "user" => thread'[i].seq = thread[i].seq
<1>1. MemoryTypeOK /\ HasMax /\ PendingSound
  BY ThreadSoundParts
<1>2. CASE Aged
  BY <1>2 DEF Aged
<1>3. CASE \E m \in MessageRecord : Added(m)
  BY <1>3, AddedSays
<1>4. CASE turn.at = "generate" /\ Numbered(turn.msg)
  <2>1. PICK m : m = turn.msg
    OBVIOUS
  <2>2. thread[m].role = "assistant" /\ \A i \in Messages \ {m} : thread'[i] = thread[i]
    BY <1>1, <1>4, <2>1, NumberedIs DEF PendingSound, Running, Fresh
  <2> QED
    BY <2>2
<1> QED
  BY <1>2, <1>3, <1>4, ThreadMoves DEF ThreadChanges

LEMMA AwaitedNext ==
    ASSUME ThreadSound, [MemoryNext]_memoryVars, NEW t \in Messages, Awaited(t)'
    PROVE  Awaited(t)
<1>1. MemoryTypeOK /\ MemoryTyped
  BY ThreadSoundParts
<1>2. Grown /\ \A i \in Messages : thread'[i].task = thread[i].task
  BY ThreadGrows DEF Grown
<1>3. /\ slot # NoMessage => slot \in Messages
      /\ turn.at \in Running => turn.msg \in Messages
      /\ NoMessage \notin Messages
  BY AwaitedIs
<1>4. \/ t = opening'
      \/ slot' # NoMessage /\ t = thread'[slot'].task
      \/ turn'.at \in Running /\ t = thread'[turn'.msg].task
  BY DEF Awaited
<1>5. ASSUME slot' \in {slot, NoMessage}, opening' \in {opening, NoMessage, Len(thread) + 1},
             turn'.at \in Running => turn.at \in Running /\ turn'.msg = turn.msg
      PROVE  Awaited(t)
  <2>1. Len(thread) + 1 \notin Messages
    BY <1>1, MemoryParts
  <2> QED
    BY <1>2, <1>3, <1>4, <1>5, <2>1 DEF Awaited
<1>6. CASE SendAssistant
  <2>1. PICK m, n : m = [role |-> "assistant", seq |-> NoSeq, age |-> "hot", task |-> opening]
                    /\ n = Len(thread) + 1
    OBVIOUS
  <2>2. Added(m) /\ m.task = opening
    BY <1>6, <2>1, NewMessages
  <2>3. thread'[n].task = opening
    BY <1>1, <2>1, <2>2, AddedIs
  <2>4. /\ opening' = NoMessage /\ turn' = turn
        /\ slot' = slot \/ (slot = NoMessage /\ slot' = n)
    BY <1>6, <2>1 DEF SendAssistant
  <2> QED
    BY <1>2, <1>3, <1>4, <2>3, <2>4 DEF Awaited
<1>7. CASE TakeTurn
  <2>1. slot # NoMessage /\ slot' = NoMessage /\ turn'.msg = slot /\ opening' = opening
    BY <1>1, <1>7, TurnDoes DEF Goes, TakeTurn
  <2> QED
    BY <1>2, <1>3, <1>4, <2>1 DEF Awaited
<1>8. CASE \E words \in BOOLEAN : SendUser(words)
  BY <1>5, <1>8 DEF SendUser
<1>9. CASE LoadConversation \/ LoadHistory
  <2>1. turn.at \in Running /\ turn'.msg = turn.msg /\ slot' = slot /\ opening' = opening
    BY <1>1, <1>9, TurnDoes DEF Goes, LoadConversation, LoadHistory, intake, Running
  <2> QED
    BY <1>5, <2>1
<1>10. CASE \E words \in BOOLEAN : WriteFinalize(words)
  <2>1. turn'.at \notin Running /\ slot' = slot /\ opening' = opening
    BY <1>1, <1>10, TurnDoes DEF Goes, WriteFinalize, Running
  <2> QED
    BY <1>5, <2>1
<1>11. CASE LoadThread \/ GetSummary \/ Demote \/ Summarize \/ SetSummary \/ Archive \/ WriteAnchor
  <2>1. turn'.at \notin Running /\ slot' = slot /\ opening' = opening
    BY <1>1, <1>11, TurnDoes, RestingIs
    DEF Goes, LoadThread, GetSummary, Demote, Summarize, SetSummary, Archive, WriteAnchor, Retire,
        intake, Running
  <2> QED
    BY <1>5, <2>1
<1>12. CASE Trace \/ ReadRow \/ WriteRow \/ UNCHANGED memoryVars
  <2>1. turn' = turn /\ slot' = slot /\ opening' = opening
    BY <1>12 DEF Trace, ReadRow, WriteRow, memoryVars, intake
  <2> QED
    BY <1>5, <2>1
<1>13. CASE Crash
  <2>1. turn'.at \notin Running /\ slot' = NoMessage /\ opening' = NoMessage
    BY <1>13, RestingIs DEF Crash, Running
  <2> QED
    BY <1>5, <2>1
<1> QED
  BY <1>6, <1>7, <1>8, <1>9, <1>10, <1>11, <1>12, <1>13 DEF MemoryNext

LEMMA OwedNext ==
    ASSUME ThreadSound, [MemoryNext]_memoryVars
    PROVE  OwedShrinks
<1> SUFFICES ASSUME NEW t \in Messages, Owed(t)'
             PROVE  Owed(t)
  BY DEF OwedShrinks
<1>1. Awaited(t)
  BY AwaitedNext DEF Owed
<1>2. thread[t].role = "user" /\ thread'[t].seq = thread[t].seq /\ thread'[t].role = thread[t].role
  BY <1>1, AwaitedIs, UsersKeepSeq, ThreadGrows DEF Grown
<1>3. Spoken(t) /\ t \notin late
  BY <1>2, ThreadGrows DEF Owed, Spoken
<1> QED
  BY <1>1, <1>3 DEF Owed

-----------------------------------------------------------------------------
(* The invariant.                                                          *)

RowsSound == RowSound(conv) /\ RowSound(turn.row) /\ RowSound(patch.row)

\* What is being folded: all that was said, not covered and not protected.
FoldSound == turn.at = "set" =>
    /\ \A i \in turn.fold : i + Protected <= turn.loaded /\ Spoken(i) /\ thread[i].seq > turn.row.mark
    /\ \A i \in Messages :
         i + Protected <= turn.loaded /\ Spoken(i) /\ thread[i].seq > turn.row.mark => i \in turn.fold

\* An anchor is written when its turn is over: none follows what is owed.
NoAnchorYet == turn.at \in TailSteps =>
    \A t, i \in Messages : Owed(t) /\ t <= i => thread[i].role # "anchor"

\* What is archived is in the summary, wherever the summary is read.
ArchivedKept ==
    /\ \A i \in Messages : thread[i].age = "archived" =>
         /\ i \in conv.summary \cup undone
         /\ turn.at = "load" => i \in turn.row.summary \cup undone
    /\ turn.at = "archive" => turn.fold \subseteq conv.summary \cup undone
    /\ turn.at \in {"demote", "summarize", "set"} => conv.summary \subseteq turn.row.summary \cup undone
    /\ patch.at = "write" => patch.row.summary \subseteq conv.summary \cup undone

\* What the model is given.
SeenSound == turn.at = "generate" =>
    /\ \A i \in turn.seen : thread[i].seq > turn.row.mark
    /\ \A i \in Messages : i <= turn.msg /\ Spoken(i) =>
                             i \in turn.row.summary \cup turn.seen \cup late \cup undone
    /\ \A i \in Messages : i <= turn.msg /\ thread[i].role = "user" /\ thread[i].seq > turn.row.mark =>
                             i \in turn.seen

MemoryInv == ThreadSound /\ RowsSound /\ FoldSound /\ NoAnchorYet /\ ArchivedKept /\ SeenSound

LEMMA MemoryInvParts ==
    ASSUME MemoryInv
    PROVE  /\ ThreadSound /\ MemoryTypeOK /\ MemoryTyped /\ HasMax /\ Ordered /\ PendingSound
           /\ RowsSound /\ FoldSound /\ NoAnchorYet /\ ArchivedKept /\ SeenSound
  BY ThreadSoundParts DEF MemoryInv

LEMMA MemoryInvInit == MemoryInit => MemoryInv
<1> SUFFICES ASSUME MemoryInit
             PROVE  MemoryInv
  OBVIOUS
<1>1. ThreadSound /\ MemoryTypeOK
  BY MemoryInitTyped, ThreadSoundParts
<1>2. /\ conv = EmptyRow /\ turn.row = EmptyRow /\ patch.row = EmptyRow /\ turn.at = "idle"
      /\ patch.at = "idle" /\ Messages = {}
  BY RestingIs DEF MemoryInit, NoPatch, Messages
<1>3. RowsSound
  BY <1>1, <1>2, EmptyIsSound DEF RowsSound
<1> QED
  BY <1>1, <1>2, <1>3
  DEF MemoryInv, FoldSound, NoAnchorYet, ArchivedKept, SeenSound, TailSteps

\* Unless a turn ends no message gets a seq.
LEMMA SeqsKeep ==
    ASSUME ThreadSound, [MemoryNext]_memoryVars
    PROVE  /\ turn.at # "generate" => \A i \in Messages : thread'[i].seq = thread[i].seq
           /\ turn'.at = "generate" => \A i \in Messages : thread'[i].seq = thread[i].seq
<1>1. MemoryTypeOK /\ MemoryTyped
  BY ThreadSoundParts
<1>2. Aged => \A i \in Messages : thread'[i].seq = thread[i].seq
  BY DEF Aged
<1>3. (\E m \in MessageRecord : Added(m)) => \A i \in Messages : thread'[i].seq = thread[i].seq
  BY AddedSays
<1>4. turn.at # "generate" => \A i \in Messages : thread'[i].seq = thread[i].seq
  BY <1>2, <1>3, ThreadMoves DEF ThreadChanges
<1>5. ASSUME turn.at = "generate", turn'.at = "generate"
      PROVE  \A i \in Messages : thread'[i].seq = thread[i].seq
  <2>1. CASE \E words \in BOOLEAN : SendUser(words)
    BY <1>3, <2>1, NewMessages DEF Added
  <2>2. CASE SendAssistant
    BY <1>3, <2>2, NewMessages DEF Added
  <2>3. CASE Trace
    BY <1>3, <2>3, NewMessages DEF Added
  <2>4. CASE ReadRow \/ WriteRow \/ UNCHANGED memoryVars
    BY <2>4 DEF ReadRow, WriteRow, memoryVars, tables
  <2>5. CASE Crash
    BY <1>5, <2>5, RestingIs DEF Crash
  <2>6. CASE \E words \in BOOLEAN : WriteFinalize(words)
    BY <1>1, <1>5, <2>6, TurnDoes DEF Goes
  <2>7. CASE TakeTurn \/ LoadConversation \/ LoadHistory \/ LoadThread \/ GetSummary \/ Demote
             \/ Summarize \/ SetSummary \/ Archive \/ WriteAnchor
    BY <1>5, <2>7
    DEF TakeTurn, LoadConversation, LoadHistory, LoadThread, GetSummary, Demote, Summarize,
        SetSummary, Archive, WriteAnchor
  <2> QED
    BY <2>1, <2>2, <2>3, <2>4, <2>5, <2>6, <2>7 DEF MemoryNext
<1> QED
  BY <1>4, <1>5

-----------------------------------------------------------------------------
(* A new summary is sound.                                                 *)

\* Of a message past the folded ones, with a seq up to theirs, it is known that
\* it was sent late.
LEMMA PassedByIsLate ==
    ASSUME MemoryInv, turn.at = "set", NEW i \in Messages, Spoken(i), thread[i].seq <= NewMark,
           NEW j \in turn.fold, thread[j].seq = NewMark, j < i
    PROVE  i \in late
<1>1. Ordered /\ Spoken(j) /\ j \in Messages
  BY MemoryInvParts, TurnParts DEF FoldSound
<1> QED
  BY <1>1 DEF Ordered

LEMMA NewSummarySound ==
    ASSUME MemoryInv, turn.at = "set"
    PROVE  RowSound([summary |-> turn.row.summary \cup turn.fold, mark |-> NewMark])
<1> DEFINE N == [summary |-> turn.row.summary \cup turn.fold, mark |-> NewMark]
<1>1. /\ MemoryTypeOK /\ MemoryTyped /\ HasMax /\ FoldSound /\ NoAnchorYet /\ RowSound(turn.row)
      /\ turn.fold # {} /\ turn.loaded <= Len(thread)
  BY MemoryInvParts DEF RowsSound, MemoryTyped
<1>2. /\ Messages = 1..Len(thread) /\ Len(thread) \in Nat /\ turn.loaded \in Nat
      /\ turn.fold \subseteq Messages /\ turn.row.mark \in Nat /\ turn.row.summary \subseteq Messages
      /\ \A i \in Messages : thread[i].seq \in Nat
  BY <1>1, MemoryParts, TurnParts DEF Row
<1>3. NewMark \in Nat /\ \A i \in turn.fold : thread[i].seq <= NewMark
  BY <1>1, NewMarkIs
<1>4. PICK j \in turn.fold : thread[j].seq = NewMark
  BY <1>1, NewMarkIs
<1>5. j \in Messages /\ j + Protected <= turn.loaded /\ turn.row.mark < NewMark
  BY <1>1, <1>2, <1>3, <1>4 DEF FoldSound
<1>6. N.mark \in Seqs \cup {NoSeq} /\ N.summary \subseteq Messages
  BY <1>2, <1>4 DEF Seqs
<1>7. \A i \in N.summary : Spoken(i) /\ thread[i].seq <= N.mark
  <2>1. \A i \in turn.row.summary : Spoken(i) /\ thread[i].seq <= NewMark
    BY <1>1, <1>2, <1>3, <1>5 DEF RowSound
  <2>2. \A i \in turn.fold : Spoken(i) /\ thread[i].seq <= NewMark
    BY <1>1, <1>3 DEF FoldSound
  <2> QED
    BY <2>1, <2>2
<1>8. \A i \in Messages : Spoken(i) /\ thread[i].seq <= N.mark => i \in N.summary \cup late \cup undone
  <2> SUFFICES ASSUME NEW i \in Messages, Spoken(i), thread[i].seq <= NewMark
               PROVE  i \in turn.row.summary \cup turn.fold \cup late \cup undone
    OBVIOUS
  <2>1. CASE thread[i].seq <= turn.row.mark
    BY <1>1, <2>1 DEF RowSound
  <2>2. CASE thread[i].seq > turn.row.mark /\ i + Protected <= turn.loaded
    BY <1>1, <2>2 DEF FoldSound
  <2>3. CASE ~ (i + Protected <= turn.loaded)
    <3>1. j < i
      BY <1>2, <1>5, <2>3, ZonesAssumption
    <3> QED
      BY <1>4, <3>1, PassedByIsLate
  <2> QED
    BY <1>2, <2>1, <2>2, <2>3
<1>9. \A t \in Messages : Owed(t) /\ thread[t].seq <= N.mark => Crowded(t)
  <2> SUFFICES ASSUME NEW t \in Messages, Owed(t), thread[t].seq <= NewMark
               PROVE  Crowded(t)
    OBVIOUS
  <2>1. ~ (j < t)
    BY <1>4, PassedByIsLate DEF Owed
  <2>2. t <= j /\ t \in Int /\ Len(thread) \in Int /\ t <= Len(thread)
    BY <1>2, <1>5, <2>1
  <2>3. Later(t) = t..Len(thread)
    <3>1. \A i \in t..Len(thread) : i \in Messages /\ t <= i
      BY <1>2, <2>2
    <3>2. \A i \in t..Len(thread) : thread[i].role # "anchor"
      BY <1>1, <3>1 DEF NoAnchorYet, TailSteps
    <3> QED
      BY <3>2 DEF Later
  <2>4. Cardinality(Later(t)) = Len(thread) - t + 1
    BY <2>2, <2>3, FS_Interval
  <2> QED
    BY <1>1, <1>2, <1>5, <2>2, <2>4, ZonesAssumption DEF Crowded
<1> QED
  BY <1>6, <1>7, <1>8, <1>9 DEF RowSound

-----------------------------------------------------------------------------
(* The rows read and written stay sound.                                   *)

NewRow == [summary |-> turn.row.summary \cup turn.fold, mark |-> NewMark]

LEMMA RowsMove ==
    ASSUME MemoryInv, [MemoryNext]_memoryVars
    PROVE  /\ conv' = conv \/ conv' = patch.row \/ (turn.at = "set" /\ conv' = NewRow)
           /\ turn'.row \in {turn.row, conv, EmptyRow}
           /\ patch'.row \in {patch.row, conv, EmptyRow}
<1>1. MemoryTyped
  BY MemoryInvParts
<1>2. Resting.row = EmptyRow /\ NoPatch.row = EmptyRow
  BY RestingIs DEF NoPatch
<1>3. CASE (\E words \in BOOLEAN : SendUser(words)) \/ SendAssistant \/ Trace \/ UNCHANGED memoryVars
  BY <1>3 DEF SendUser, SendAssistant, Trace, intake, memoryVars, tables
<1>4. CASE TakeTurn \/ LoadConversation \/ LoadHistory \/ LoadThread \/ GetSummary \/ Demote \/ Summarize
  BY <1>1, <1>2, <1>4, TurnDoes
  DEF Goes, TakeTurn, LoadConversation, LoadHistory, LoadThread, GetSummary, Demote, Summarize,
      tables, intake
<1>5. CASE \E words \in BOOLEAN : WriteFinalize(words)
  BY <1>1, <1>5, TurnDoes DEF Goes, WriteFinalize
<1>6. CASE SetSummary
  BY <1>1, <1>2, <1>6, TurnDoes DEF Goes, SetSummary, NewRow
<1>7. CASE Archive
  BY <1>1, <1>7, TurnDoes DEF Goes, Archive
<1>8. CASE WriteAnchor
  BY <1>2, <1>8 DEF WriteAnchor, Retire
<1>9. CASE ReadRow
  BY <1>9 DEF ReadRow, tables
<1>10. CASE WriteRow
  BY <1>2, <1>10 DEF WriteRow
<1>11. CASE Crash
  BY <1>2, <1>11 DEF Crash, tables
<1> QED
  BY <1>3, <1>4, <1>5, <1>6, <1>7, <1>8, <1>9, <1>10, <1>11 DEF MemoryNext

LEMMA RowsNext ==
    ASSUME MemoryInv, [MemoryNext]_memoryVars
    PROVE  RowsSound'
<1>1. /\ ThreadSound /\ MemoryTypeOK /\ MemoryTyped /\ HasMax
      /\ RowSound(conv) /\ RowSound(turn.row) /\ RowSound(patch.row)
  BY MemoryInvParts DEF RowsSound
<1>2. /\ Grown /\ thread' \in Seq(MessageRecord) /\ late \subseteq late' /\ undone \subseteq undone'
      /\ OwedShrinks
  BY <1>1, ThreadGrows, OwedNext
<1>3. conv \in Row /\ turn.row \in Row /\ patch.row \in Row /\ EmptyRow \in Row /\ RowSound(EmptyRow)
  BY <1>1, MemoryParts, EmptyIsSound
<1>4. turn.at = "set" => NewRow \in Row /\ RowSound(NewRow)
  <2> SUFFICES ASSUME turn.at = "set"
               PROVE  NewRow \in Row /\ RowSound(NewRow)
    OBVIOUS
  <2>1. NewMark \in Nat /\ turn.row.summary \subseteq Messages /\ turn.fold \subseteq Messages
    BY <1>1, NewMarkIs, TurnParts DEF MemoryTyped, Row
  <2> QED
    BY <2>1, NewSummarySound DEF NewRow, Row
<1>5. PICK C, T, P : C = conv' /\ T = turn'.row /\ P = patch'.row
  OBVIOUS
<1>6. C \in Row /\ RowSound(C) /\ T \in Row /\ RowSound(T) /\ P \in Row /\ RowSound(P)
  BY <1>1, <1>3, <1>4, <1>5, RowsMove
<1>7. RowSound(C)' /\ RowSound(T)' /\ RowSound(P)'
  BY <1>1, <1>2, <1>6, SoundKeeps
<1> QED
  BY <1>5, <1>7 DEF RowsSound

-----------------------------------------------------------------------------
(* The pass over the thread.                                               *)

\* What was said stays said, with its seq, when no turn ends.
LEMMA StaysSaid ==
    ASSUME ThreadSound, [MemoryNext]_memoryVars, turn.at # "generate" \/ turn'.at = "generate"
    PROVE  \A i \in Messages : /\ i \in Messages' /\ (Spoken(i)' <=> Spoken(i))
                               /\ thread'[i].seq = thread[i].seq
                               /\ thread'[i].role = thread[i].role
                               /\ thread'[i].task = thread[i].task
  BY SeqsKeep, ThreadGrows DEF Grown, Spoken

LEMMA FoldKeeps ==
    ASSUME MemoryInv, [MemoryNext]_memoryVars, turn.at = "set", turn' = turn
    PROVE  FoldSound'
<1>1. ThreadSound /\ MemoryTypeOK /\ FoldSound /\ turn.loaded <= Len(thread)
  BY MemoryInvParts DEF MemoryTyped
<1>2. /\ Len(thread) \in Nat /\ Len(thread') \in Nat /\ Messages = 1..Len(thread)
      /\ Messages' = 1..Len(thread') /\ turn.loaded \in Nat /\ turn.fold \subseteq Messages
  BY <1>1, ThreadGrows, MemoryParts, TurnParts DEF Grown
<1>3. \A i \in Messages : /\ i \in Messages' /\ (Spoken(i)' <=> Spoken(i))
                          /\ thread'[i].seq = thread[i].seq
  BY <1>1, StaysSaid
<1>4. \A i \in Messages' : i + Protected <= turn.loaded => i \in Messages
  BY <1>1, <1>2, ZonesAssumption
<1> QED
  BY <1>1, <1>2, <1>3, <1>4 DEF FoldSound

LEMMA FoldNext ==
    ASSUME MemoryInv, [MemoryNext]_memoryVars
    PROVE  FoldSound'
<1>1. /\ ThreadSound /\ MemoryTypeOK /\ MemoryTyped
  BY MemoryInvParts
<1>2. turn'.at # "set" => FoldSound'
  BY DEF FoldSound
<1>3. CASE turn' = turn
  BY <1>2, <1>3, FoldKeeps
<1>4. CASE Summarize
  <2> SUFFICES ASSUME turn'.at = "set"
               PROVE  FoldSound'
    BY <1>2
  <2>1. /\ turn.at = "summarize" /\ turn'.fold = Fold /\ turn'.row = turn.row
        /\ turn'.loaded = turn.loaded
    BY <1>1, <1>4, TurnDoes, RestingIs DEF Goes
  <2>2. thread' = thread
    BY <1>4 DEF Summarize, tables
  <2>3. /\ Fold \subseteq Messages
        /\ Fold = {i \in Messages : /\ i + Protected <= turn.loaded
                                    /\ thread[i].role \in {"user", "assistant"}
                                    /\ thread[i].seq > turn.row.mark}
    BY <1>1, <2>1, FoldIs
  <2>4. turn.row.mark \in Nat /\ \A i \in Messages : thread[i].seq \in Nat
    BY <1>1, MemoryParts DEF Row
  <2>5. \A i \in Messages :
           i \in Fold <=> i + Protected <= turn.loaded /\ Spoken(i) /\ thread[i].seq > turn.row.mark
    BY <2>3, <2>4 DEF Spoken, NoSeq
  <2>6. /\ \A i \in Fold : i + Protected <= turn.loaded /\ Spoken(i) /\ thread[i].seq > turn.row.mark
        /\ \A i \in Messages :
             i + Protected <= turn.loaded /\ Spoken(i) /\ thread[i].seq > turn.row.mark => i \in Fold
    BY <2>3, <2>5
  <2>7. Messages' = Messages /\ \A i : Spoken(i)' <=> Spoken(i)
    BY <2>2 DEF Messages, Spoken
  <2> QED
    BY <2>1, <2>2, <2>6, <2>7 DEF FoldSound
<1>5. CASE TakeTurn \/ LoadConversation \/ LoadHistory \/ LoadThread \/ GetSummary \/ Demote \/ SetSummary
           \/ Archive \/ WriteAnchor \/ Crash \/ \E words \in BOOLEAN : WriteFinalize(words)
  <2>1. turn'.at # "set"
    BY <1>1, <1>5, TurnDoes, RestingIs DEF Goes, WriteAnchor, Retire, Crash
  <2> QED
    BY <1>2, <2>1
<1>6. CASE (\E words \in BOOLEAN : SendUser(words)) \/ SendAssistant \/ Trace \/ ReadRow \/ WriteRow
           \/ UNCHANGED memoryVars
  <2>1. turn' = turn
    BY <1>6 DEF SendUser, SendAssistant, Trace, ReadRow, WriteRow, intake, memoryVars
  <2> QED
    BY <1>3, <2>1
<1> QED
  BY <1>4, <1>5, <1>6 DEF MemoryNext

LEMMA AnchorNext ==
    ASSUME MemoryInv, [MemoryNext]_memoryVars
    PROVE  NoAnchorYet'
<1>1. ThreadSound /\ MemoryTypeOK /\ MemoryTyped /\ HasMax /\ PendingSound /\ NoAnchorYet
  BY MemoryInvParts
<1>2. Grown /\ Messages \subseteq Messages' /\ OwedShrinks /\ late \subseteq late'
  BY <1>1, ThreadGrows, OwedNext
<1>3. /\ Len(thread) \in Nat /\ Len(thread') \in Nat /\ Messages = 1..Len(thread)
      /\ Messages' = 1..Len(thread')
  BY <1>1, <1>2, MemoryParts DEF Grown
\* A step of the tail that adds no anchor.
<1>4. ASSUME turn.at \in TailSteps,
             \A i \in Messages' : i \in Messages \/ (i = Len(thread) + 1 /\ thread'[i].role # "anchor")
      PROVE  NoAnchorYet'
  <2> SUFFICES ASSUME NEW t \in Messages', NEW i \in Messages', Owed(t)', t <= i
               PROVE  thread'[i].role # "anchor"
    BY DEF NoAnchorYet
  <2>1. CASE i \in Messages
    <3>1. t \in Messages
      BY <1>3, <2>1
    <3>2. Owed(t)
      BY <1>2, <3>1 DEF OwedShrinks
    <3> QED
      BY <1>1, <1>2, <1>4, <2>1, <3>1, <3>2 DEF NoAnchorYet, Grown
  <2> QED
    BY <1>4, <2>1
<1>5. CASE \E words \in BOOLEAN : WriteFinalize(words)
  <2> SUFFICES ASSUME NEW t \in Messages', Owed(t)'
               PROVE  FALSE
    BY DEF NoAnchorYet
  <2>1. PICK g, s, o : g = turn.msg /\ s = slot /\ o = opening
    OBVIOUS
  <2>2. /\ turn.at = "generate" /\ turn.at \in Running /\ turn'.at \notin Running
        /\ slot' = slot /\ opening' = opening /\ late' = late
    BY <1>1, <1>5, TurnDoes DEF Goes, WriteFinalize, Running, exceptions
  <2>3. Messages' = Messages
    <3>1. Numbered(g) \/ thread' = thread
      BY <1>1, <1>5, <2>1, NewMessages
    <3> QED
      BY <1>1, <3>1, NumberedIs DEF Messages
  <2>4. t \in Messages /\ Owed(t) /\ t \notin late
    BY <1>2, <2>3 DEF OwedShrinks, Owed
  <2>5. t = o \/ (slot # NoMessage /\ t = thread[s].task)
    <3>1. t = opening' \/ (slot' # NoMessage /\ t = thread'[slot'].task)
      BY <2>2 DEF Owed, Awaited
    <3>2. slot # NoMessage => thread'[s].task = thread[s].task
      BY <1>1, <1>2, <2>1, AwaitedIs DEF Grown
    <3> QED
      BY <2>1, <2>2, <3>1, <3>2
  <2>6. t # NoMessage
    BY <1>1, <2>4, AwaitedIs
  <2>7. t > g /\ Fresh(g)
    BY <1>1, <2>1, <2>2, <2>5, <2>6 DEF PendingSound
  <2> QED
    BY <2>4, <2>7 DEF Fresh, Owed
<1>6. CASE (\E words \in BOOLEAN : SendUser(words)) \/ SendAssistant
  <2>1. PICK m \in MessageRecord : Added(m) /\ m.role # "anchor"
    <3>1. CASE \E words \in BOOLEAN : SendUser(words)
      <4>1. PICK w \in {NoSeq, NextSeq} :
               Added([role |-> "user", seq |-> w, age |-> "hot", task |-> NoMessage])
        BY <1>1, <3>1, NewMessages
      <4> QED
        BY <4>1 DEF Added
    <3>2. CASE SendAssistant
      BY <1>1, <3>2, NewMessages DEF Added
    <3> QED
      BY <1>6, <3>1, <3>2
  <2>2. \A i \in Messages' : i \in Messages \/ (i = Len(thread) + 1 /\ thread'[i].role # "anchor")
    BY <1>1, <2>1, AddedIs
  <2>3. turn' = turn
    BY <1>6 DEF SendUser, SendAssistant
  <2> QED
    BY <1>4, <2>2, <2>3 DEF NoAnchorYet
<1>7. CASE WriteAnchor \/ TakeTurn \/ LoadConversation \/ LoadHistory \/ Trace \/ Crash
  <2>1. turn'.at \notin TailSteps
    BY <1>1, <1>7, TurnDoes, RestingIs
    DEF Goes, WriteAnchor, Retire, Trace, Crash, TailSteps
  <2> QED
    BY <2>1 DEF NoAnchorYet
<1>8. CASE LoadThread \/ GetSummary \/ Demote \/ Summarize \/ SetSummary \/ Archive
  <2>1. turn.at \in TailSteps
    BY <1>8 DEF LoadThread, GetSummary, Demote, Summarize, SetSummary, Archive, TailSteps
  <2>2. Messages' = Messages
    BY <1>1, <1>8, DemotedAges, SetAgeAges
    DEF LoadThread, GetSummary, Summarize, SetSummary, Archive, tables, Messages, Aged
  <2> QED
    BY <1>4, <2>1, <2>2
<1>9. CASE ReadRow \/ WriteRow \/ UNCHANGED memoryVars
  <2>1. turn' = turn /\ Messages' = Messages
    BY <1>9 DEF ReadRow, WriteRow, memoryVars, tables, Messages
  <2> QED
    BY <1>4, <2>1 DEF NoAnchorYet
<1> QED
  BY <1>5, <1>6, <1>7, <1>8, <1>9 DEF MemoryNext

-----------------------------------------------------------------------------
(* What is archived stays in a summary.                                    *)

LEMMA ArchivedFrom ==
    ASSUME MemoryInv, [MemoryNext]_memoryVars
    PROVE  \A i \in Messages' : thread'[i].age = "archived" =>
             \/ i \in Messages /\ thread[i].age = "archived"
             \/ Archive /\ i \in turn.fold
<1>1. ThreadSound /\ MemoryTypeOK /\ MemoryTyped /\ HasMax /\ PendingSound
  BY MemoryInvParts
<1>2. ASSUME thread' = thread
      PROVE  \A i \in Messages' : thread'[i].age = "archived" => i \in Messages /\ thread[i].age = "archived"
  BY <1>2 DEF Messages
<1>3. ASSUME NEW m, Added(m), m.age = "hot"
      PROVE  \A i \in Messages' : thread'[i].age = "archived" => i \in Messages /\ thread[i].age = "archived"
  BY <1>1, <1>3, AddedIs
<1>4. ASSUME NEW m, Numbered(m)
      PROVE  \A i \in Messages' : thread'[i].age = "archived" => i \in Messages /\ thread[i].age = "archived"
  BY <1>1, <1>4, NumberedIs
<1>5. CASE \E words \in BOOLEAN : SendUser(words)
  <2>1. PICK w \in {NoSeq, NextSeq} :
           Added([role |-> "user", seq |-> w, age |-> "hot", task |-> NoMessage])
    BY <1>1, <1>5, NewMessages
  <2> QED
    BY <1>3, <2>1
<1>6. CASE SendAssistant
  <2>1. Added([role |-> "assistant", seq |-> NoSeq, age |-> "hot", task |-> opening])
    BY <1>1, <1>6, NewMessages
  <2>2. PICK m : m = [role |-> "assistant", seq |-> NoSeq, age |-> "hot", task |-> opening]
    OBVIOUS
  <2> QED
    BY <1>3, <2>1, <2>2
<1>7. CASE Trace
  <2>1. PICK m : m = [role |-> "subagent", seq |-> NextSeq, age |-> "hot", task |-> NoMessage]
    OBVIOUS
  <2> QED
    BY <1>1, <1>3, <1>7, <2>1, NewMessages
<1>8. CASE WriteAnchor
  <2>1. PICK m : m = [role |-> "anchor", seq |-> NextSeq, age |-> "hot", task |-> NoMessage]
    OBVIOUS
  <2> QED
    BY <1>1, <1>2, <1>3, <1>8, <2>1, NewMessages
<1>9. CASE \E words \in BOOLEAN : WriteFinalize(words)
  <2>1. PICK m : m = turn.msg
    OBVIOUS
  <2> QED
    BY <1>1, <1>2, <1>4, <1>9, <2>1, NewMessages
<1>10. CASE Demote
  BY <1>1, <1>10, DemotedAges DEF Aged
<1>11. CASE Archive
  BY <1>1, <1>2, <1>11, SetAgeAges DEF Archive, Aged
<1>12. CASE TakeTurn \/ LoadConversation \/ LoadHistory \/ LoadThread \/ GetSummary \/ Summarize
            \/ SetSummary \/ ReadRow \/ WriteRow \/ Crash \/ UNCHANGED memoryVars
  BY <1>2, <1>12
  DEF TakeTurn, LoadConversation, LoadHistory, LoadThread, GetSummary, Summarize, SetSummary,
      ReadRow, WriteRow, Crash, memoryVars, tables
<1> QED
  BY <1>5, <1>6, <1>7, <1>8, <1>9, <1>10, <1>11, <1>12 DEF MemoryNext

\* A summary loses a message only to a stale write, which is remembered.
LEMMA SummaryKept ==
    ASSUME MemoryInv, [MemoryNext]_memoryVars
    PROVE  conv.summary \cup undone \subseteq conv'.summary \cup undone'
<1>1. ArchivedKept /\ undone \subseteq undone'
  BY MemoryInvParts, ThreadGrows
<1>2. CASE conv' = conv
  BY <1>1, <1>2
<1>3. CASE WriteRow
  BY <1>3 DEF WriteRow
<1>4. CASE SetSummary
  <2>1. turn.at = "set" /\ (conv' = conv \/ conv'.summary = turn.row.summary \cup turn.fold)
    BY <1>4 DEF SetSummary
  <2> QED
    BY <1>1, <1>2, <2>1 DEF ArchivedKept
<1>5. CASE UNCHANGED memoryVars \/ (MemoryNext /\ ~ WriteRow /\ ~ SetSummary)
  BY <1>2, <1>5
  DEF MemoryNext, SendUser, WriteFinalize, SendAssistant, TakeTurn, LoadConversation, LoadHistory,
      Trace, LoadThread, GetSummary, Demote, Summarize, Archive, WriteAnchor, ReadRow, Crash,
      memoryVars, tables
<1> QED
  BY <1>3, <1>4, <1>5

LEMMA ArchivedNext ==
    ASSUME MemoryInv, [MemoryNext]_memoryVars
    PROVE  ArchivedKept'
<1>1. ThreadSound /\ MemoryTypeOK /\ MemoryTyped /\ ArchivedKept
  BY MemoryInvParts
<1>2. conv.summary \cup undone \subseteq conv'.summary \cup undone' /\ undone \subseteq undone'
  BY <1>1, SummaryKept, ThreadGrows
<1>3. \A i \in Messages' : thread'[i].age = "archived" =>
         (i \in Messages /\ thread[i].age = "archived") \/ (Archive /\ i \in turn.fold)
  BY ArchivedFrom
<1>4. \A i \in Messages' : thread'[i].age = "archived" => i \in conv'.summary \cup undone'
  BY <1>1, <1>2, <1>3 DEF ArchivedKept, Archive
<1>5. turn'.at = "load" => \A i \in Messages' : thread'[i].age = "archived" =>
                                                  i \in turn'.row.summary \cup undone'
  <2>1. CASE LoadConversation
    <3>1. turn'.row = conv /\ ~ Archive /\ undone' = undone
      BY <1>1, <2>1, TurnDoes DEF Goes, LoadConversation, Archive, exceptions
    <3> QED
      BY <1>1, <1>3, <3>1 DEF ArchivedKept
  <2>2. CASE turn' = turn
    BY <1>1, <1>2, <1>3, <2>2 DEF ArchivedKept, Archive
  <2>3. CASE TakeTurn \/ LoadHistory \/ LoadThread \/ GetSummary \/ Demote \/ Summarize \/ SetSummary
             \/ Archive \/ WriteAnchor \/ Crash \/ \E words \in BOOLEAN : WriteFinalize(words)
    BY <1>1, <2>3, TurnDoes, RestingIs DEF Goes, WriteAnchor, Retire, Crash
  <2>4. CASE (\E words \in BOOLEAN : SendUser(words)) \/ SendAssistant \/ Trace \/ ReadRow \/ WriteRow
             \/ UNCHANGED memoryVars
    BY <2>2, <2>4 DEF SendUser, SendAssistant, Trace, ReadRow, WriteRow, intake, memoryVars
  <2> QED
    BY <2>1, <2>3, <2>4 DEF MemoryNext
<1>6. turn'.at = "archive" => turn'.fold \subseteq conv'.summary \cup undone'
  <2>1. CASE SetSummary
    <3>1. CASE turn' = Resting
      BY <3>1, RestingIs
    <3>2. CASE turn' # Resting
      <4>1. turn'.fold = turn.fold /\ conv'.summary = turn.row.summary \cup turn.fold
        BY <1>1, <2>1, <3>2, TurnDoes DEF Goes, SetSummary, Retire
      <4> QED
        BY <4>1
    <3> QED
      BY <3>1, <3>2
  <2>2. CASE turn' = turn
    BY <1>1, <1>2, <2>2 DEF ArchivedKept
  <2>3. CASE TakeTurn \/ LoadConversation \/ LoadHistory \/ LoadThread \/ GetSummary \/ Demote
             \/ Summarize \/ Archive \/ WriteAnchor \/ Crash \/ \E words \in BOOLEAN : WriteFinalize(words)
    BY <1>1, <2>3, TurnDoes, RestingIs DEF Goes, WriteAnchor, Retire, Crash
  <2>4. CASE (\E words \in BOOLEAN : SendUser(words)) \/ SendAssistant \/ Trace \/ ReadRow \/ WriteRow
             \/ UNCHANGED memoryVars
    BY <2>2, <2>4 DEF SendUser, SendAssistant, Trace, ReadRow, WriteRow, intake, memoryVars
  <2> QED
    BY <2>1, <2>3, <2>4 DEF MemoryNext
<1>7. turn'.at \in {"demote", "summarize", "set"} => conv'.summary \subseteq turn'.row.summary \cup undone'
  <2>1. CASE GetSummary
    BY <1>1, <2>1, TurnDoes DEF Goes, GetSummary, tables
  <2>2. CASE Demote \/ Summarize
    <3>1. turn.at \in {"demote", "summarize"} /\ conv' = conv
      BY <2>2 DEF Demote, Summarize, tables
    <3>2. turn' = Resting \/ turn'.row = turn.row
      BY <1>1, <2>2, TurnDoes DEF Goes
    <3> QED
      BY <1>1, <1>2, <3>1, <3>2, RestingIs DEF ArchivedKept
  <2>3. CASE turn' = turn /\ conv' = conv
    BY <1>1, <1>2, <2>3 DEF ArchivedKept
  <2>4. CASE WriteRow
    <3>1. turn' = turn /\ conv' = patch.row /\ patch.at = "write"
      BY <2>4 DEF WriteRow
    <3> QED
      BY <1>1, <1>2, <3>1 DEF ArchivedKept
  <2>5. CASE TakeTurn \/ LoadConversation \/ LoadHistory \/ LoadThread \/ SetSummary
             \/ Archive \/ WriteAnchor \/ Crash \/ \E words \in BOOLEAN : WriteFinalize(words)
    BY <1>1, <2>5, TurnDoes, RestingIs DEF Goes, WriteAnchor, Retire, Crash
  <2>6. CASE (\E words \in BOOLEAN : SendUser(words)) \/ SendAssistant \/ Trace \/ ReadRow
             \/ UNCHANGED memoryVars
    BY <2>3, <2>6 DEF SendUser, SendAssistant, Trace, ReadRow, intake, memoryVars, tables
  <2> QED
    BY <2>1, <2>2, <2>4, <2>5, <2>6 DEF MemoryNext
<1>8. patch'.at = "write" => patch'.row.summary \subseteq conv'.summary \cup undone'
  <2>1. CASE ReadRow
    <3>1. patch'.row = conv
      BY <2>1 DEF ReadRow
    <3> QED
      BY <1>2, <3>1
  <2>2. CASE patch' = patch
    BY <1>1, <1>2, <2>2 DEF ArchivedKept
  <2>3. CASE WriteRow \/ Crash
    BY <2>3 DEF WriteRow, Crash, NoPatch
  <2>4. CASE UNCHANGED memoryVars \/ (MemoryNext /\ ~ ReadRow /\ ~ WriteRow /\ ~ Crash)
    BY <2>2, <2>4
    DEF MemoryNext, SendUser, WriteFinalize, SendAssistant, TakeTurn, LoadConversation, LoadHistory,
        Trace, LoadThread, GetSummary, Demote, Summarize, SetSummary, Archive, WriteAnchor, memoryVars
  <2> QED
    BY <2>1, <2>3, <2>4
<1> QED
  BY <1>4, <1>5, <1>6, <1>7, <1>8 DEF ArchivedKept

-----------------------------------------------------------------------------
(* What the model is given.                                                *)

LEMMA HistorySeen ==
    ASSUME MemoryInv, LoadHistory
    PROVE  SeenSound'
<1>1. /\ ThreadSound /\ MemoryTypeOK /\ MemoryTyped /\ ArchivedKept /\ RowSound(turn.row)
  BY MemoryInvParts DEF RowsSound
<1>2. PICK S : S = {i \in Messages : Verbatim(i)}
  OBVIOUS
<1>3. /\ turn.at = "load" /\ turn'.msg = turn.msg /\ turn'.row = turn.row /\ turn'.seen = S
      /\ thread' = thread /\ late' = late /\ undone' = undone
  BY <1>1, <1>2, TurnDoes DEF Goes, LoadHistory, tables, exceptions
<1>4. Messages' = Messages /\ \A i : Spoken(i)' <=> Spoken(i)
  BY <1>3 DEF Messages, Spoken
<1>5. turn.row.mark \in Nat /\ \A i \in Messages : thread[i].seq \in Nat
  BY <1>1, MemoryParts DEF Row
<1>6. ASSUME NEW i \in Messages, Spoken(i)
      PROVE  i \in turn.row.summary \cup S \cup late \cup undone
  <2>1. CASE thread[i].seq <= turn.row.mark
    BY <1>1, <1>6, <2>1 DEF RowSound
  <2>2. CASE thread[i].seq > turn.row.mark /\ thread[i].age = "archived"
    BY <1>1, <1>3, <2>2 DEF ArchivedKept
  <2>3. CASE thread[i].seq > turn.row.mark /\ thread[i].age # "archived"
    BY <1>2, <1>6, <2>3 DEF Spoken, Verbatim
  <2> QED
    BY <1>5, <2>1, <2>2, <2>3
<1>7. /\ \A i \in S : thread[i].seq > turn.row.mark
      /\ \A i \in Messages : thread[i].role = "user" /\ thread[i].seq > turn.row.mark => i \in S
  BY <1>2 DEF Verbatim
<1> QED
  BY <1>3, <1>4, <1>6, <1>7 DEF SeenSound

LEMMA SeenKeeps ==
    ASSUME MemoryInv, [MemoryNext]_memoryVars, turn.at = "generate", turn' = turn
    PROVE  SeenSound'
<1>1. ThreadSound /\ MemoryTypeOK /\ SeenSound /\ PendingSound
  BY MemoryInvParts
<1>2. \A i \in Messages : /\ i \in Messages' /\ (Spoken(i)' <=> Spoken(i))
                          /\ thread'[i].seq = thread[i].seq /\ thread'[i].role = thread[i].role
  BY <1>1, StaysSaid
<1>3. /\ turn.msg \in Messages /\ turn.seen \subseteq Messages /\ Len(thread) \in Nat
      /\ Messages = 1..Len(thread) /\ Messages' = 1..Len(thread') /\ Len(thread') \in Nat
  BY <1>1, ThreadGrows, MemoryParts, TurnParts DEF PendingSound, Fresh, Running, Grown
<1>4. \A i \in Messages' : i <= turn.msg => i \in Messages
  BY <1>3
<1>5. late \subseteq late' /\ undone \subseteq undone'
  BY <1>1, ThreadGrows
<1>6. \A i \in turn.seen : thread'[i].seq > turn.row.mark
  BY <1>1, <1>2, <1>3 DEF SeenSound
<1>7. \A i \in Messages' : i <= turn.msg /\ Spoken(i)' =>
                             i \in turn.row.summary \cup turn.seen \cup late' \cup undone'
  BY <1>1, <1>2, <1>4, <1>5 DEF SeenSound
<1>8. \A i \in Messages' : i <= turn.msg /\ thread'[i].role = "user"
                             /\ thread'[i].seq > turn.row.mark => i \in turn.seen
  BY <1>1, <1>2, <1>4 DEF SeenSound
<1> QED
  BY <1>6, <1>7, <1>8 DEF SeenSound

LEMMA SeenNext ==
    ASSUME MemoryInv, [MemoryNext]_memoryVars
    PROVE  SeenSound'
<1>1. ThreadSound /\ MemoryTyped
  BY MemoryInvParts
<1>2. turn'.at # "generate" => SeenSound'
  BY DEF SeenSound
<1>3. CASE turn' = turn
  BY <1>2, <1>3, SeenKeeps
<1>4. CASE (\E words \in BOOLEAN : SendUser(words)) \/ SendAssistant \/ Trace \/ ReadRow \/ WriteRow
           \/ UNCHANGED memoryVars
  BY <1>3, <1>4 DEF SendUser, SendAssistant, Trace, ReadRow, WriteRow, intake, memoryVars
<1>5. CASE LoadHistory
  BY <1>5, HistorySeen
<1>6. CASE TakeTurn \/ LoadConversation \/ LoadThread \/ GetSummary \/ Demote \/ Summarize \/ SetSummary
           \/ Archive \/ WriteAnchor \/ Crash \/ \E words \in BOOLEAN : WriteFinalize(words)
  <2>1. turn'.at # "generate"
    BY <1>1, <1>6, TurnDoes, RestingIs DEF Goes, WriteAnchor, Retire, Crash
  <2> QED
    BY <1>2, <2>1
<1> QED
  BY <1>4, <1>5, <1>6 DEF MemoryNext

-----------------------------------------------------------------------------
(* The theorems.                                                           *)

LEMMA MemoryInvNext == MemoryInv /\ [MemoryNext]_memoryVars => MemoryInv'
<1> SUFFICES ASSUME MemoryInv, [MemoryNext]_memoryVars
             PROVE  MemoryInv'
  OBVIOUS
<1>1. ThreadSound'
  BY MemoryInvParts, ThreadSoundNext
<1> QED
  BY <1>1, RowsNext, FoldNext, AnchorNext, ArchivedNext, SeenNext DEF MemoryInv

LEMMA MemoryInvAlways == MemorySpec => []MemoryInv
  BY MemoryInvInit, MemoryInvNext, PTL DEF MemorySpec

\* The thread, the conversation's row and the turn in hand keep their shape: no
\* seq is made up, and what was read or folded is of messages there are.
THEOREM MemoryTypeInvariant == MemorySpec => []MemoryTypeOK
<1>1. MemoryInv => MemoryTypeOK
  BY MemoryInvParts
<1> QED
  BY <1>1, MemoryInvAlways, PTL

\* A turn sees all that was said before it, word by word or in the summary, but
\* what was sent while a turn was under way and what a stale write undid.
THEOREM NothingForgottenInvariant == MemorySpec => []NothingForgotten
<1>1. MemoryInv => NothingForgotten
  <2> SUFFICES ASSUME MemoryInv, turn.at = "generate", NEW i \in 1..turn.msg, Spoken(i)
               PROVE  i \in turn.row.summary \cup turn.seen \cup late \cup undone
    BY DEF NothingForgotten, Generating
  <2>1. turn.msg \in Messages /\ SeenSound
    BY MemoryInvParts DEF PendingSound, Running, Fresh
  <2>2. i \in Messages /\ i <= turn.msg
    BY <2>1, MemoryInvParts, MemoryParts
  <2> QED
    BY <2>1, <2>2 DEF SeenSound
<1> QED
  BY <1>1, MemoryInvAlways, PTL

\* Nothing is in front of the model both in the summary and word by word.
THEOREM NothingTwiceInvariant == MemorySpec => []NothingTwice
<1>1. MemoryInv => NothingTwice
  <2> SUFFICES ASSUME MemoryInv, turn.at = "generate", NEW i \in turn.row.summary, i \in turn.seen
               PROVE  FALSE
    BY DEF NothingTwice, Generating
  <2>1. thread[i].seq <= turn.row.mark /\ thread[i].seq > turn.row.mark
    BY MemoryInvParts DEF RowsSound, RowSound, SeenSound
  <2>2. thread[i].seq \in Nat /\ turn.row.mark \in Nat
    BY MemoryInvParts, MemoryParts, TurnParts DEF Row
  <2> QED
    BY <2>1, <2>2
<1> QED
  BY <1>1, MemoryInvAlways, PTL

\* What a turn is to answer is in front of the model word by word, unless so many
\* messages were sent since that it is not among the protected ones.
THEOREM TaskIsSeenInvariant == MemorySpec => []TaskIsSeen
<1>1. MemoryInv => TaskIsSeen
  <2> SUFFICES ASSUME MemoryInv, turn.at = "generate", Spoken(thread[turn.msg].task),
                      Cardinality(Later(thread[turn.msg].task)) <= Protected
               PROVE  thread[turn.msg].task \in turn.seen \cup late
    BY DEF TaskIsSeen, Generating, Later
  <2>1. PICK t : t = thread[turn.msg].task
    OBVIOUS
  <2>2. /\ turn.msg \in Messages /\ t \in Messages /\ t < turn.msg /\ thread[t].role = "user"
        /\ SeenSound /\ RowSound(turn.row) /\ MemoryTypeOK /\ turn.at \in Running
    BY <2>1, MemoryInvParts DEF PendingSound, Running, Fresh, RowsSound
  <2>3. t \in Nat /\ turn.msg \in Nat /\ thread[t].seq \in Nat /\ turn.row.mark \in Nat
    BY <2>2, MemoryParts, TurnParts DEF Row
  <2>4. CASE t \in late
    BY <2>1, <2>4
  <2>5. CASE t \notin late
    <3>1. Owed(t) /\ ~ Crowded(t)
      <4>1. Cardinality(Later(t)) \in Nat
        BY <2>2, LaterIsFinite
      <4> QED
        BY <2>1, <2>2, <2>5, <4>1, ZonesAssumption DEF Owed, Awaited, Crowded
    <3>2. thread[t].seq > turn.row.mark
      BY <2>2, <2>3, <3>1 DEF RowSound
    <3>3. t <= turn.msg
      BY <2>2, <2>3
    <3> QED
      BY <2>1, <2>2, <3>2, <3>3 DEF SeenSound
  <2> QED
    BY <2>4, <2>5
<1> QED
  BY <1>1, MemoryInvAlways, PTL
=============================================================================
