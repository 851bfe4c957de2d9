-------------------------- MODULE SearchIndex_proofs --------------------------
(***************************************************************************)
(* Proofs about SearchIndex for any entities, messages, queue capacity and *)
(* any number of writes and failures: types, the vectors of the entities   *)
(* that are projected whole, and the healing of the index.                 *)
(***************************************************************************)
EXTENDS SearchIndex, TLAPS

-----------------------------------------------------------------------------
(* Types. *)

\* What a chunk is: an entity's own text, or a message of the conversation.
LEMMA ChunkFacts ==
    ASSUME NEW c \in Chunks
    PROVE  /\ c[1] \in Entities
           /\ c = <<c[1], c[2]>>
           /\ c[1] \in Plain => c[2] = NoMsg
           /\ c[2] # NoMsg => c[1] = Conv /\ c[2] \in Messages
           /\ Change(c[1], c[2]) \in Changes
  BY NamesAssumption DEF Chunks, Entities, Changes, Change

\* Every entity has a chunk for its own text, every message one.
LEMMA OwnChunk ==
    /\ \A e \in Entities : <<e, NoMsg>> \in Chunks /\ Change(e, NoMsg) \in Changes
    /\ \A m \in Messages : <<Conv, m>> \in Chunks /\ Change(Conv, m) \in Changes
<1>1. \A e \in Entities : <<e, NoMsg>> \in Chunks
  BY DEF Chunks
<1>2. \A m \in Messages : <<Conv, m>> \in Chunks
  BY DEF Chunks
<1> QED
  BY <1>1, <1>2 DEF Changes

\* What a change names.
LEMMA ChangeFacts ==
    ASSUME NEW j \in Changes
    PROVE  /\ j.of \in Entities
           /\ <<j.of, j.anchor>> \in Chunks
           /\ j = Change(j.of, j.anchor)
           /\ j.anchor # NoMsg => j.of = Conv /\ j.anchor \in Messages
<1>1. PICK c \in Chunks : j = Change(c[1], c[2])
  BY DEF Changes
<1> QED
  BY <1>1, ChunkFacts DEF Change

\* The constants of the rows have their types.
LEMMA EmptyTypes ==
    /\ 0 \in Times
    /\ NoRow \in Rows /\ NoBatch \in [Chunks -> Rows]
    /\ Change(Conv, NoMsg) \in Changes
    /\ NoWork \in WorkStates /\ NoScan \in ScanStates /\ Resting \in EmbedStates
<1>1. 0 \in Times
  BY BoundsAssumption DEF Times
<1>2. NoRow \in Rows
  BY <1>1 DEF NoRow, Rows
<1>3. Change(Conv, NoMsg) \in Changes
  BY OwnChunk DEF Entities
<1> QED
  BY <1>1, <1>2, <1>3 DEF NoBatch, NoWork, NoScan, Resting, Types, WorkStates, ScanStates, EmbedStates

\* A projection is made of rows (SearchIndex Docs).
LEMMA CardType == ASSUME TypeOK, NEW e \in Entities PROVE CardOf(e) \in Rows
<1>1. stamp[e] \in Times /\ title[e] \in Times
  BY DEF TypeOK
<1> QED
  BY <1>1, EmptyTypes DEF CardOf, Rows

LEMMA DocsType ==
    ASSUME TypeOK, NEW e \in Entities, NEW card \in Rows
    PROVE  Docs(e, card) \in [Chunks -> Rows]
<1> SUFFICES ASSUME NEW c \in Chunks PROVE Docs(e, card)[c] \in Rows
  BY DEF Docs
<1>1. CASE c[1] # e \/ card = NoRow \/ c[2] = NoMsg
  BY <1>1, EmptyTypes DEF Docs
<1>2. CASE ~(c[1] # e \/ card = NoRow \/ c[2] = NoMsg)
  <2>1. Docs(e, card)[c] = MessageRow(card, c[2]) /\ c[2] \in Messages
    BY <1>2, ChunkFacts DEF Docs
  <2>2. said[c[2]] \in Times /\ card.title \in Times
    BY <2>1 DEF TypeOK, Rows
  <2> QED
    BY <2>1, <2>2, EmptyTypes DEF MessageRow, Rows
<1> QED
  BY <1>1, <1>2

\* Appending to the queue, and what is left when its head is taken.
LEMMA AppendFacts ==
    ASSUME NEW S, NEW q \in Seq(S), NEW x \in S
    PROVE  /\ Append(q, x) \in Seq(S) /\ Len(Append(q, x)) = Len(q) + 1
           /\ \A i \in 1..Len(q) : Append(q, x)[i] = q[i]
           /\ Append(q, x)[Len(q) + 1] = x
  OBVIOUS

LEMMA TailFacts ==
    ASSUME NEW S, NEW q \in Seq(S), q # <<>>
    PROVE  /\ Tail(q) \in Seq(S) /\ Len(Tail(q)) = Len(q) - 1 /\ Len(q) \in Nat \ {0}
           /\ \A i \in 1..Len(q) - 1 : Tail(q)[i] = q[i + 1]
           /\ Head(q) = q[1] /\ Head(q) \in S
  OBVIOUS

\* A write notifies: the queue takes the change if there is room.
LEMMA ChangedType ==
    ASSUME TypeOK, NEW e \in Entities, NEW m, Change(e, m) \in Changes,
           NEW S, S \subseteq Entities, Changed(e, m, S)
    PROVE  /\ queue' \in Seq(Changes) /\ Len(queue') <= QueueSize
           /\ missed' \in SUBSET Entities
<1>1. Full => UNCHANGED queue /\ missed' = missed \cup S \cup {e}
  BY DEF Changed
<1>2. ~Full => queue' = Append(queue, Change(e, m)) /\ missed' = missed \cup S
  BY DEF Changed
<1>3. ~Full => Len(queue) + 1 <= QueueSize
  BY BoundsAssumption DEF Full, TypeOK
<1>4. CASE Full
  BY <1>1, <1>4 DEF TypeOK
<1>5. CASE ~Full
  <2>1. queue \in Seq(Changes) /\ missed \in SUBSET Entities
    BY DEF TypeOK
  <2> QED
    BY <1>2, <1>3, <1>5, <2>1, AppendFacts
<1> QED
  BY <1>4, <1>5

LEMMA InitType == ASSUME Init PROVE TypeOK
<1>1. clock \in Times /\ title \in [Entities -> Times] /\ stamp \in [Entities -> Times]
      /\ said \in [Messages -> Times]
  BY BoundsAssumption DEF Init, Times
<1>2. rows \in [Chunks -> Rows]
  <2> SUFFICES ASSUME NEW c \in Chunks PROVE Docs(c[1], CardOf(c[1]))[c] \in Rows
    BY DEF Init
  <2>1. CardOf(c[1]) = [title |-> 1, body |-> 0, at |-> 1]
    BY ChunkFacts DEF CardOf, Init
  <2>2. CardOf(c[1]) \in Rows
    BY <2>1, BoundsAssumption DEF Rows, Times
  <2>3. c[2] # NoMsg => MessageRow(CardOf(c[1]), c[2]) = NoRow
    BY ChunkFacts DEF MessageRow, Init
  <2> QED
    BY <2>2, <2>3, EmptyTypes DEF Docs
<1>3. queue \in Seq(Changes) /\ Len(queue) <= QueueSize
  BY BoundsAssumption DEF Init
<1>4. events \in 0..MaxEvents
  BY BoundsAssumption DEF Init
<1>5. scan \in [Scans -> ScanStates]
  BY EmptyTypes DEF Init
<1> QED
  BY <1>1, <1>2, <1>3, <1>4, <1>5, EmptyTypes DEF Init, TypeOK

\* What lies under a document is documents.
LEMMA BeneathFacts ==
    ASSUME NEW e \in Entities, NEW S \in Beneath(e)
    PROVE  S \subseteq Entities /\ S \subseteq Plain /\ e \notin S
  BY NamesAssumption DEF Beneath, Entities

\* A write sets the stamps to the time it comes, which is later.
LEMMA TickFacts ==
    ASSUME TypeOK, \E n \in Gaps : Tick(n) \/ Tick(n + 1)
    PROVE  /\ clock \in Nat /\ clock' \in Nat /\ clock < clock'
           /\ clock' \in Times
           /\ \A n \in Gaps : n \in Nat /\ n # 0
<1>1. /\ clock \in Nat
      /\ \A n \in Gaps : n \in Nat /\ n # 0
  BY BoundsAssumption DEF TypeOK, Times, Gaps
<1>2. PICK n \in Gaps : Tick(n) \/ Tick(n + 1)
  OBVIOUS
<1> QED
  BY <1>1, <1>2, BoundsAssumption DEF Tick, Times

LEMMA WrittenType ==
    ASSUME TypeOK, clock' \in Times, NEW S, S \subseteq Entities, Written(S)
    PROVE  /\ title' \in [Entities -> Times] /\ stamp' \in [Entities -> Times]
           /\ rushed' \in SUBSET Entities
<1>1. title' \in [Entities -> Times]
  BY DEF Written, TypeOK
<1>2. stamp' \in [Entities -> Times]
  BY DEF Written, TypeOK
<1>3. rushed' \in SUBSET Entities
  BY DEF Written, TypeOK
<1> QED
  BY <1>1, <1>2, <1>3

\* Writes of the entities keep the types.
LEMMA WriteType ==
    ASSUME TypeOK, \/ \E e \in Entities : Edit(e) \/ Delete(e) \/ CopyFails(e)
                   \/ \E m \in Messages : Send(m) \/ Finalize(m)
    PROVE  TypeOK'
<1>1. ASSUME NEW e \in Entities, Edit(e) PROVE TypeOK'
  <2>1. clock' \in Times
    BY <1>1, TickFacts DEF Edit
  <2>2. PICK S \in Beneath(e) : Written({e} \cup S) /\ Changed(e, NoMsg, S)
    BY <1>1 DEF Edit
  <2>3. S \subseteq Entities /\ {e} \cup S \subseteq Entities
    BY BeneathFacts
  <2>4. /\ title' \in [Entities -> Times] /\ stamp' \in [Entities -> Times]
        /\ rushed' \in SUBSET Entities
    BY <2>1, <2>2, <2>3, WrittenType
  <2>5. queue' \in Seq(Changes) /\ Len(queue') <= QueueSize /\ missed' \in SUBSET Entities
    BY <2>2, <2>3, OwnChunk, ChangedType
  <2>6. archived' \in BOOLEAN
    BY <1>1 DEF Edit, TypeOK
  <2> QED
    BY <1>1, <2>1, <2>4, <2>5, <2>6 DEF Edit, TypeOK, index, embedder
<1>2. ASSUME NEW e \in Entities, Delete(e) PROVE TypeOK'
  <2>1. clock' \in Times
    BY <1>2, TickFacts DEF Delete
  <2>2. PICK S \in Beneath(e) :
          /\ stamp' = [d \in Entities |-> IF d \in {e} \cup S THEN 0 ELSE stamp[d]]
          /\ rushed' = rushed \ ({e} \cup S)
          /\ Changed(e, NoMsg, S)
    BY <1>2 DEF Delete
  <2>3. stamp' \in [Entities -> Times]
    BY <2>2, EmptyTypes DEF TypeOK
  <2>4. queue' \in Seq(Changes) /\ Len(queue') <= QueueSize /\ missed' \in SUBSET Entities
    BY <2>2, BeneathFacts, OwnChunk, ChangedType
  <2> QED
    BY <1>2, <2>1, <2>3, <2>4 DEF Delete, TypeOK, index, embedder
<1>3. ASSUME NEW e \in Entities, CopyFails(e) PROVE TypeOK'
  <2>1. clock' \in Times
    BY <1>3, TickFacts DEF CopyFails
  <2>2. PICK S \in Beneath(e) : Written({e} \cup S) /\ missed' = missed \cup {e} \cup S
    BY <1>3 DEF CopyFails
  <2>3. S \subseteq Entities /\ {e} \cup S \subseteq Entities
    BY BeneathFacts
  <2>4. /\ title' \in [Entities -> Times] /\ stamp' \in [Entities -> Times]
        /\ rushed' \in SUBSET Entities
    BY <2>1, <2>2, <2>3, WrittenType
  <2>5. events' \in 0..MaxEvents
    BY <1>3, BoundsAssumption DEF CopyFails, Event, TypeOK
  <2> QED
    BY <1>3, <2>1, <2>2, <2>3, <2>4, <2>5 DEF CopyFails, TypeOK, index, indexer, embedder
<1>4. ASSUME NEW m \in Messages, Send(m) PROVE TypeOK'
  <2>1. PICK n \in Gaps : Tick(n + 1) /\ said' = [said EXCEPT ![m] = clock + n]
    BY <1>4 DEF Send
  <2>2. clock' \in Times /\ clock + n \in Times
    BY <2>1, TickFacts, BoundsAssumption DEF Tick, Times
  <2>3. said' \in [Messages -> Times] /\ stamp' \in [Entities -> Times]
    BY <1>4, <2>1, <2>2 DEF Send, TypeOK
  <2>4. queue' \in Seq(Changes) /\ Len(queue') <= QueueSize /\ missed' \in SUBSET Entities
    BY <1>4, OwnChunk, ChangedType DEF Send, Entities
  <2> QED
    BY <1>4, <2>2, <2>3, <2>4 DEF Send, TypeOK, index, embedder
<1>5. ASSUME NEW m \in Messages, Finalize(m) PROVE TypeOK'
  <2>1. clock' \in Times
    BY <1>5, TickFacts DEF Finalize
  <2>2. said' \in [Messages -> Times]
    BY <1>5, <2>1 DEF Finalize, TypeOK
  <2>3. queue' \in Seq(Changes) /\ Len(queue') <= QueueSize /\ missed' \in SUBSET Entities
    BY <1>5, OwnChunk, ChangedType DEF Finalize, Entities
  <2> QED
    BY <1>5, <2>1, <2>2, <2>3 DEF Finalize, TypeOK, index, embedder
<1> QED
  BY <1>1, <1>2, <1>3, <1>4, <1>5

\* The index worker keeps the types.
LEMMA WorkerType == ASSUME TypeOK, Worker PROVE TypeOK'
<1>1. CASE Take
  <2>1. /\ queue' \in Seq(Changes) /\ Len(queue') <= QueueSize /\ Head(queue) \in Changes
    BY <1>1, TailFacts, BoundsAssumption DEF Take, TypeOK
  <2>2. CardOf(Head(queue).of) \in Rows
    BY <2>1, CardType, ChangeFacts
  <2>3. work' \in WorkStates
    BY <1>1, <2>1, <2>2 DEF Take, WorkStates, TypeOK
  <2> QED
    BY <1>1, <2>1, <2>3 DEF Take, TypeOK, source, index, embedder
<1>2. CASE Fallback
  <2>1. work.job \in Changes
    BY DEF TypeOK, WorkStates
  <2>2. CardOf(work.job.of) \in Rows /\ [work.job EXCEPT !.anchor = NoMsg] \in Changes
    <3>1. work.job = [of |-> work.job.of, anchor |-> work.job.anchor] /\ work.job.of \in Entities
      BY <2>1, ChangeFacts DEF Change
    <3>2. [work.job EXCEPT !.anchor = NoMsg] = Change(work.job.of, NoMsg)
      BY <3>1 DEF Change
    <3> QED
      BY <3>1, <3>2, CardType, OwnChunk
  <2>3. work' \in WorkStates
    BY <1>2, <2>2 DEF Fallback, WorkStates, TypeOK
  <2> QED
    BY <1>2, <2>3 DEF Fallback, TypeOK, source, index, embedder
<1>3. CASE Gather
  <2>1. work.job \in Changes /\ work.card \in Rows
    BY DEF TypeOK, WorkStates
  <2>2. Docs(work.job.of, work.card) \in [Chunks -> Rows]
    BY <2>1, DocsType, ChangeFacts
  <2>3. work' \in WorkStates
    <3>1. [NoBatch EXCEPT ![<<Conv, work.job.anchor>>] =
             Docs(work.job.of, work.card)[<<Conv, work.job.anchor>>]] \in [Chunks -> Rows]
      BY <2>1, <2>2, EmptyTypes DEF NoBatch
    <3> QED
      BY <1>3, <2>2, <3>1, EmptyTypes DEF Gather, WorkStates, TypeOK
  <2> QED
    BY <1>3, <2>3 DEF Gather, TypeOK, source, index, embedder
<1>4. CASE Apply
  <2>1. work.job \in Changes /\ work.docs \in [Chunks -> Rows]
    BY DEF TypeOK, WorkStates
  <2>2. rows' \in [Chunks -> Rows] /\ vec' \in [Chunks -> Rows] /\ embed' \in EmbedStates
    <3>1. CASE work.job.anchor = NoMsg
      <4> DEFINE e == work.job.of
      <4>0. /\ rows \in [Chunks -> Rows] /\ vec \in [Chunks -> Rows] /\ NoRow \in Rows
            /\ embed \in EmbedStates /\ embed.batch \in [Chunks -> Rows]
        BY EmptyTypes DEF TypeOK, EmbedStates
      <4>1. /\ rows' = [c \in Chunks |-> IF c[1] = e THEN work.docs[c] ELSE rows[c]]
            /\ vec' = [c \in Chunks |-> IF c[1] = e THEN NoRow ELSE vec[c]]
            /\ embed' = [embed EXCEPT !.batch =
                            [c \in Chunks |-> IF c[1] = e THEN NoRow ELSE embed.batch[c]]]
        BY <1>4, <3>1 DEF Apply, ReplaceDocs
      <4> HIDE DEF e
      <4>2. rows' \in [Chunks -> Rows]
        BY <2>1, <4>0, <4>1
      <4>3. vec' \in [Chunks -> Rows]
        BY <4>0, <4>1
      <4>4. [c \in Chunks |-> IF c[1] = e THEN NoRow ELSE embed.batch[c]] \in [Chunks -> Rows]
        BY <4>0
      <4>5. embed' \in EmbedStates
        BY <4>0, <4>1, <4>4 DEF EmbedStates
      <4> QED
        BY <4>2, <4>3, <4>5
    <3>2. CASE work.job.anchor # NoMsg
      <4> DEFINE d == <<work.job.of, work.job.anchor>>
      <4>1. d \in Chunks
        BY <2>1, ChangeFacts
      <4>2. /\ rows' = [rows EXCEPT ![d] = work.docs[d]]
            /\ vec' = [vec EXCEPT ![d] = NoRow]
            /\ embed' = IF rows[d] = NoRow THEN [embed EXCEPT !.batch[d] = NoRow] ELSE embed
        BY <1>4, <3>2 DEF Apply, UpsertDocAt
      <4> HIDE DEF d
      <4> QED
        BY <2>1, <4>1, <4>2, EmptyTypes DEF TypeOK, EmbedStates
    <3> QED
      BY <3>1, <3>2
  <2> QED
    BY <1>4, <2>2, EmptyTypes DEF Apply, Kick, TypeOK, source, index, embedder
<1>5. CASE ApplyFails
  <2>1. work.job.of \in Entities
    BY ChangeFacts DEF TypeOK, WorkStates
  <2>2. events' \in 0..MaxEvents
    BY <1>5, BoundsAssumption DEF ApplyFails, Event, TypeOK
  <2> QED
    BY <1>5, <2>1, <2>2, EmptyTypes DEF ApplyFails, TypeOK, source, index, embedder
<1> QED
  BY <1>1, <1>2, <1>3, <1>4, <1>5 DEF Worker

\* The scans keep the types.
LEMMA ScannerType == ASSUME TypeOK, NEW s \in Scans, Scanner(s) PROVE TypeOK'
<1>0. scan[s] \in ScanStates
  BY DEF TypeOK
<1>1. CASE CheckSchema(s)
  <2>1. scan' \in [Scans -> ScanStates]
    BY <1>0, <1>1 DEF CheckSchema, ScanStates, TypeOK
  <2>2. /\ rows' \in [Chunks -> Rows] /\ vec' \in [Chunks -> Rows] /\ embed' \in EmbedStates
        /\ missed' \in SUBSET Entities
    BY <1>1, EmptyTypes DEF CheckSchema, TypeOK, EmbedStates
  <2> QED
    BY <1>1, <2>1, <2>2 DEF CheckSchema, TypeOK, source
<1>2. ASSUME NEW t \in Types, ReadStamps(s, t) PROVE TypeOK'
  <2>1. Stamps(t) \in [Entities -> Times]
    BY EmptyTypes DEF Stamps, TypeOK
  <2>2. scan' \in [Scans -> ScanStates]
    BY <1>0, <1>2, <2>1 DEF ReadStamps, ScanStates, TypeOK
  <2> QED
    BY <1>2, <2>2 DEF ReadStamps, TypeOK, source, index, embedder
<1>3. ASSUME NEW t \in Types, SourceFails(s, t) PROVE TypeOK'
  <2>1. scan' \in [Scans -> ScanStates]
    BY <1>0, <1>3 DEF SourceFails, ScanStates, TypeOK
  <2>2. Of(t) \subseteq Entities
    BY DEF Of, Entities
  <2> QED
    BY <1>3, <2>1, <2>2 DEF SourceFails, TypeOK, source, index, embedder
<1>4. CASE Compare(s)
  <2>1. {e \in Of(scan[s].of) : Differs(s, e)} \subseteq Entities
    BY DEF Of, Entities
  <2>2. scan' \in [Scans -> ScanStates]
    BY <1>0, <1>4, <2>1, EmptyTypes DEF Compare, ScanStates, TypeOK
  <2> QED
    BY <1>4, <2>2 DEF Compare, TypeOK, source, index, embedder
<1>5. CASE Enqueue(s)
  <2>1. PICK e \in scan[s].todo : /\ queue' = Append(queue, Change(e, NoMsg))
                                  /\ scan' = [scan EXCEPT ![s].todo = @ \ {e}]
    BY <1>5 DEF Enqueue
  <2>2. scan' \in [Scans -> ScanStates]
    BY <1>0, <2>1 DEF ScanStates, TypeOK
  <2>3. e \in Entities
    BY <1>0 DEF ScanStates
  <2>4. queue' \in Seq(Changes) /\ Len(queue') <= QueueSize
    <3>1. queue \in Seq(Changes) /\ Len(queue) <= QueueSize /\ Len(queue) # QueueSize
      BY <1>5 DEF Enqueue, Full, TypeOK
    <3>2. Change(e, NoMsg) \in Changes
      BY <2>3, OwnChunk
    <3>3. Append(queue, Change(e, NoMsg)) \in Seq(Changes)
          /\ Len(Append(queue, Change(e, NoMsg))) = Len(queue) + 1
      BY <3>1, <3>2, AppendFacts
    <3> QED
      BY <2>1, <3>1, <3>3, BoundsAssumption
  <2> QED
    BY <1>5, <2>2, <2>4 DEF Enqueue, TypeOK, source, index, embedder
<1>6. CASE EndScan(s)
  BY <1>6, EmptyTypes DEF EndScan, Kick, TypeOK, source, index
<1> QED
  BY <1>1, <1>2, <1>3, <1>4, <1>5, <1>6 DEF Scanner

\* The embed worker keeps the types.
LEMMA EmbedderType == ASSUME TypeOK, Embedder PROVE TypeOK'
<1>1. CASE BeginRound
  BY <1>1 DEF BeginRound, TypeOK, EmbedStates, source, index, indexer
<1>2. CASE PickBatch
  <2>1. PICK S \in SUBSET Missing : embed' = [embed EXCEPT !.batch =
                       [c \in Chunks |-> IF c \in S THEN rows[c] ELSE NoRow]]
    BY <1>2 DEF PickBatch
  <2>2. embed' \in EmbedStates
    BY <2>1, EmptyTypes DEF TypeOK, EmbedStates
  <2> QED
    BY <1>2, <2>2 DEF PickBatch, TypeOK, source, index, indexer
<1>3. CASE EndRound
  BY <1>3, EmptyTypes DEF EndRound, TypeOK, source, index, indexer
<1>4. CASE StoreVector
  <2>1. PICK c \in Chunks : /\ vec' = [vec EXCEPT ![c] = embed.batch[c]]
                            /\ embed' = [embed EXCEPT !.batch[c] = NoRow]
    BY <1>4 DEF StoreVector
  <2>2. vec' \in [Chunks -> Rows] /\ embed' \in EmbedStates
    BY <2>1, EmptyTypes DEF TypeOK, EmbedStates
  <2> QED
    BY <1>4, <2>2 DEF StoreVector, TypeOK, source, indexer
<1>5. CASE GiveUp
  <2>1. events' \in 0..MaxEvents
    BY <1>5, BoundsAssumption DEF GiveUp, Event, TypeOK
  <2> QED
    BY <1>5, <2>1, EmptyTypes DEF GiveUp, TypeOK, source, index, indexer
<1> QED
  BY <1>1, <1>2, <1>3, <1>4, <1>5 DEF Embedder

\* A restart and the start of a rebuild keep the types.
LEMMA RestartType == ASSUME TypeOK, Restart \/ Reindex PROVE TypeOK'
<1>0. events' \in 0..MaxEvents
  BY BoundsAssumption DEF Restart, Reindex, Event, TypeOK
<1>1. CASE Restart
  <2>1. Pending \subseteq Entities
    <3>1. \A i \in 1..Len(queue) : queue[i].of \in Entities
      <4>1. \A i \in 1..Len(queue) : queue[i] \in Changes
        BY DEF TypeOK
      <4> QED
        BY <4>1, ChangeFacts
    <3>2. work.job.of \in Entities
      BY ChangeFacts DEF TypeOK, WorkStates
    <3> QED
      BY <3>1, <3>2 DEF Pending, InHand
  <2>2. Booting \in ScanStates
    BY EmptyTypes DEF Booting, ScanStates
  <2>3. queue' \in Seq(Changes) /\ Len(queue') <= QueueSize
    BY <1>1, BoundsAssumption DEF Restart
  <2>4. scan' \in [Scans -> ScanStates]
    BY <1>1, <2>2, EmptyTypes DEF Restart
  <2>5. outdated' \in BOOLEAN
    BY <1>1 DEF Restart, TypeOK
  <2> QED
    BY <1>0, <1>1, <2>1, <2>3, <2>4, <2>5, EmptyTypes DEF Restart, TypeOK, source
<1>2. CASE Reindex
  <2>1. scan' \in [Scans -> ScanStates]
    BY <1>2, EmptyTypes DEF Reindex, ScanStates, TypeOK
  <2> QED
    BY <1>0, <1>2, <2>1 DEF Reindex, TypeOK, source, index, embedder
<1> QED
  BY <1>1, <1>2

LEMMA NextType == ASSUME TypeOK, [Next]_vars PROVE TypeOK'
<1>1. CASE UNCHANGED vars
  BY <1>1 DEF vars, source, index, indexer, embedder, TypeOK
<1> QED
  BY <1>1, WriteType, WorkerType, ScannerType, EmbedderType, RestartType DEF Next

\* The variables have their types, and the queue its capacity (app/search).
THEOREM TypeCorrect == Spec => []TypeOK
<1>1. Init => TypeOK
  BY InitType
<1>2. TypeOK /\ [Next]_vars => TypeOK'
  BY NextType
<1> QED
  BY <1>1, <1>2, PTL DEF Spec

-----------------------------------------------------------------------------
(* Vectors.                                                                 *)

\* A text under way to a vector is the text of its row, for an entity that is
\* projected whole: its rows change only by being replaced, under new ids.
Embeds ==
  \A c \in Chunks : c[1] \in Plain =>
     vec[c] \in {NoRow, rows[c]} /\ embed.batch[c] \in {NoRow, rows[c]}

LEMMA InitEmbeds == ASSUME Init PROVE Embeds
  BY DEF Init, Embeds, Resting, NoBatch

LEMMA NextEmbeds == ASSUME TypeOK, Embeds, [Next]_vars PROVE Embeds'
<1>1. ASSUME UNCHANGED <<rows, vec, embed>> PROVE Embeds'
  BY <1>1 DEF Embeds
<1>2. CASE UNCHANGED vars
  BY <1>1, <1>2 DEF vars, index, embedder
<1>3. CASE \/ \E e \in Entities : Edit(e) \/ Delete(e) \/ CopyFails(e)
           \/ \E m \in Messages : Send(m) \/ Finalize(m)
  BY <1>1, <1>3 DEF Edit, Delete, CopyFails, Send, Finalize, index, embedder
<1>4. CASE Worker
  <2>1. CASE Apply
    <3>1. work.job \in Changes
      BY DEF TypeOK, WorkStates
    <3>2. CASE work.job.anchor = NoMsg
      <4>1. ReplaceDocs(work.job.of, work.docs)
        BY <2>1, <3>2 DEF Apply
      <4> QED
        BY <4>1 DEF ReplaceDocs, Embeds, TypeOK, EmbedStates
    <3>3. CASE work.job.anchor # NoMsg
      <4> DEFINE d == <<work.job.of, work.job.anchor>>
      <4>1. d \in Chunks /\ d[1] = Conv
        BY <3>1, <3>3, ChangeFacts
      <4>2. UpsertDocAt(d, work.docs[d])
        BY <2>1, <3>3 DEF Apply
      <4> HIDE DEF d
      <4>3. \A c \in Chunks : c[1] \in Plain => c # d
        BY <4>1, NamesAssumption
      <4> QED
        BY <4>1, <4>2, <4>3 DEF UpsertDocAt, Embeds, TypeOK, EmbedStates
    <3> QED
      BY <3>2, <3>3
  <2>2. CASE Take \/ Fallback \/ Gather \/ ApplyFails
    BY <1>1, <2>2 DEF Take, Fallback, Gather, ApplyFails, index, embedder
  <2> QED
    BY <1>4, <2>1, <2>2 DEF Worker
<1>5. ASSUME NEW s \in Scans, Scanner(s) PROVE Embeds'
  <2>1. CASE CheckSchema(s)
    <3>1. CASE outdated
      BY <2>1, <3>1 DEF CheckSchema, Embeds, NoBatch, TypeOK, EmbedStates
    <3>2. CASE ~outdated
      BY <1>1, <2>1, <3>2 DEF CheckSchema
    <3> QED
      BY <3>1, <3>2
  <2>2. CASE Compare(s) \/ Enqueue(s) \/ EndScan(s) \/ \E t \in Types :
               ReadStamps(s, t) \/ SourceFails(s, t)
    BY <1>1, <2>2 DEF Compare, Enqueue, EndScan, ReadStamps, SourceFails, index, embedder
  <2> QED
    BY <1>5, <2>1, <2>2 DEF Scanner
<1>6. CASE Reindex
  BY <1>1, <1>6 DEF Reindex, index, embedder
<1>7. CASE Embedder
  <2>1. CASE BeginRound
    BY <2>1 DEF BeginRound, Embeds, index, TypeOK, EmbedStates
  <2>2. CASE PickBatch
    BY <2>2 DEF PickBatch, Embeds, index, TypeOK, EmbedStates
  <2>3. CASE EndRound \/ GiveUp
    BY <2>3 DEF EndRound, GiveUp, Embeds, index, Resting, NoBatch
  <2>4. CASE StoreVector
    BY <2>4 DEF StoreVector, Embeds, TypeOK, EmbedStates
  <2> QED
    BY <1>7, <2>1, <2>2, <2>3, <2>4 DEF Embedder
<1>8. CASE Restart
  BY <1>8 DEF Restart, Embeds, Resting, NoBatch
<1> QED
  BY <1>2, <1>3, <1>4, <1>5, <1>6, <1>7, <1>8 DEF Next

\* No vector of an entity that is projected whole belongs to another text than
\* its row's (semantic.go backfill, infra/search UpsertEmbedding).
THEOREM VectorsMatchInvariant == Spec => []VectorsMatch
<1>1. Init => Embeds
  BY InitEmbeds
<1>2. TypeOK /\ Embeds /\ [Next]_vars => Embeds'
  BY NextEmbeds
<1>3. Embeds => VectorsMatch
  BY DEF Embeds, VectorsMatch
<1> QED
  BY <1>1, <1>2, <1>3, TypeCorrect, PTL DEF Spec

LEMMA NextAwaited == ASSUME TypeOK, VectorsAwaited, [Next]_vars PROVE VectorsAwaited'
<1>0. scan \in [Scans -> ScanStates] /\ embed \in EmbedStates /\ "boot" \in Scans
  BY DEF TypeOK, Scans
<1>1. ASSUME UNCHANGED <<rows, vec, kick, embed, stalled, scan>> PROVE VectorsAwaited'
  BY <1>1 DEF VectorsAwaited, Missing, Indexed
<1>2. CASE UNCHANGED vars
  BY <1>1, <1>2 DEF vars, index, embedder, indexer
<1>3. CASE \/ \E e \in Entities : Edit(e) \/ Delete(e) \/ CopyFails(e)
           \/ \E m \in Messages : Send(m) \/ Finalize(m)
  BY <1>1, <1>3 DEF Edit, Delete, CopyFails, Send, Finalize, index, embedder, indexer
<1>4. ASSUME Kick, embed'.at = embed.at PROVE VectorsAwaited'
  <2>1. embed.at = "idle" \/ embed'.at = "round"
    BY <1>0, <1>4 DEF EmbedStates
  <2>2. CASE kick' = TRUE
    BY <2>2 DEF VectorsAwaited
  <2>3. CASE kick' = kick /\ stalled' = (stalled \/ (~kick /\ embed.at = "idle"))
    <3>1. kick' \/ stalled' \/ embed.at # "idle"
      BY <2>3, Zenon
    <3> QED
      BY <2>1, <3>1, Zenon DEF VectorsAwaited
  <2> QED
    BY <1>4, <2>2, <2>3 DEF Kick
<1>5. CASE Worker
  <2>1. CASE Apply
    <3>1. embed'.at = embed.at
      BY <1>0, <2>1 DEF Apply, ReplaceDocs, UpsertDocAt, EmbedStates
    <3> QED
      BY <1>4, <2>1, <3>1 DEF Apply
  <2>2. CASE Take \/ Fallback \/ Gather \/ ApplyFails
    BY <1>1, <2>2 DEF Take, Fallback, Gather, ApplyFails, index, embedder
  <2> QED
    BY <1>5, <2>1, <2>2 DEF Worker
<1>6. ASSUME NEW s \in Scans, Scanner(s) PROVE VectorsAwaited'
  <2>1. CASE EndScan(s)
    BY <1>4, <2>1 DEF EndScan
  <2>2. ASSUME UNCHANGED <<kick, stalled>>, embed'.at = embed.at, Missing' \subseteq Missing,
               scan["boot"].at # "idle" => scan'["boot"].at # "idle"
        PROVE  VectorsAwaited'
    BY <2>2 DEF VectorsAwaited
  <2>3. CASE CheckSchema(s)
    <3>1. UNCHANGED <<kick, stalled>> /\ embed'.at = embed.at
      BY <1>0, <2>3 DEF CheckSchema, EmbedStates
    <3>2. Missing' \subseteq Missing
      BY <2>3 DEF CheckSchema, Missing, Indexed
    <3>3. scan["boot"].at # "idle" => scan'["boot"].at # "idle"
      BY <1>0, <2>3 DEF CheckSchema, ScanStates
    <3> QED
      BY <2>2, <3>1, <3>2, <3>3
  <2>4. CASE Compare(s) \/ Enqueue(s) \/ \E t \in Types : ReadStamps(s, t) \/ SourceFails(s, t)
    <3>1. UNCHANGED <<rows, vec, kick, embed, stalled>>
      BY <2>4 DEF Compare, Enqueue, ReadStamps, SourceFails, index, embedder
    <3>2. Missing' \subseteq Missing
      BY <3>1 DEF Missing, Indexed
    <3>3. scan["boot"].at # "idle" => scan'["boot"].at # "idle"
      <4>1. \A r \in Scans \ {s} : scan'[r] = scan[r]
        BY <1>0, <2>4 DEF Compare, Enqueue, ReadStamps, SourceFails
      <4>2. CASE Compare(s) \/ \E t \in Types : ReadStamps(s, t) \/ SourceFails(s, t)
        <5>1. scan'[s].at # "idle"
          <6>1. CASE Compare(s)
            BY <1>0, <6>1 DEF Compare, ScanStates
          <6>2. ASSUME NEW t \in Types, ReadStamps(s, t) PROVE scan'[s].at = "compare"
            BY <1>0, <6>2 DEF ReadStamps, ScanStates
          <6>3. ASSUME NEW t \in Types, SourceFails(s, t) PROVE scan'[s].at = "next"
            BY <1>0, <6>3 DEF SourceFails, ScanStates
          <6> QED
            BY <4>2, <6>1, <6>2, <6>3
        <5> QED
          BY <1>0, <4>1, <5>1
      <4>3. CASE Enqueue(s)
        <5>1. scan'[s].at = scan[s].at
          BY <1>0, <4>3 DEF Enqueue, ScanStates
        <5> QED
          BY <1>0, <4>1, <5>1
      <4> QED
        BY <2>4, <4>2, <4>3
    <3> QED
      BY <2>2, <3>1, <3>2, <3>3
  <2> QED
    BY <1>6, <2>1, <2>3, <2>4 DEF Scanner
<1>7. CASE Reindex
  <2>1. scan'["boot"] = scan["boot"]
    BY <1>0, <1>7 DEF Reindex
  <2> QED
    BY <1>7, <2>1 DEF Reindex, VectorsAwaited, Missing, Indexed, index, embedder
<1>8. CASE Embedder
  <2>1. CASE BeginRound \/ PickBatch \/ GiveUp
    BY <1>0, <2>1 DEF BeginRound, PickBatch, GiveUp, VectorsAwaited, EmbedStates
  <2>2. CASE EndRound
    <3>1. Missing' = {}
      BY <2>2 DEF EndRound, Missing, Indexed, index
    <3> QED
      BY <3>1 DEF VectorsAwaited
  <2>3. CASE StoreVector
    <3>1. UNCHANGED <<rows, kick, stalled, scan>> /\ embed'.at = embed.at
      BY <1>0, <2>3 DEF StoreVector, indexer, EmbedStates
    <3>2. Missing' \subseteq Missing
      <4>1. PICK c \in Chunks : embed.batch[c] # NoRow /\ vec' = [vec EXCEPT ![c] = embed.batch[c]]
        BY <2>3 DEF StoreVector
      <4> QED
        BY <3>1, <4>1 DEF Missing, Indexed, TypeOK
    <3> QED
      BY <3>1, <3>2 DEF VectorsAwaited
  <2> QED
    BY <1>8, <2>1, <2>2, <2>3 DEF Embedder
<1>9. CASE Restart
  <2>1. scan'["boot"].at = "schema"
    BY <1>9 DEF Restart, Booting, NoScan, Scans
  <2> QED
    BY <2>1 DEF VectorsAwaited
<1> QED
  BY <1>2, <1>3, <1>5, <1>6, <1>7, <1>8, <1>9 DEF Next

\* While a row has no vector, a round is under way or due, the boot's scan is not
\* through, or a kick was dropped or a round broken off (semantic.go backfill,
\* kickEmbed): a kick that comes during a round, or between its last look and its
\* end, is not lost on the worker.
THEOREM VectorsAwaitedInvariant == Spec => []VectorsAwaited
<1>1. Init => VectorsAwaited
  BY DEF Init, VectorsAwaited, Missing, Indexed
<1>2. TypeOK /\ VectorsAwaited /\ [Next]_vars => VectorsAwaited'
  BY NextAwaited
<1> QED
  BY <1>1, <1>2, TypeCorrect, PTL DEF Spec

-----------------------------------------------------------------------------
(* Healing.                                                                 *)

\* What the entity says now of a chunk; the row says the same.
Doc(c) == Docs(c[1], CardOf(c[1]))[c]
Says(r, c) == r.title = Doc(c).title /\ r.body = Doc(c).body

\* A change is applied to a chunk; it is queued; the worker has it in hand.
Covers(j, c) == j.of = c[1] /\ j.anchor \in {NoMsg, c[2]}
Queued(c) == \E i \in 1..Len(queue) : Covers(queue[i], c)
Held(c) == work.at # "idle" /\ Covers(work.job, c)

\* What the worker holds for a chunk is what the entity says.
Knows(card, e) == card.title = CardOf(e).title /\ (card = NoRow <=> CardOf(e) = NoRow)
Fresh(c) ==
  /\ Held(c)
  /\ work.at = "gather" => Knows(work.card, c[1])
  /\ work.at = "write" => Says(work.docs[c], c)

\* A scan has yet to look at an entity, or has found it out of step; it sees
\* nothing of a write within the slack.
Watched(s, e) ==
  /\ e \notin rushed
  /\ \/ "plain" \in scan[s].types
     \/ scan[s].at = "compare" /\ scan[s].of = "plain" /\ scan[s].live[e] = stamp[e]
     \/ e \in scan[s].todo

Orderly ==
  /\ work.at = "idle" => work = NoWork
  /\ work.card.body = 0
  /\ \A s \in Scans : scan[s].at = "compare" => scan[s].todo = {}

\* A row whose time is within the slack of its entity's stamp was read after the
\* last write, unless that came within the slack of the one before.
Fits(r, e) ==
  /\ r.at = 0 => r = NoRow
  /\ r.at <= title[e]
  /\ r.body = 0
  /\ stamp[e] # 0 /\ e \notin rushed /\ stamp[e] <= r.at + Slack /\ r.at # 0 =>
       r.title = title[e]

DatedAt(e) ==
  /\ stamp[e] \in {0, title[e]}
  /\ title[e] <= clock
  /\ Fits(rows[<<e, NoMsg>>], e)
  /\ work.at = "gather" /\ work.job.of = e => Fits(work.card, e)
  /\ work.at = "write" /\ work.job.of = e => Fits(work.docs[<<e, NoMsg>>], e)
Dated == \A e \in Plain : DatedAt(e)

\* When the worker holds something out of date, the change is queued behind it.
RequeuedAt(c) == c[1] \notin missed /\ Held(c) => Fresh(c) \/ Queued(c)
Requeued == \A c \in Chunks : RequeuedAt(c)

\* A chunk is right, or is about to be: by the worker, the queue or a scan.
HealingAt(c) ==
  c[1] \notin missed =>
    \/ Says(rows[c], c) \/ Fresh(c) \/ Queued(c)
    \/ c[1] \in Plain /\ \E s \in Scans : Watched(s, c[1])
Healing == \A c \in Chunks : HealingAt(c)

\* One chunk of a projection (SearchIndex Docs).
LEMMA DocIs ==
    ASSUME NEW c \in Chunks, NEW card
    PROVE  Docs(c[1], card)[c] =
             IF card = NoRow THEN NoRow
             ELSE IF c[2] = NoMsg THEN card
             ELSE IF said[c[2]] = 0 THEN NoRow
             ELSE [title |-> card.title, body |-> said[c[2]], at |-> said[c[2]]]
  BY DEF Docs, MessageRow

\* A card is no row exactly if there is no such entity.
LEMMA CardIs ==
    ASSUME NEW e \in Entities
    PROVE  /\ CardOf(e) = NoRow <=> stamp[e] = 0
           /\ CardOf(e).title = IF stamp[e] = 0 THEN 0 ELSE title[e]
           /\ CardOf(e).at = stamp[e]
           /\ CardOf(e).body = 0
  BY DEF CardOf, NoRow

\* A projection from a card that says what the entity says.
LEMMA KnowsSays ==
    ASSUME NEW c \in Chunks, NEW card, Knows(card, c[1]), card.body = 0
    PROVE  Says(Docs(c[1], card)[c], c)
<1>1. Doc(c) = Docs(c[1], CardOf(c[1]))[c]
  BY DEF Doc
<1>2. CardOf(c[1]).body = 0
  BY CardIs, ChunkFacts
<1>3. CASE card = NoRow
  BY <1>1, <1>3, DocIs DEF Says, Knows
<1>4. CASE card # NoRow
  <2>1. CardOf(c[1]) # NoRow /\ card.title = CardOf(c[1]).title
    BY <1>4 DEF Knows
  <2>2. CASE c[2] = NoMsg
    BY <1>1, <1>2, <1>4, <2>1, <2>2, DocIs, ZenonT(60) DEF Says
  <2>3. CASE c[2] # NoMsg
    <3>1. Docs(c[1], card)[c] = IF said[c[2]] = 0 THEN NoRow
            ELSE [title |-> card.title, body |-> said[c[2]], at |-> said[c[2]]]
      BY <1>4, <2>3, DocIs
    <3>2. Doc(c) = IF said[c[2]] = 0 THEN NoRow
            ELSE [title |-> card.title, body |-> said[c[2]], at |-> said[c[2]]]
      <4> DEFINE own == CardOf(c[1])
      <4>1. own # NoRow /\ own.title = card.title
        BY <2>1
      <4>2. Doc(c) = Docs(c[1], own)[c]
        BY <1>1
      <4> HIDE DEF own
      <4> QED
        BY <2>3, <4>1, <4>2, DocIs
    <3> QED
      BY <3>1, <3>2 DEF Says
  <2> QED
    BY <2>2, <2>3
<1> QED
  BY <1>3, <1>4

\* What an entity says depends on whether there is one, its title and the message.
LEMMA SameDoc ==
    ASSUME NEW c \in Chunks,
           stamp'[c[1]] = 0 <=> stamp[c[1]] = 0,
           stamp[c[1]] # 0 => title'[c[1]] = title[c[1]],
           c[2] # NoMsg => said'[c[2]] = said[c[2]]
    PROVE  /\ Doc(c)'.title = Doc(c).title /\ Doc(c)'.body = Doc(c).body
           /\ CardOf(c[1])'.title = CardOf(c[1]).title
           /\ CardOf(c[1])' = NoRow <=> CardOf(c[1]) = NoRow
<1>1. /\ CardOf(c[1])'.title = CardOf(c[1]).title
      /\ CardOf(c[1])' = NoRow <=> CardOf(c[1]) = NoRow
  BY DEF CardOf, NoRow
<1>2. CASE stamp[c[1]] = 0
  <2>1. Doc(c) = NoRow /\ Doc(c)' = NoRow
    BY <1>2 DEF Doc, Docs, CardOf
  <2> QED
    BY <1>1, <2>1
<1>3. CASE stamp[c[1]] # 0
  <2>1. /\ CardOf(c[1]) = [title |-> title[c[1]], body |-> 0, at |-> stamp[c[1]]]
        /\ CardOf(c[1])' = [title |-> title[c[1]], body |-> 0, at |-> stamp'[c[1]]]
    BY <1>3 DEF CardOf
  <2>2. CASE c[2] = NoMsg
    <3>1. Doc(c) = CardOf(c[1]) /\ Doc(c)' = CardOf(c[1])'
      BY <2>2 DEF Doc, Docs
    <3> QED
      BY <1>1, <2>1, <3>1
  <2>3. CASE c[2] # NoMsg
    <3>1. /\ Doc(c) = MessageRow(CardOf(c[1]), c[2])
          /\ Doc(c)' = MessageRow(CardOf(c[1]), c[2])'
      BY <1>3, <2>3 DEF Doc, Docs, CardOf, NoRow, MessageRow
    <3> QED
      BY <1>1, <2>1, <2>3, <3>1 DEF MessageRow
  <2> QED
    BY <2>2, <2>3
<1> QED
  BY <1>2, <1>3

\* The source has not changed.
LEMMA SourceKept ==
    ASSUME UNCHANGED source, NEW c \in Chunks
    PROVE  Doc(c)' = Doc(c) /\ CardOf(c[1])' = CardOf(c[1])
  BY DEF source, Doc, Docs, CardOf, MessageRow

\* What is queued when a change is appended.
LEMMA AppendedQueue ==
    ASSUME TypeOK, NEW j \in Changes, queue' = Append(queue, j), NEW c \in Chunks
    PROVE  (Queued(c) => Queued(c)') /\ (Covers(j, c) => Queued(c)')
<1>1. /\ Len(queue') = Len(queue) + 1 /\ Len(queue) \in Nat
      /\ \A i \in 1..Len(queue) : queue'[i] = queue[i]
      /\ queue'[Len(queue) + 1] = j
  BY AppendFacts DEF TypeOK
<1> QED
  BY <1>1 DEF Queued, Covers

\* What a write leaves in the queue.
LEMMA ChangedQueue ==
    ASSUME TypeOK, NEW e \in Entities, NEW m, Change(e, m) \in Changes,
           NEW S, Changed(e, m, S), NEW c \in Chunks
    PROVE  /\ missed \subseteq missed' /\ S \subseteq missed'
           /\ Queued(c) => Queued(c)'
           /\ c[1] = e /\ m \in {NoMsg, c[2]} => c[1] \in missed' \/ Queued(c)'
<1>1. CASE Full
  BY <1>1 DEF Changed, Queued
<1>2. CASE ~Full
  <2>1. queue' = Append(queue, Change(e, m)) /\ missed' = missed \cup S
    BY <1>2 DEF Changed
  <2>2. c[1] = e /\ m \in {NoMsg, c[2]} => Covers(Change(e, m), c)
    BY DEF Covers, Change
  <2> QED
    BY <2>1, <2>2, AppendedQueue
<1> QED
  BY <1>1, <1>2

\* What is queued when the worker takes the head.
LEMMA TakenQueue ==
    ASSUME TypeOK, queue # <<>>, queue' = Tail(queue), NEW c \in Chunks, Queued(c)
    PROVE  Covers(Head(queue), c) \/ Queued(c)'
<1>1. PICK i \in 1..Len(queue) : Covers(queue[i], c)
  BY DEF Queued
<1>2. /\ Len(queue') = Len(queue) - 1 /\ Len(queue) \in Nat
      /\ \A k \in 1..Len(queue) - 1 : queue'[k] = queue[k + 1]
      /\ Head(queue) = queue[1]
  BY TailFacts DEF TypeOK
<1>3. CASE i = 1
  BY <1>1, <1>2, <1>3
<1>4. CASE i # 1
  <2>1. i - 1 \in 1..Len(queue') /\ queue'[i - 1] = queue[i]
    BY <1>2, <1>4
  <2> QED
    BY <1>1, <2>1 DEF Queued, Covers
<1> QED
  BY <1>3, <1>4

\* The newest row of an entity that is projected whole is its only row.
LEMMA PlainStamp ==
    ASSUME TypeOK, NEW e \in Plain
    PROVE  IndexStamp(e) = rows[<<e, NoMsg>>].at
<1> DEFINE d == <<e, NoMsg>>
           T == {0} \cup {rows[c].at : c \in ChunksOf(e)}
           P(t) == \A c \in ChunksOf(e) : rows[c].at <= t
<1>1. ChunksOf(e) = {d}
  BY ChunkFacts, OwnChunk DEF ChunksOf, Entities
<1>2. d \in Chunks
  BY OwnChunk DEF Entities
<1>3. rows[d].at \in Nat
  BY <1>2 DEF TypeOK, Rows, Times
<1>4. rows[d].at \in T /\ P(rows[d].at)
  BY <1>1, <1>3
<1>5. \A t \in T : P(t) => t = rows[d].at
  BY <1>1, <1>3
<1>6. IndexStamp(e) = CHOOSE t \in T : P(t)
  BY DEF IndexStamp
<1> HIDE DEF T, P
<1> QED
  BY <1>4, <1>5, <1>6

-----------------------------------------------------------------------------
LEMMA InitHealing == ASSUME Init PROVE Orderly /\ Dated /\ Requeued /\ Healing
<1>1. Orderly
  BY DEF Init, Orderly, NoWork, NoRow, NoScan
<1>2. ASSUME NEW c \in Chunks PROVE rows[c] = Doc(c)
  BY <1>2 DEF Init, Doc
<1>3. Healing
  BY <1>2 DEF Healing, HealingAt, Says
<1>4. Requeued
  BY DEF Init, Requeued, RequeuedAt, Held, NoWork
<1>5. ASSUME NEW e \in Plain PROVE DatedAt(e)
  <2>1. <<e, NoMsg>> \in Chunks /\ e \in Entities
    BY OwnChunk DEF Entities
  <2>2. rows[<<e, NoMsg>>] = CardOf(e)
    <3> DEFINE d == <<e, NoMsg>>
    <3>1. d \in Chunks /\ d[1] = e /\ d[2] = NoMsg
      BY <2>1
    <3> HIDE DEF d
    <3>2. rows[d] = Docs(e, CardOf(e))[d]
      BY <1>2, <3>1 DEF Doc
    <3>3. Docs(e, CardOf(e))[d] = CardOf(e)
      BY <3>1, DocIs
    <3> QED
      BY <3>2, <3>3 DEF d
  <2>3. stamp[e] = 1 /\ title[e] = 1 /\ clock = 1
    BY <2>1 DEF Init
  <2>4. CardOf(e) = [title |-> 1, body |-> 0, at |-> 1]
    BY <2>3 DEF CardOf
  <2>5. Fits(rows[<<e, NoMsg>>], e)
    BY <2>2, <2>3, <2>4 DEF Fits
  <2> QED
    BY <2>3, <2>5 DEF DatedAt, Init, NoWork
<1> QED
  BY <1>1, <1>3, <1>4, <1>5 DEF Dated

\* Orderly: what rests is empty.
LEMMA NextOrderly == ASSUME TypeOK, Orderly, [Next]_vars PROVE Orderly'
<1>1. ASSUME UNCHANGED <<work, scan>> PROVE Orderly'
  BY <1>1 DEF Orderly
<1>2. CASE UNCHANGED vars
  BY <1>1, <1>2 DEF vars, indexer
<1>3. CASE \/ \E e \in Entities : Edit(e) \/ Delete(e) \/ CopyFails(e)
           \/ \E m \in Messages : Send(m) \/ Finalize(m)
  BY <1>1, <1>3 DEF Edit, Delete, CopyFails, Send, Finalize, indexer
<1>4. CASE Worker
  <2>1. CASE Take
    <3>1. CardOf(Head(queue).of).body = 0
      BY DEF CardOf, NoRow
    <3> QED
      BY <2>1, <3>1 DEF Take, Orderly, TypeOK, WorkStates
  <2>2. CASE Fallback
    <3>1. CardOf(work.job.of).body = 0
      BY DEF CardOf, NoRow
    <3> QED
      BY <2>2, <3>1 DEF Fallback, Orderly, TypeOK, WorkStates
  <2>3. CASE Gather
    BY <2>3 DEF Gather, Orderly, TypeOK, WorkStates, NoRow
  <2>4. CASE Apply \/ ApplyFails
    BY <2>4 DEF Apply, ApplyFails, Orderly, NoWork, NoRow
  <2> QED
    BY <1>4, <2>1, <2>2, <2>3, <2>4 DEF Worker
<1>5. ASSUME NEW s \in Scans, Scanner(s) PROVE Orderly'
  <2>1. work' = work
    BY <1>5 DEF Scanner, CheckSchema, Compare, Enqueue, EndScan, ReadStamps, SourceFails
  <2>2. \A r \in Scans : scan'[r].at = "compare" => scan'[r].todo = {}
    <3>1. \A r \in Scans \ {s} : scan'[r] = scan[r]
      BY <1>5 DEF Scanner, CheckSchema, Compare, Enqueue, EndScan, ReadStamps, SourceFails, TypeOK
    <3>2. scan'[s].at = "compare" => scan'[s].todo = {}
      <4>0. scan \in [Scans -> ScanStates] /\ scan[s] \in ScanStates
        BY DEF TypeOK
      <4>1. CASE CheckSchema(s) \/ Compare(s) \/ EndScan(s)
        BY <4>0, <4>1 DEF CheckSchema, Compare, EndScan, ScanStates, NoScan
      <4>2. CASE Enqueue(s)
        BY <4>0, <4>2 DEF Enqueue, ScanStates, Orderly
      <4>3. CASE \E t \in Types : ReadStamps(s, t) \/ SourceFails(s, t)
        BY <4>0, <4>3 DEF ReadStamps, SourceFails, ScanStates
      <4> QED
        BY <1>5, <4>1, <4>2, <4>3 DEF Scanner
    <3> QED
      BY <3>1, <3>2 DEF Orderly
  <2> QED
    BY <2>1, <2>2 DEF Orderly
<1>6. CASE Reindex
  BY <1>6 DEF Reindex, Orderly, TypeOK, NoScan, Scans
<1>7. CASE Embedder
  BY <1>1, <1>7 DEF Embedder, BeginRound, PickBatch, EndRound, StoreVector, GiveUp, indexer
<1>8. CASE Restart
  BY <1>8 DEF Restart, Orderly, NoWork, NoRow, Booting, NoScan
<1> QED
  BY <1>2, <1>3, <1>4, <1>5, <1>6, <1>7, <1>8 DEF Next

\* A row goes on to fit an entity that is written or deleted.
LEMMA FitsKept ==
    ASSUME TypeOK, NEW e \in Entities, NEW r \in Rows, Fits(r, e), title[e] <= clock,
           clock < clock', clock' \in Nat,
           \/ stamp'[e] = 0 /\ title'[e] = title[e]
           \/ /\ stamp'[e] = clock' /\ title'[e] = clock'
              /\ e \in rushed' <=> clock' <= title[e] + Slack
    PROVE  Fits(r, e)'
<1>1. r.at \in Nat /\ title[e] \in Nat /\ clock \in Nat /\ Slack \in Nat
  BY BoundsAssumption DEF TypeOK, Rows, Times
<1>2. r.at <= title[e] /\ r.body = 0 /\ (r.at = 0 => r = NoRow)
  BY DEF Fits
<1>3. r.at <= title'[e]
  BY <1>1, <1>2
<1>4. stamp'[e] # 0 /\ e \notin rushed' => ~(stamp'[e] <= r.at + Slack)
  BY <1>1, <1>2
<1> QED
  BY <1>2, <1>3, <1>4 DEF Fits

\* Dated: along the writes.
LEMMA WriteDated ==
    ASSUME TypeOK, TypeOK', Dated,
           \/ \E e \in Entities : Edit(e) \/ Delete(e) \/ CopyFails(e)
           \/ \E m \in Messages : Send(m) \/ Finalize(m)
    PROVE  Dated'
<1> SUFFICES ASSUME NEW e \in Plain PROVE DatedAt(e)'
  BY DEF Dated
<1>1. /\ e \in Entities /\ e # Conv /\ <<e, NoMsg>> \in Chunks /\ DatedAt(e)
  BY NamesAssumption, OwnChunk DEF Entities, Dated
<1>2. clock \in Nat /\ clock' \in Nat /\ clock < clock' /\ title[e] \in Nat
  <2>1. \E n \in Gaps : Tick(n) \/ Tick(n + 1)
    BY DEF Edit, Delete, CopyFails, Send, Finalize
  <2>2. title[e] \in Nat
    BY <1>1, BoundsAssumption DEF TypeOK, Times
  <2> QED
    BY <2>1, <2>2, TickFacts
<1>3. \/ /\ stamp'[e] = stamp[e] /\ title'[e] = title[e]
         /\ e \in rushed' <=> e \in rushed
      \/ stamp'[e] = 0 /\ title'[e] = title[e]
      \/ /\ stamp'[e] = clock' /\ title'[e] = clock'
         /\ e \in rushed' <=> clock' <= title[e] + Slack
  <2>1. ASSUME NEW T, Written(T)
        PROVE  \/ /\ stamp'[e] = stamp[e] /\ title'[e] = title[e]
                  /\ e \in rushed' <=> e \in rushed
               \/ /\ stamp'[e] = clock' /\ title'[e] = clock'
                  /\ e \in rushed' <=> clock' <= title[e] + Slack
    <3>1. /\ title'[e] = IF e \in T THEN clock' ELSE title[e]
          /\ stamp'[e] = IF e \in T THEN clock' ELSE stamp[e]
      BY <1>1, <2>1 DEF Written
    <3>2. rushed' = (rushed \ T) \cup {d \in T : clock' <= title[d] + Slack}
      BY <2>1 DEF Written
    <3>3. CASE e \in T
      BY <3>1, <3>2, <3>3
    <3>4. CASE e \notin T
      BY <3>1, <3>2, <3>4
    <3> QED
      BY <3>3, <3>4
  <2>2. ASSUME NEW x \in Entities, Edit(x) \/ CopyFails(x) PROVE \E T : Written(T)
    BY <2>2 DEF Edit, CopyFails
  <2>3. ASSUME NEW x \in Entities, Delete(x)
        PROVE  /\ title'[e] = title[e]
               /\ stamp'[e] = 0 \/ (stamp'[e] = stamp[e] /\ (e \in rushed' <=> e \in rushed))
    <3>1. PICK S \in Beneath(x) :
            /\ stamp' = [d \in Entities |-> IF d \in {x} \cup S THEN 0 ELSE stamp[d]]
            /\ rushed' = rushed \ ({x} \cup S)
      BY <2>3 DEF Delete
    <3>2. title' = title
      BY <2>3 DEF Delete
    <3>3. CASE e \in {x} \cup S
      BY <1>1, <3>1, <3>2, <3>3
    <3>4. CASE e \notin {x} \cup S
      BY <1>1, <3>1, <3>2, <3>4
    <3> QED
      BY <3>3, <3>4
  <2>4. ASSUME NEW m \in Messages, Send(m) \/ Finalize(m)
        PROVE  stamp'[e] = stamp[e] /\ title'[e] = title[e] /\ rushed' = rushed
    BY <1>1, <2>4 DEF Send, Finalize, TypeOK
  <2> QED
    BY <2>1, <2>2, <2>3, <2>4
<1>4. rows' = rows /\ work' = work
  BY DEF Edit, Delete, CopyFails, Send, Finalize, index, indexer
<1>5. /\ work.card \in Rows
      /\ rows[<<e, NoMsg>>] \in Rows /\ work.docs[<<e, NoMsg>>] \in Rows
  BY <1>1 DEF TypeOK, WorkStates
<1>6. stamp[e] \in {0, title[e]} /\ title[e] <= clock
  BY <1>1 DEF DatedAt
<1>7. ASSUME NEW r \in Rows, Fits(r, e) PROVE Fits(r, e)'
  <2>1. CASE stamp'[e] = stamp[e] /\ title'[e] = title[e] /\ (e \in rushed' <=> e \in rushed)
    BY <1>7, <2>1 DEF Fits
  <2> QED
    BY <1>1, <1>2, <1>3, <1>6, <1>7, <2>1, FitsKept
<1>8. stamp'[e] \in {0, title'[e]} /\ title'[e] <= clock'
  BY <1>2, <1>3, <1>6
<1>9. Fits(rows[<<e, NoMsg>>], e)'
  BY <1>1, <1>4, <1>5, <1>7 DEF DatedAt
<1>10. work.at = "gather" /\ work.job.of = e => Fits(work.card, e)'
  BY <1>1, <1>4, <1>5, <1>7 DEF DatedAt
<1>11. work.at = "write" /\ work.job.of = e => Fits(work.docs[<<e, NoMsg>>], e)'
  BY <1>1, <1>4, <1>5, <1>7 DEF DatedAt
<1> QED
  BY <1>4, <1>8, <1>9, <1>10, <1>11 DEF DatedAt

\* Dated: along the steps of the index worker.
LEMMA WorkerDated == ASSUME TypeOK, Orderly, Dated, Worker PROVE Dated'
<1> SUFFICES ASSUME NEW e \in Plain PROVE DatedAt(e)'
  BY DEF Dated
<1> DEFINE d == <<e, NoMsg>>
<1>1. /\ e \in Entities /\ e # Conv /\ d \in Chunks /\ DatedAt(e)
  BY NamesAssumption, OwnChunk DEF Entities, Dated
<1>2. UNCHANGED <<stamp, title, clock, rushed>>
  BY DEF Worker, Take, Fallback, Gather, Apply, ApplyFails, source
<1>3. Fits(CardOf(e), e) /\ Fits(NoRow, e)
  <2>1. title[e] \in Nat /\ stamp[e] \in {0, title[e]}
    BY <1>1, BoundsAssumption DEF DatedAt, TypeOK, Times
  <2>2. Fits(NoRow, e)
    BY <2>1 DEF Fits, NoRow
  <2>3. Fits(CardOf(e), e)
    BY <2>1, <2>2 DEF Fits, CardOf
  <2> QED
    BY <2>2, <2>3
<1>0. ASSUME NEW r, Fits(r, e) PROVE Fits(r, e)'
  BY <1>0, <1>2 DEF Fits
<1>4. work \in WorkStates /\ work.job \in Changes
  BY DEF TypeOK, WorkStates
<1> HIDE DEF d
<1>5. CASE Take
  <2>1. rows' = rows /\ work' = [work EXCEPT !.at = "gather", !.job = Head(queue), !.card = CardOf(Head(queue).of)]
    BY <1>5 DEF Take, index
  <2> QED
    BY <1>0, <1>1, <1>2, <1>3, <1>4, <2>1 DEF DatedAt, Fits, WorkStates, d
<1>6. CASE Fallback
  <2>1. rows' = rows /\ work' = [work EXCEPT !.job.anchor = NoMsg, !.card = CardOf(work.job.of)]
    BY <1>6 DEF Fallback, index
  <2>2. work'.at = work.at /\ work'.card = CardOf(work.job.of) /\ work'.docs = work.docs
    BY <1>4, <2>1 DEF WorkStates
  <2>3. work'.job.of = work.job.of
    <3>1. work'.job = [work.job EXCEPT !.anchor = NoMsg]
      BY <1>4, <2>1 DEF WorkStates
    <3>2. work.job = [of |-> work.job.of, anchor |-> work.job.anchor]
      BY <1>4, ChangeFacts DEF Change
    <3> QED
      BY <3>1, <3>2
  <2> QED
    BY <1>1, <1>2, <1>3, <2>1, <2>2, <2>3 DEF DatedAt, Fits, d
<1>7. CASE Gather
  <2>1. rows' = rows /\ work'.at = "write" /\ work'.job = work.job /\ work.at = "gather"
    BY <1>4, <1>7 DEF Gather, index, WorkStates
  <2>2. ASSUME work.job.of = e PROVE Fits(work'.docs[d], e)
    <3>1. work.job.anchor = NoMsg
      BY <1>1, <1>4, <2>2, ChangeFacts
    <3>2. work'.docs = Docs(e, work.card)
      BY <1>4, <1>7, <2>2, <3>1 DEF Gather, WorkStates
    <3>3. d[1] = e /\ d[2] = NoMsg
      BY DEF d
    <3>4. work'.docs[d] = work.card \/ work'.docs[d] = NoRow
      BY <1>1, <3>2, <3>3, DocIs, ZenonT(60)
    <3> QED
      BY <1>1, <1>3, <2>1, <2>2, <3>4 DEF DatedAt
  <2> QED
    BY <1>1, <1>2, <2>1, <2>2 DEF DatedAt, Fits, d
<1>8. CASE Apply
  <2>1. work'.at = "idle"
    BY <1>8 DEF Apply, NoWork
  <2>2. rows'[d] = rows[d] \/ (work.job.of = e /\ rows'[d] = work.docs[d])
    <3>1. CASE work.job.anchor = NoMsg
      <4>1. d[1] = e
        BY DEF d
      <4>2. rows' = [c \in Chunks |-> IF c[1] = work.job.of THEN work.docs[c] ELSE rows[c]]
        BY <1>8, <3>1 DEF Apply, ReplaceDocs
      <4> QED
        BY <1>1, <4>1, <4>2
    <3>2. CASE work.job.anchor # NoMsg
      <4>1. <<work.job.of, work.job.anchor>> # d
        BY <1>1, <1>4, <3>2, ChangeFacts DEF d
      <4> QED
        <5>1. rows' = [rows EXCEPT ![<<work.job.of, work.job.anchor>>] =
                         work.docs[<<work.job.of, work.job.anchor>>]]
          BY <1>8, <3>2 DEF Apply, UpsertDocAt
        <5> QED
          BY <1>1, <4>1, <5>1 DEF TypeOK
    <3> QED
      BY <3>1, <3>2
  <2>3. work.at = "write"
    BY <1>8 DEF Apply
  <2> QED
    BY <1>1, <1>2, <2>1, <2>2, <2>3 DEF DatedAt, Fits, d
<1>9. CASE ApplyFails
  BY <1>1, <1>2, <1>9 DEF ApplyFails, index, NoWork, DatedAt, Fits
<1> QED
  BY <1>5, <1>6, <1>7, <1>8, <1>9 DEF Worker

LEMMA NextDated == ASSUME TypeOK, Orderly, Dated, [Next]_vars PROVE Dated'
<1>1. ASSUME UNCHANGED <<clock, stamp, title, rushed, rows, work>> PROVE Dated'
  BY <1>1 DEF Dated, DatedAt, Fits
<1>2. CASE UNCHANGED vars
  BY <1>1, <1>2 DEF vars, source, index, indexer
<1>3. CASE \/ \E e \in Entities : Edit(e) \/ Delete(e) \/ CopyFails(e)
           \/ \E m \in Messages : Send(m) \/ Finalize(m)
  BY <1>3, WriteDated, WriteType
<1>4. CASE Worker
  BY <1>4, WorkerDated
<1>5. ASSUME NEW s \in Scans, Scanner(s) PROVE Dated'
  <2>1. CASE CheckSchema(s)
    <3>1. UNCHANGED <<clock, stamp, title, work, rushed>>
      BY <2>1 DEF CheckSchema, source
    <3>2. \A c \in Chunks : rows'[c] = NoRow \/ rows'[c] = rows[c]
      BY <2>1 DEF CheckSchema
    <3>3. \A e \in Plain : <<e, NoMsg>> \in Chunks /\ stamp[e] \in Times
      BY OwnChunk DEF Entities, TypeOK
    <3>4. ASSUME NEW e \in Plain PROVE Fits(NoRow, e)
      <4>1. title[e] \in Nat
        BY BoundsAssumption DEF TypeOK, Times, Entities
      <4> QED
        BY <4>1 DEF Fits, NoRow
    <3> QED
      BY <3>1, <3>2, <3>3, <3>4 DEF Dated, DatedAt, Fits
  <2>2. CASE Compare(s) \/ Enqueue(s) \/ EndScan(s) \/ \E t \in Types :
               ReadStamps(s, t) \/ SourceFails(s, t)
    BY <1>1, <2>2 DEF Compare, Enqueue, EndScan, ReadStamps, SourceFails, source, index
  <2> QED
    BY <1>5, <2>1, <2>2 DEF Scanner
<1>6. CASE Reindex
  BY <1>1, <1>6 DEF Reindex, source, index
<1>7. CASE Embedder
  BY <1>1, <1>7 DEF Embedder, BeginRound, PickBatch, EndRound, StoreVector, GiveUp,
                    source, index, indexer
<1>8. CASE Restart
  BY <1>8 DEF Restart, source, NoWork, Dated, DatedAt, Fits
<1> QED
  BY <1>2, <1>3, <1>4, <1>5, <1>6, <1>7, <1>8 DEF Next

-----------------------------------------------------------------------------
\* A chunk of which nothing changes, except that more is queued or lost.
LEMMA ChunkKept ==
    ASSUME NEW c \in Chunks, UNCHANGED <<rows, work, scan>>, missed \subseteq missed',
           Queued(c) => Queued(c)',
           c[1] \in Plain => stamp'[c[1]] = stamp[c[1]],
           c[1] \in rushed' <=> c[1] \in rushed,
           stamp'[c[1]] = 0 <=> stamp[c[1]] = 0,
           stamp[c[1]] # 0 => title'[c[1]] = title[c[1]],
           c[2] # NoMsg => said'[c[2]] = said[c[2]],
           RequeuedAt(c), HealingAt(c)
    PROVE  RequeuedAt(c)' /\ HealingAt(c)'
<1>1. /\ Doc(c)'.title = Doc(c).title /\ Doc(c)'.body = Doc(c).body
      /\ CardOf(c[1])'.title = CardOf(c[1]).title
      /\ CardOf(c[1])' = NoRow <=> CardOf(c[1]) = NoRow
  BY SameDoc
<1>2. Says(rows[c], c) => Says(rows[c], c)'
  BY <1>1 DEF Says
<1>3. Held(c)' <=> Held(c)
  BY DEF Held, Covers
<1>4. Fresh(c) => Fresh(c)'
  BY <1>1, <1>3 DEF Fresh, Knows, Says
<1>5. ASSUME c[1] \in Plain, NEW s \in Scans, Watched(s, c[1]) PROVE Watched(s, c[1])'
  BY <1>5 DEF Watched
<1>6. RequeuedAt(c)'
  BY <1>3, <1>4 DEF RequeuedAt
<1> QED
  BY <1>2, <1>4, <1>5, <1>6 DEF HealingAt

\* A chunk that is queued, or whose entity is given up, is accounted for.
LEMMA ChunkQueued ==
    ASSUME NEW c \in Chunks, c[1] \in missed' \/ Queued(c)'
    PROVE  RequeuedAt(c)' /\ HealingAt(c)'
  BY DEF RequeuedAt, HealingAt

LEMMA WriteHealing ==
    ASSUME TypeOK, NEW c \in Chunks, RequeuedAt(c), HealingAt(c),
           \/ \E e \in Entities : Edit(e) \/ Delete(e) \/ CopyFails(e)
           \/ \E m \in Messages : Send(m) \/ Finalize(m)
    PROVE  RequeuedAt(c)' /\ HealingAt(c)'
<1>1. /\ c[1] \in Entities /\ Conv \in Entities
      /\ c[2] # NoMsg => c[1] = Conv /\ c[2] \in Messages
      /\ c[1] \in Plain => c[1] # Conv
      /\ clock \in Nat
  <2>1. clock \in Nat
    BY BoundsAssumption DEF TypeOK, Times
  <2> QED
    BY <2>1, ChunkFacts, NamesAssumption DEF Entities
<1>2. ASSUME NEW e \in Entities, Edit(e) \/ Delete(e) \/ CopyFails(e)
      PROVE  RequeuedAt(c)' /\ HealingAt(c)'
  <2>1. PICK S \in Beneath(e) :
          /\ \/ Written({e} \cup S) /\ UNCHANGED said
             \/ /\ stamp' = [d \in Entities |-> IF d \in {e} \cup S THEN 0 ELSE stamp[d]]
                /\ rushed' = rushed \ ({e} \cup S) /\ UNCHANGED <<title, said>>
          /\ \/ Changed(e, NoMsg, S)
             \/ missed' = missed \cup {e} \cup S /\ UNCHANGED queue
    BY <1>2 DEF Edit, Delete, CopyFails, indexer
  <2>2. UNCHANGED <<rows, work, scan, said>>
    BY <1>2 DEF Edit, Delete, CopyFails, index, indexer
  <2>3. /\ missed \subseteq missed' /\ S \subseteq missed'
        /\ Queued(c) => Queued(c)'
        /\ c[1] = e => c[1] \in missed' \/ Queued(c)'
    <3>1. CASE Changed(e, NoMsg, S)
      BY <3>1, OwnChunk, ChangedQueue
    <3>2. CASE missed' = missed \cup {e} \cup S /\ UNCHANGED queue
      BY <3>2 DEF Queued, Covers
    <3> QED
      BY <2>1, <3>1, <3>2
  <2>4. CASE c[1] \in {e} \cup S
    BY <2>3, <2>4, ChunkQueued
  <2>5. CASE c[1] \notin {e} \cup S
    <3>1. stamp'[c[1]] = stamp[c[1]] /\ title'[c[1]] = title[c[1]]
      BY <1>1, <2>1, <2>5 DEF Written, TypeOK
    <3>2. c[1] \in rushed' <=> c[1] \in rushed
      BY <2>1, <2>5 DEF Written
    <3> QED
      BY <2>2, <2>3, <3>1, <3>2, ChunkKept
  <2> QED
    BY <2>4, <2>5
<1>3. ASSUME NEW m \in Messages, Send(m) \/ Finalize(m) PROVE RequeuedAt(c)' /\ HealingAt(c)'
  <2>1. Changed(Conv, m, {}) /\ Change(Conv, m) \in Changes
    BY <1>3, OwnChunk DEF Send, Finalize
  <2>2. UNCHANGED <<rows, work, scan, title, rushed>>
    BY <1>3 DEF Send, Finalize, index
  <2>3. CASE c[1] = Conv /\ c[2] = m
    BY <1>1, <2>1, <2>3, ChangedQueue, ChunkQueued
  <2>4. CASE ~(c[1] = Conv /\ c[2] = m)
    <3>1. c[2] # NoMsg => said'[c[2]] = said[c[2]]
      BY <1>1, <1>3, <2>4 DEF Send, Finalize, TypeOK
    <3>2. c[1] # Conv => stamp'[c[1]] = stamp[c[1]]
      BY <1>1, <1>3 DEF Send, Finalize, TypeOK
    <3>3. stamp'[Conv] = 0 <=> stamp[Conv] = 0
      <4>1. clock' # 0
        <5>1. \E n \in Gaps : Tick(n) \/ Tick(n + 1)
          BY <1>3 DEF Send, Finalize
        <5> QED
          BY <5>1, TickFacts
      <4> QED
        BY <1>1, <1>3, <4>1 DEF Send, Finalize, TypeOK
    <3>4. missed \subseteq missed' /\ (Queued(c) => Queued(c)')
      BY <1>1, <2>1, ChangedQueue
    <3> QED
      BY <1>1, <2>2, <3>1, <3>2, <3>3, <3>4, ChunkKept
  <2> QED
    BY <2>3, <2>4
<1> QED
  BY <1>2, <1>3

LEMMA WorkerHealing ==
    ASSUME TypeOK, Orderly, NEW c \in Chunks, RequeuedAt(c), HealingAt(c), Worker
    PROVE  RequeuedAt(c)' /\ HealingAt(c)'
<1>1. /\ UNCHANGED source /\ scan' = scan
      /\ Doc(c)' = Doc(c) /\ CardOf(c[1])' = CardOf(c[1]) /\ stamp' = stamp
  <2>1. UNCHANGED source /\ scan' = scan
    BY DEF Worker, Take, Fallback, Gather, Apply, ApplyFails
  <2> QED
    BY <2>1, SourceKept DEF source
<1>2. \A s \in Scans : Watched(s, c[1])' <=> Watched(s, c[1])
  BY <1>1 DEF Watched, source
<1>3. \A r : Says(r, c)' <=> Says(r, c)
  BY <1>1 DEF Says
<1>4. work \in WorkStates /\ work.job \in Changes
  BY DEF TypeOK, WorkStates
<1>5. CASE Take
  <2>1. /\ work.at = "idle" /\ queue # <<>> /\ queue' = Tail(queue) /\ rows' = rows
        /\ work'.at = "gather" /\ work'.job = Head(queue) /\ work'.card = CardOf(Head(queue).of)
    BY <1>4, <1>5 DEF Take, WorkStates, index
  <2>2. CASE Covers(Head(queue), c)
    <3>1. work'.card = CardOf(c[1])
      BY <2>1, <2>2 DEF Covers
    <3>2. Fresh(c)'
      BY <1>1, <2>1, <2>2, <3>1 DEF Fresh, Held, Covers, Knows
    <3> QED
      BY <3>2 DEF RequeuedAt, HealingAt
  <2>3. CASE ~Covers(Head(queue), c)
    <3>1. ~Held(c)' /\ ~Fresh(c)
      BY <2>1, <2>3 DEF Held, Fresh, Covers
    <3>2. c[1] \notin missed' => c[1] \notin missed
      BY <1>5, <2>3 DEF Take, Covers
    <3>3. Queued(c) => Queued(c)'
      BY <2>1, <2>3, TakenQueue
    <3> QED
      BY <1>2, <1>3, <2>1, <3>1, <3>2, <3>3 DEF RequeuedAt, HealingAt
  <2> QED
    BY <2>2, <2>3
<1>6. CASE Fallback
  <2>1. /\ work.at = "gather" /\ work'.at = "gather" /\ rows' = rows /\ queue' = queue
        /\ work'.card = CardOf(work.job.of) /\ work'.job = [work.job EXCEPT !.anchor = NoMsg]
        /\ missed' = missed \ {work.job.of}
    BY <1>4, <1>6 DEF Fallback, WorkStates, index
  <2>2. work'.job.of = work.job.of /\ work'.job.anchor = NoMsg
    <3>1. work.job = [of |-> work.job.of, anchor |-> work.job.anchor]
      BY <1>4, ChangeFacts DEF Change
    <3> QED
      BY <2>1, <3>1
  <2>3. CASE c[1] = work.job.of
    <3>1. Fresh(c)'
      BY <1>1, <2>1, <2>2, <2>3 DEF Fresh, Held, Covers, Knows
    <3> QED
      BY <3>1 DEF RequeuedAt, HealingAt
  <2>4. CASE c[1] # work.job.of
    <3>1. ~Held(c)' /\ ~Fresh(c)
      BY <2>2, <2>4 DEF Held, Fresh, Covers
    <3>2. Queued(c)' <=> Queued(c)
      BY <2>1 DEF Queued, Covers
    <3> QED
      BY <1>2, <1>3, <2>1, <2>4, <3>1, <3>2 DEF RequeuedAt, HealingAt
  <2> QED
    BY <2>3, <2>4
<1>7. CASE Gather
  <2>1. /\ work.at = "gather" /\ work'.at = "write" /\ work'.job = work.job
        /\ rows' = rows /\ queue' = queue /\ missed' = missed
    BY <1>4, <1>7 DEF Gather, WorkStates, index
  <2>2. Held(c)' <=> Held(c)
    BY <2>1 DEF Held, Covers
  <2>3. ASSUME Fresh(c) PROVE Fresh(c)'
    <3>1. Covers(work.job, c) /\ Knows(work.card, c[1])
      BY <2>1, <2>3 DEF Fresh, Held
    <3>2. Says(Docs(c[1], work.card)[c], c)
      BY <3>1, KnowsSays DEF Orderly
    <3>3. work'.docs[c] = Docs(c[1], work.card)[c]
      <4>1. CASE work.job.anchor = NoMsg
        BY <1>4, <1>7, <3>1, <4>1 DEF Gather, WorkStates, Covers
      <4>2. CASE work.job.anchor # NoMsg
        <5>1. work.job.of = Conv /\ c = <<Conv, work.job.anchor>> /\ c[1] = Conv
          BY <1>4, <3>1, <4>2, ChangeFacts, ChunkFacts DEF Covers
        <5>2. work'.docs = [NoBatch EXCEPT ![<<Conv, work.job.anchor>>] =
                              Docs(Conv, work.card)[<<Conv, work.job.anchor>>]]
          BY <1>4, <1>7, <4>2, <5>1 DEF Gather, WorkStates
        <5> QED
          BY <5>1, <5>2 DEF NoBatch
      <4> QED
        BY <4>1, <4>2
    <3> QED
      BY <1>3, <2>1, <2>2, <2>3, <3>2, <3>3 DEF Fresh
  <2>4. Queued(c)' <=> Queued(c)
    BY <2>1 DEF Queued, Covers
  <2> QED
    BY <1>2, <1>3, <2>1, <2>2, <2>3, <2>4 DEF RequeuedAt, HealingAt
<1>8. CASE Apply
  <2>1. work.at = "write" /\ work'.at = "idle" /\ queue' = queue /\ missed' = missed
    BY <1>8 DEF Apply, NoWork
  <2>2. ~Held(c)'
    BY <2>1 DEF Held
  <2>3. Queued(c)' <=> Queued(c)
    BY <2>1 DEF Queued, Covers
  <2>4. CASE Held(c)
    <3>1. rows'[c] = work.docs[c]
      <4>1. CASE work.job.anchor = NoMsg
        BY <1>8, <2>4, <4>1 DEF Apply, ReplaceDocs, Held, Covers
      <4>2. CASE work.job.anchor # NoMsg
        <5>1. c = <<work.job.of, work.job.anchor>>
          BY <2>4, <4>2, ChunkFacts DEF Held, Covers
        <5>2. rows' = [rows EXCEPT ![c] = work.docs[c]]
          BY <1>8, <4>2, <5>1 DEF Apply, UpsertDocAt
        <5> QED
          BY <5>2 DEF TypeOK
      <4> QED
        BY <4>1, <4>2
    <3>2. Fresh(c) => Says(rows[c], c)'
      BY <1>1, <2>1, <3>1 DEF Fresh, Says
    <3> QED
      BY <2>1, <2>2, <2>3, <2>4, <3>2 DEF RequeuedAt, HealingAt
  <2>5. CASE ~Held(c)
    <3>1. rows'[c] = rows[c]
      <4>1. CASE work.job.anchor = NoMsg
        BY <1>8, <2>1, <2>5, <4>1 DEF Apply, ReplaceDocs, Held, Covers
      <4>2. CASE work.job.anchor # NoMsg
        <5> DEFINE d == <<work.job.of, work.job.anchor>>
        <5>1. c # d
          BY <2>1, <2>5 DEF Held, Covers
        <5>2. rows' = [rows EXCEPT ![d] = work.docs[d]]
          BY <1>8, <4>2 DEF Apply, UpsertDocAt
        <5> HIDE DEF d
        <5> QED
          BY <5>1, <5>2 DEF TypeOK
      <4> QED
        BY <4>1, <4>2
    <3>2. ~Fresh(c)
      BY <2>5 DEF Fresh
    <3>3. Says(rows[c], c) => Says(rows[c], c)'
      BY <1>1, <3>1 DEF Says
    <3> QED
      BY <1>2, <2>1, <2>2, <2>3, <3>2, <3>3 DEF RequeuedAt, HealingAt
  <2> QED
    BY <2>4, <2>5
<1>9. CASE ApplyFails
  <2>1. /\ rows' = rows /\ queue' = queue /\ work'.at = "idle"
        /\ missed' = missed \cup {work.job.of}
    BY <1>9 DEF ApplyFails, index, NoWork
  <2>2. ~Held(c)' /\ (c[1] # work.job.of => ~Fresh(c))
    BY <2>1 DEF Held, Fresh, Covers
  <2>3. Queued(c)' <=> Queued(c)
    BY <2>1 DEF Queued, Covers
  <2> QED
    BY <1>2, <1>3, <2>1, <2>2, <2>3 DEF RequeuedAt, HealingAt
<1> QED
  BY <1>5, <1>6, <1>7, <1>8, <1>9 DEF Worker

\* What a comparison that finds nothing has found: the row is the entity's.
LEMMA NotDiffers ==
    ASSUME TypeOK, NEW e \in Plain, DatedAt(e), NEW s \in Scans,
           scan[s].live[e] = stamp[e], ~Differs(s, e), e \notin rushed
    PROVE  Says(rows[<<e, NoMsg>>], <<e, NoMsg>>)
<1> DEFINE d == <<e, NoMsg>>
<1>1. d \in Chunks /\ d[1] = e /\ d[2] = NoMsg /\ e \in Entities
  BY OwnChunk DEF Entities
<1>2. stamp[e] \in Nat /\ rows[d].at \in Nat
  BY <1>1, BoundsAssumption DEF TypeOK, Rows, Times
<1>3. IndexStamp(e) = rows[d].at
  BY PlainStamp
<1>4. Fits(rows[d], e)
  BY DEF DatedAt
<1>5. /\ CardOf(e).title = IF stamp[e] = 0 THEN 0 ELSE title[e]
      /\ CardOf(e).body = 0
  BY <1>1, CardIs
<1> HIDE DEF d
<1>6. Doc(d) = CardOf(e)
  BY <1>1, DocIs DEF Doc
<1>7. CASE stamp[e] = 0
  <2>1. rows[d] = NoRow
    BY <1>2, <1>3, <1>4, <1>7 DEF Differs, Fits
  <2> QED
    BY <1>5, <1>6, <1>7, <2>1 DEF Says, NoRow, d
<1>8. CASE stamp[e] # 0
  <2>1. rows[d].at # 0 /\ stamp[e] <= rows[d].at + Slack
    BY <1>2, <1>3, <1>8, BoundsAssumption DEF Differs, OutOfStep
  <2>2. rows[d].title = title[e] /\ rows[d].body = 0
    BY <1>4, <1>8, <2>1 DEF Fits
  <2> QED
    BY <1>5, <1>6, <1>8, <2>2 DEF Says, d
<1> QED
  BY <1>7, <1>8

LEMMA ScannerHealing ==
    ASSUME TypeOK, Orderly, Dated, NEW c \in Chunks, RequeuedAt(c), HealingAt(c),
           NEW s \in Scans, Scanner(s)
    PROVE  RequeuedAt(c)' /\ HealingAt(c)'
<1>1. /\ UNCHANGED <<source, work>>
      /\ Doc(c)' = Doc(c) /\ CardOf(c[1])' = CardOf(c[1]) /\ stamp' = stamp
  <2>1. UNCHANGED <<source, work>>
    BY DEF Scanner, CheckSchema, Compare, Enqueue, EndScan, ReadStamps, SourceFails
  <2> QED
    BY <2>1, SourceKept DEF source
<1>2. /\ \A r : Says(r, c)' <=> Says(r, c)
      /\ Held(c)' <=> Held(c)
      /\ Fresh(c)' <=> Fresh(c)
  BY <1>1 DEF Says, Held, Covers, Fresh, Knows
<1>3. scan \in [Scans -> ScanStates] /\ scan[s] \in ScanStates
  BY DEF TypeOK
<1>4. \A r \in Scans \ {s} : Watched(r, c[1])' <=> Watched(r, c[1])
  <2>1. \A r \in Scans \ {s} : scan'[r] = scan[r]
    BY <1>3 DEF Scanner, CheckSchema, Compare, Enqueue, EndScan, ReadStamps, SourceFails
  <2> QED
    BY <1>1, <2>1 DEF Watched, source
<1>0. rushed' = rushed
  BY <1>1 DEF source
<1>5. \* nothing is read again, and the scan still watches
      ASSUME rows' = rows, Queued(c) => Queued(c)', c[1] \notin missed' => c[1] \notin missed,
             c[1] \in Plain /\ c[1] \notin missed' /\ Watched(s, c[1]) =>
                Watched(s, c[1])' \/ Queued(c)' \/ Says(rows[c], c)
      PROVE  RequeuedAt(c)' /\ HealingAt(c)'
  BY <1>2, <1>4, <1>5 DEF RequeuedAt, HealingAt
<1>6. CASE CheckSchema(s)
  <2>1. scan'[s].types = scan[s].types /\ scan'[s].todo = scan[s].todo /\ queue' = queue
        /\ scan[s].at = "schema"
    BY <1>3, <1>6 DEF CheckSchema, ScanStates
  <2>2. CASE outdated
    <3>1. c[1] \in missed'
      BY <1>6, <2>2, ChunkFacts DEF CheckSchema
    <3> QED
      BY <3>1, ChunkQueued
  <2>3. CASE ~outdated
    <3>1. rows' = rows /\ missed' = missed
      BY <1>6, <2>3 DEF CheckSchema
    <3>2. Queued(c)' <=> Queued(c)
      BY <2>1 DEF Queued, Covers
    <3>3. Watched(s, c[1]) => Watched(s, c[1])'
      BY <1>0, <2>1 DEF Watched
    <3> QED
      BY <1>5, <3>1, <3>2, <3>3
  <2> QED
    BY <2>2, <2>3
<1>7. ASSUME NEW t \in Types, ReadStamps(s, t) PROVE RequeuedAt(c)' /\ HealingAt(c)'
  <2>1. /\ scan[s].at = "next" /\ scan[s].todo = {}
        /\ scan'[s].types = scan[s].types \ {t} /\ scan'[s].of = t
        /\ scan'[s].live = Stamps(t) /\ scan'[s].at = "compare"
        /\ missed' = missed \ ((Of(t) \cap Plain) \ (InHand \cup rushed))
        /\ rows' = rows /\ queue' = queue
    BY <1>3, <1>7 DEF ReadStamps, ScanStates, index
  <2>2. Queued(c)' <=> Queued(c)
    BY <2>1 DEF Queued, Covers
  <2>3. CASE c[1] \in (Of(t) \cap Plain) \ rushed
    <3>1. t = "plain"
      BY <2>3, NamesAssumption DEF Of, Types
    <3>2. scan'[s].live[c[1]] = stamp'[c[1]]
      BY <1>1, <2>1, <2>3, <3>1, ChunkFacts, NamesAssumption DEF Stamps, Of
    <3>3. Watched(s, c[1])'
      BY <1>0, <2>1, <2>3, <3>1, <3>2 DEF Watched
    <3>4. Held(c) => c[1] \in InHand
      BY DEF Held, InHand, NoWork, Covers
    <3>5. RequeuedAt(c)'
      BY <1>2, <2>1, <2>2, <3>4 DEF RequeuedAt
    <3> QED
      BY <2>3, <3>3, <3>5 DEF HealingAt
  <2>4. CASE c[1] \notin (Of(t) \cap Plain) \ rushed
    <3>1. c[1] \in Plain \ rushed => t # "plain"
      BY <2>4 DEF Of
    <3>2. c[1] \in Plain /\ Watched(s, c[1]) => Watched(s, c[1])'
      BY <1>0, <2>1, <3>1 DEF Watched
    <3>3. c[1] \notin missed' => c[1] \notin missed
      BY <2>1, <2>4
    <3> QED
      BY <1>5, <2>1, <2>2, <3>2, <3>3
  <2> QED
    BY <2>3, <2>4
<1>8. ASSUME NEW t \in Types, SourceFails(s, t) PROVE RequeuedAt(c)' /\ HealingAt(c)'
  <2>1. /\ scan'[s].types = scan[s].types \ {t} /\ scan'[s].at = scan[s].at
        /\ scan[s].at = "next" /\ scan'[s].todo = scan[s].todo
        /\ missed' = missed \cup Of(t) /\ rows' = rows /\ queue' = queue
    BY <1>3, <1>8 DEF SourceFails, ScanStates, index
  <2>2. Queued(c)' <=> Queued(c)
    BY <2>1 DEF Queued, Covers
  <2>3. c[1] \in Plain /\ c[1] \notin missed' => t # "plain"
    BY <2>1 DEF Of
  <2>4. c[1] \in Plain /\ c[1] \notin missed' /\ Watched(s, c[1]) => Watched(s, c[1])'
    BY <1>0, <2>1, <2>3 DEF Watched
  <2> QED
    BY <1>5, <2>1, <2>2, <2>4
<1>9. CASE Compare(s)
  <2>1. /\ scan[s].at = "compare" /\ scan[s].todo = {}
        /\ scan'[s].types = scan[s].types
        /\ scan'[s].todo = {e \in Of(scan[s].of) : Differs(s, e)}
        /\ missed' = missed /\ rows' = rows /\ queue' = queue
    BY <1>3, <1>9 DEF Compare, ScanStates, index, Orderly
  <2>2. Queued(c)' <=> Queued(c)
    BY <2>1 DEF Queued, Covers
  <2>3. ASSUME c[1] \in Plain, Watched(s, c[1]) PROVE Watched(s, c[1])' \/ Says(rows[c], c)
    <3>1. CASE "plain" \in scan[s].types
      BY <1>0, <2>1, <2>3, <3>1 DEF Watched
    <3>2. CASE scan[s].of = "plain" /\ scan[s].live[c[1]] = stamp[c[1]]
      <4>1. CASE Differs(s, c[1])
        BY <1>0, <2>1, <2>3, <3>2, <4>1 DEF Watched, Of
      <4>2. CASE ~Differs(s, c[1])
        <5>1. c = <<c[1], NoMsg>>
          BY <2>3, ChunkFacts
        <5>2. Says(rows[<<c[1], NoMsg>>], <<c[1], NoMsg>>)
          BY <2>3, <3>2, <4>2, NotDiffers DEF Dated, Watched
        <5> QED
          BY <5>1, <5>2
      <4> QED
        BY <4>1, <4>2
    <3> QED
      BY <2>1, <2>3, <3>1, <3>2 DEF Watched
  <2> QED
    BY <1>5, <2>1, <2>2, <2>3
<1>10. CASE Enqueue(s)
  <2>1. PICK e \in scan[s].todo : /\ queue' = Append(queue, Change(e, NoMsg))
                                  /\ scan' = [scan EXCEPT ![s].todo = @ \ {e}]
    BY <1>10 DEF Enqueue
  <2>2. Change(e, NoMsg) \in Changes
    BY <1>3, <2>1, OwnChunk DEF ScanStates
  <2>3. /\ scan'[s].types = scan[s].types /\ scan'[s].at = scan[s].at
        /\ scan'[s].of = scan[s].of /\ scan'[s].live = scan[s].live
        /\ scan'[s].todo = scan[s].todo \ {e}
    BY <1>3, <2>1 DEF ScanStates
  <2>4. (Queued(c) => Queued(c)') /\ (c[1] = e => Queued(c)')
    BY <2>1, <2>2, AppendedQueue DEF Covers, Change
  <2>5. Watched(s, c[1]) => Watched(s, c[1])' \/ c[1] = e
    BY <1>0, <1>1, <2>3 DEF Watched
  <2>6. rows' = rows /\ missed' = missed
    BY <1>10 DEF Enqueue, index
  <2> QED
    BY <1>5, <2>4, <2>5, <2>6
<1>11. CASE EndScan(s)
  <2>1. ~Watched(s, c[1])
    BY <1>11 DEF EndScan, Watched
  <2>2. rows' = rows /\ missed' = missed /\ queue' = queue
    BY <1>11 DEF EndScan, index
  <2>3. Queued(c)' <=> Queued(c)
    BY <2>2 DEF Queued, Covers
  <2> QED
    BY <1>5, <2>1, <2>2, <2>3
<1> QED
  BY <1>6, <1>7, <1>8, <1>9, <1>10, <1>11 DEF Scanner

\* A chunk that is right, or about to be right by the worker or the queue, when
\* source and index worker stand still.
LEMMA StillHealing ==
    ASSUME UNCHANGED <<source, rows, work, queue, missed>>, NEW c \in Chunks,
           RequeuedAt(c), HealingAt(c),
           c[1] \in Plain /\ (\E s \in Scans : Watched(s, c[1])) =>
              \E s \in Scans : Watched(s, c[1])'
    PROVE  RequeuedAt(c)' /\ HealingAt(c)'
<1>1. Doc(c)' = Doc(c) /\ CardOf(c[1])' = CardOf(c[1])
  BY SourceKept
<1>2. /\ Says(rows[c], c)' <=> Says(rows[c], c)
      /\ Held(c)' <=> Held(c)
      /\ Fresh(c)' <=> Fresh(c)
      /\ Queued(c)' <=> Queued(c)
  BY <1>1 DEF Says, Held, Covers, Fresh, Knows, Queued
<1> QED
  BY <1>2 DEF RequeuedAt, HealingAt

LEMMA RestartHealing ==
    ASSUME TypeOK, NEW c \in Chunks, RequeuedAt(c), HealingAt(c), Restart
    PROVE  RequeuedAt(c)' /\ HealingAt(c)'
<1>1. ~Held(c)'
  BY DEF Restart, NoWork, Held
<1>2. RequeuedAt(c)'
  BY <1>1 DEF RequeuedAt
<1>3. CASE c[1] \in missed'
  BY <1>3, ChunkQueued
<1>4. CASE c[1] \notin missed'
  <2>1. c[1] \notin missed /\ c[1] \notin Pending
    BY <1>4 DEF Restart
  <2>2. ~Queued(c)
    BY <2>1 DEF Pending, Queued, Covers
  <2>3. ~Fresh(c)
    BY <2>1 DEF Pending, InHand, Fresh, Held, Covers, NoWork
  <2>4. Doc(c)' = Doc(c) /\ rows' = rows
    BY SourceKept DEF Restart
  <2>5. CASE Says(rows[c], c)
    BY <1>2, <2>4, <2>5 DEF HealingAt, Says
  <2>6. CASE c[1] \in Plain /\ \E s \in Scans : Watched(s, c[1])
    <3>1. scan'["boot"].types = Types /\ "boot" \in Scans /\ c[1] \notin rushed'
      BY <2>6 DEF Restart, Booting, NoScan, Scans, Watched, source
    <3>2. Watched("boot", c[1])'
      BY <3>1 DEF Watched, Types
    <3> QED
      BY <1>2, <2>6, <3>1, <3>2 DEF HealingAt
  <2> QED
    BY <2>1, <2>2, <2>3, <2>5, <2>6 DEF HealingAt
<1> QED
  BY <1>3, <1>4

LEMMA NextHealing ==
    ASSUME TypeOK, Orderly, Dated, Requeued, Healing, [Next]_vars
    PROVE  Requeued' /\ Healing'
<1> SUFFICES ASSUME NEW c \in Chunks PROVE RequeuedAt(c)' /\ HealingAt(c)'
  BY DEF Requeued, Healing
<1>0. RequeuedAt(c) /\ HealingAt(c)
  BY DEF Requeued, Healing
<1>1. CASE UNCHANGED vars
  <2>1. UNCHANGED <<source, rows, work, queue, missed, scan>>
    BY <1>1 DEF vars, index, indexer
  <2>2. \A s \in Scans : Watched(s, c[1]) => Watched(s, c[1])'
    BY <2>1 DEF Watched, source
  <2> QED
    BY <1>0, <2>1, <2>2, StillHealing
<1>2. CASE \/ \E e \in Entities : Edit(e) \/ Delete(e) \/ CopyFails(e)
           \/ \E m \in Messages : Send(m) \/ Finalize(m)
  BY <1>0, <1>2, WriteHealing
<1>3. CASE Worker
  BY <1>0, <1>3, WorkerHealing
<1>4. ASSUME NEW s \in Scans, Scanner(s) PROVE RequeuedAt(c)' /\ HealingAt(c)'
  BY <1>0, <1>4, ScannerHealing
<1>5. CASE Reindex
  <2>1. UNCHANGED <<source, rows, work, queue, missed>>
    BY <1>5 DEF Reindex, index
  <2>2. "reindex" \in Scans /\ scan'["reindex"].types = Types
    BY <1>5 DEF Reindex, Scans, NoScan, TypeOK
  <2>3. (\E s \in Scans : Watched(s, c[1])) => Watched("reindex", c[1])'
    BY <2>1, <2>2 DEF Watched, Types, source
  <2> QED
    BY <1>0, <2>1, <2>2, <2>3, StillHealing
<1>6. CASE Embedder
  <2>1. UNCHANGED <<source, rows, work, queue, missed, scan>>
    BY <1>6 DEF Embedder, BeginRound, PickBatch, EndRound, StoreVector, GiveUp, index, indexer
  <2>2. \A s \in Scans : Watched(s, c[1]) => Watched(s, c[1])'
    BY <2>1 DEF Watched, source
  <2> QED
    BY <1>0, <2>1, <2>2, StillHealing
<1>7. CASE Restart
  BY <1>0, <1>7, RestartHealing
<1> QED
  BY <1>1, <1>2, <1>3, <1>4, <1>5, <1>6, <1>7 DEF Next

\* What is neither queued nor in hand nor to be scanned is right.
LEMMA HealingHeals == ASSUME Healing PROVE IndexHeals
<1> SUFFICES ASSUME CaughtUp, NEW e \in Entities \ missed, NEW c \in ChunksOf(e)
             PROVE  Says(rows[c], c)
  BY DEF IndexHeals, Current, Says, Doc, ChunksOf
<1>1. c \in Chunks /\ c[1] = e
  BY DEF ChunksOf
<1>2. ~Queued(c) /\ ~Fresh(c)
  BY DEF CaughtUp, Queued, Fresh, Held, NoWork
<1>3. \A s \in Scans : ~Watched(s, c[1])
  BY DEF CaughtUp, Watched, NoScan
<1> QED
  BY <1>1, <1>2, <1>3 DEF Healing, HealingAt

\* Once queue, worker and scans are through, every row says what its entity says,
\* whatever was dropped before the comparison of the last boot, and whatever crash
\* or rebuild came between (indexer.go reconcile).
THEOREM IndexHealsInvariant == Spec => []IndexHeals
<1> DEFINE IInv == Orderly /\ Dated /\ Requeued /\ Healing
<1>1. Init => IInv
  BY InitHealing
<1>2. TypeOK /\ IInv /\ [Next]_vars => IInv'
  BY NextOrderly, NextDated, NextHealing
<1>3. IInv => IndexHeals
  BY HealingHeals
<1> QED
  BY <1>1, <1>2, <1>3, TypeCorrect, PTL DEF Spec
===============================================================================
