----------------------------- MODULE SearchIndex -----------------------------
(***************************************************************************)
(* The search index of one workspace (app/search, infra/search): rows that *)
(* are a projection of the entities, and vectors computed from the rows.   *)
(* A write of an entity puts a change in a bounded queue and never waits;  *)
(* one worker reads the entity again and writes its rows; a second worker  *)
(* embeds the rows that have no vector; a scan compares time stamps at     *)
(* boot, or sends everything on demand, to heal what the queue lost.       *)
(*                                                                         *)
(* An entity is projected whole, except that a conversation's messages can *)
(* be upserted one by one.  Documents form a tree, and a write of one may  *)
(* write those under it, of which the index is told nothing.  A text is    *)
(* named by the time it was written; a time is the value of the clock.     *)
(* Rows that are replaced get new ids, so vectors under way for the old    *)
(* ones are lost; an upsert keeps the id.                                  *)
(***************************************************************************)
EXTENDS Naturals, Sequences, FiniteSets

CONSTANTS
  Plain,       \* entities projected whole: functions, documents, memories
  Documents,   \* those that are documents
  Conv,        \* a conversation
  Messages,    \* its messages that have text
  NoMsg,       \* no anchor
  Slack,       \* how much older a row may be and count as current: stampSlack
  QueueSize,   \* capacity of the change queue
  EmbedBatch,  \* how many rows are embedded at once
  MaxClock,    \* bound on the writes
  MaxEvents    \* bound on restarts, rebuilds, failed copies, changes and rounds

ASSUME NamesAssumption ==
  Documents \subseteq Plain /\ Conv \notin Plain /\ NoMsg \notin Messages

ASSUME BoundsAssumption ==
  /\ QueueSize \in Nat \ {0} /\ EmbedBatch \in Nat \ {0}
  /\ MaxClock \in Nat \ {0} /\ MaxEvents \in Nat /\ Slack \in Nat

VARIABLES
  clock,     \* the time of the last write
  title,     \* when an entity's own text was written
  stamp,     \* an entity's updated_at, 0 if there is no such entity
  archived,  \* whether the conversation is archived
  said,      \* when a message was written, 0 if it was not
  rushed,    \* entities last written within the slack of the write before
  rows,      \* the index: search_docs
  vec,       \* the text each row's vector was computed from
  outdated,  \* the index was written by another schema version
  queue,     \* changes to apply
  work,      \* the index worker
  scan,      \* the goroutines that compare stamps
  kick,      \* the workspace is in the queue of the embed worker
  embed,     \* the embed worker
  events,    \* restarts, rebuilds and failures so far
  missed,    \* entities a change of which was lost or never told, and that
             \* are not yet read again
  stalled    \* a kick was dropped or a round broken off, and none begun since

source == <<clock, title, stamp, archived, said, rushed>>
index == <<rows, vec, outdated>>
indexer == <<queue, work, scan>>
embedder == <<kick, embed, stalled>>
vars == <<source, index, indexer, embedder, events, missed>>

Entities == Plain \cup {Conv}
Types == {"plain", "conversation"}
Of(t) == IF t = "plain" THEN Plain ELSE {Conv}
Chunks == (Entities \X {NoMsg}) \cup ({Conv} \X Messages)
ChunksOf(e) == {c \in Chunks : c[1] = e}
Times == 0..MaxClock
Rows == [title : Times, body : Times, at : Times]
NoRow == [title |-> 0, body |-> 0, at |-> 0]
Change(e, m) == [of |-> e, anchor |-> m]
Changes == {Change(c[1], c[2]) : c \in Chunks}
Indexed == {c \in Chunks : rows[c] # NoRow}
Missing == {c \in Indexed : vec[c] = NoRow}
Scans == {"boot", "reindex"}
NoWork == [at |-> "idle", job |-> Change(Conv, NoMsg), card |-> NoRow,
           docs |-> [c \in Chunks |-> NoRow]]
InHand == IF work = NoWork THEN {} ELSE {work.job.of}
NoScan == [at |-> "idle", types |-> {}, of |-> "plain",
           live |-> [e \in Entities |-> 0], todo |-> {}]
NoBatch == [c \in Chunks |-> NoRow]
Resting == [at |-> "idle", batch |-> NoBatch]
Booting == [NoScan EXCEPT !.at = "schema", !.types = Types]

CardOf(e) ==
  IF stamp[e] = 0 THEN NoRow
  ELSE [title |-> title[e], body |-> 0, at |-> stamp[e]]

MessageRow(card, m) ==
  IF said[m] = 0 THEN NoRow
  ELSE [title |-> card.title, body |-> said[m], at |-> said[m]]

\* The projection of an entity whose row was read as card.
Docs(e, card) ==
  [c \in Chunks |->
     IF c[1] # e \/ card = NoRow THEN NoRow
     ELSE IF c[2] = NoMsg THEN card ELSE MessageRow(card, c[2])]

\* A program that is up, with an index that has caught up.
Init ==
  /\ clock = 1
  /\ title = [e \in Entities |-> 1]
  /\ stamp = [e \in Entities |-> 1]
  /\ archived = FALSE
  /\ said = [m \in Messages |-> 0]
  /\ rushed = {}
  /\ rows = [c \in Chunks |-> Docs(c[1], CardOf(c[1]))[c]]
  /\ vec = rows
  /\ outdated = FALSE
  /\ queue = <<>>
  /\ work = NoWork
  /\ scan = [s \in Scans |-> NoScan]
  /\ kick = FALSE
  /\ embed = Resting
  /\ events = 0
  /\ missed = {}
  /\ stalled = FALSE

-----------------------------------------------------------------------------
(* Writes of the entities.  The commit and the notification are one step: *)
(* the queue keeps no content, and a crash loses it anyway.                *)

Full == Len(queue) = QueueSize

\* Never waits: a full queue drops the change.  Nobody tells of the others.
Changed(e, m, others) ==
  IF Full
  THEN missed' = missed \cup others \cup {e} /\ UNCHANGED queue
  ELSE missed' = missed \cup others /\ queue' = Append(queue, Change(e, m))

Event == events < MaxEvents /\ events' = events + 1
Tick(n) == clock + n <= MaxClock /\ clock' = clock + n

\* A write comes within the slack of the last one, or later.
Gaps == {1, Slack + 1}

\* Any other documents may be those under e: it is renamed or moved with them,
\* copied with them, or deleted with them.
Beneath(e) ==
  SUBSET {d \in Documents \ {e} : e \in Documents /\ (stamp[d] = 0 <=> stamp[e] = 0)}

Written(S) ==
  /\ title' = [e \in Entities |-> IF e \in S THEN clock' ELSE title[e]]
  /\ stamp' = [e \in Entities |-> IF e \in S THEN clock' ELSE stamp[e]]
  /\ rushed' = (rushed \ S) \cup {e \in S : clock' <= title[e] + Slack}

\* Creates or edits an entity, archives a conversation; a deleted
\* conversation does not come back under its id.  The paths of the documents
\* under a renamed one, and the copies under a copy, are written along.
Edit(e) ==
  /\ e = Conv => stamp[e] # 0
  /\ \E n \in Gaps : Tick(n)
  /\ \E S \in Beneath(e) : Written({e} \cup S) /\ Changed(e, NoMsg, S)
  /\ archived' \in IF e = Conv THEN BOOLEAN ELSE {archived}
  /\ UNCHANGED <<said, index, work, scan, embedder, events>>

\* A copy of a document and those under it breaks off: no change at all.
CopyFails(e) ==
  /\ Event
  /\ e \in Documents
  /\ stamp[e] = 0
  /\ \E n \in Gaps : Tick(n)
  /\ \E S \in Beneath(e) : Written({e} \cup S) /\ missed' = missed \cup {e} \cup S
  /\ UNCHANGED <<archived, said, index, indexer, embedder>>

Delete(e) ==
  /\ stamp[e] # 0
  /\ \E n \in Gaps : Tick(n)
  /\ \E S \in Beneath(e) :
        /\ stamp' = [d \in Entities |-> IF d \in {e} \cup S THEN 0 ELSE stamp[d]]
        /\ rushed' = rushed \ ({e} \cup S)
        /\ Changed(e, NoMsg, S)
  /\ UNCHANGED <<title, archived, said, index, work, scan, embedder, events>>

\* A user's message, right after which the conversation's stamp is touched.
Send(m) ==
  /\ stamp[Conv] # 0
  /\ said[m] = 0
  /\ \E n \in Gaps :
        /\ Tick(n + 1)
        /\ said' = [said EXCEPT ![m] = clock + n]
  /\ stamp' = [stamp EXCEPT ![Conv] = clock']
  /\ Changed(Conv, m, {})
  /\ UNCHANGED <<title, archived, rushed, index, work, scan, embedder, events>>

\* An answer's final text; the end of a turn that panics writes it again.
Finalize(m) ==
  /\ \E n \in Gaps : Tick(n)
  /\ said' = [said EXCEPT ![m] = clock']
  /\ Changed(Conv, m, {})
  /\ UNCHANGED <<title, stamp, archived, rushed, index, work, scan, embedder, events>>

-----------------------------------------------------------------------------
(* The index worker: one change at a time, the entity read again.          *)

\* Takes a change and reads the entity's own row.
Take ==
  /\ work.at = "idle"
  /\ queue # <<>>
  /\ LET job == Head(queue) IN
       /\ work' = [work EXCEPT !.at = "gather", !.job = job, !.card = CardOf(job.of)]
       /\ missed' = IF job.anchor = NoMsg THEN missed \ {job.of} ELSE missed
  /\ queue' = Tail(queue)
  /\ UNCHANGED <<source, index, scan, embedder, events>>

\* The anchor is unknown: the entity is projected whole instead.
Fallback ==
  /\ work.at = "gather"
  /\ work.job.anchor # NoMsg
  /\ work.card = NoRow \/ said[work.job.anchor] = 0
  /\ work' = [work EXCEPT !.job.anchor = NoMsg, !.card = CardOf(work.job.of)]
  /\ missed' = missed \ {work.job.of}
  /\ UNCHANGED <<source, index, queue, scan, embedder, events>>

\* Reads the rest: the messages, or the one of the anchor.
Gather ==
  /\ work.at = "gather"
  /\ work.job.anchor # NoMsg => work.card # NoRow /\ said[work.job.anchor] # 0
  /\ LET all == Docs(work.job.of, work.card)
         one == <<Conv, work.job.anchor>>
     IN  work' = [work EXCEPT !.at = "write", !.card = NoRow,
                    !.docs = IF work.job.anchor = NoMsg THEN all
                             ELSE [NoBatch EXCEPT ![one] = all[one]]]
  /\ UNCHANGED <<source, index, queue, scan, embedder, events, missed>>

\* Mutant of ReplaceDocs: the rows keep their ids.
ReplaceInPlace(e, docs) ==
  /\ rows' = [c \in Chunks |-> IF c[1] = e THEN docs[c] ELSE rows[c]]
  /\ vec' = [c \in Chunks |-> IF c[1] = e THEN NoRow ELSE vec[c]]
  /\ UNCHANGED embed

\* ReplaceDocs: rows, vectors and ids of the entity go, new rows come.
ReplaceDocs(e, docs) ==
  /\ rows' = [c \in Chunks |-> IF c[1] = e THEN docs[c] ELSE rows[c]]
  /\ vec' = [c \in Chunks |-> IF c[1] = e THEN NoRow ELSE vec[c]]
  /\ embed' = [embed EXCEPT !.batch =
                 [c \in Chunks |-> IF c[1] = e THEN NoRow ELSE embed.batch[c]]]

\* UpsertDocAt: one row changes under its id, its vector goes.
UpsertDocAt(c, doc) ==
  /\ rows' = [rows EXCEPT ![c] = doc]
  /\ vec' = [vec EXCEPT ![c] = NoRow]
  /\ embed' = IF rows[c] = NoRow THEN [embed EXCEPT !.batch[c] = NoRow] ELSE embed

\* kickEmbed: the embed worker's queue, which all workspaces share, has room for
\* the kick or drops it.  A kick still in the queue or a round under way makes up
\* for a dropped one.
Kick ==
  \/ kick' = TRUE /\ UNCHANGED stalled
  \/ UNCHANGED kick /\ stalled' = (stalled \/ (~kick /\ embed.at = "idle"))

\* Writes the rows and kicks the embed worker; a round that begins between the
\* two only makes the kick redundant.
Apply ==
  /\ work.at = "write"
  /\ IF work.job.anchor = NoMsg
     THEN ReplaceDocs(work.job.of, work.docs)
     ELSE LET c == <<work.job.of, work.job.anchor>> IN UpsertDocAt(c, work.docs[c])
  /\ Kick
  /\ work' = NoWork
  /\ UNCHANGED <<source, outdated, queue, scan, events, missed>>

\* A read or the write fails: the change is dropped with a warning.
ApplyFails ==
  /\ work # NoWork
  /\ Event
  /\ work' = NoWork
  /\ missed' = missed \cup {work.job.of}
  /\ UNCHANGED <<source, index, queue, scan, embedder>>

-----------------------------------------------------------------------------
(* Reconciliation at boot and on demand.                                   *)

\* An index of another schema version is dropped first.
CheckSchema(s) ==
  /\ scan[s].at = "schema"
  /\ scan' = [scan EXCEPT ![s].at = "next"]
  /\ IF outdated
     THEN /\ rows' = [c \in Chunks |-> NoRow]
          /\ vec' = [c \in Chunks |-> NoRow]
          /\ embed' = [embed EXCEPT !.batch = NoBatch]
          /\ missed' = missed \cup Entities
     ELSE UNCHANGED <<rows, vec, embed, missed>>
  /\ outdated' = FALSE
  /\ UNCHANGED <<source, queue, work, kick, stalled, events>>

\* What a source lists: every entity, but conversations only unarchived.
Stamps(t) ==
  [e \in Entities |-> IF e \in Of(t) /\ ~(e = Conv /\ archived) THEN stamp[e] ELSE 0]

\* Reads the stamps of one source; a failing source is passed over.  A lost
\* change of what the worker holds is not made up for, the comparison may come
\* before its rows; nor is one within the slack of the change before.
ReadStamps(s, t) ==
  /\ scan[s].at = "next"
  /\ scan[s].todo = {}
  /\ t \in scan[s].types
  /\ scan' = [scan EXCEPT ![s].types = @ \ {t}, ![s].of = t, ![s].live = Stamps(t),
                          ![s].at = "compare"]
  /\ missed' = missed \ ((Of(t) \cap Plain) \ (InHand \cup rushed))
  /\ UNCHANGED <<source, index, queue, work, embedder, events>>

SourceFails(s, t) ==
  /\ scan[s].at = "next"
  /\ scan[s].todo = {}
  /\ t \in scan[s].types
  /\ scan' = [scan EXCEPT ![s].types = @ \ {t}]
  /\ missed' = missed \cup Of(t)
  /\ UNCHANGED <<source, index, queue, work, embedder, events>>

\* EntityStamps: the newest row of an entity, 0 if it has none.
IndexStamp(e) ==
  CHOOSE t \in {0} \cup {rows[c].at : c \in ChunksOf(e)} :
     \A c \in ChunksOf(e) : rows[c].at <= t

OutOfStep(e, live) == IndexStamp(e) = 0 \/ live > IndexStamp(e) + Slack

\* Mutant of Differs: what no source lists is left alone.
DiffersNoOrphans(s, e) ==
  scan[s].live[e] # 0 /\ (s = "reindex" \/ OutOfStep(e, scan[s].live[e]))

\* What is out of step: changed, new, or all that live, and the orphans.
Differs(s, e) ==
  IF scan[s].live[e] = 0 THEN IndexStamp(e) # 0
  ELSE s = "reindex" \/ OutOfStep(e, scan[s].live[e])

Compare(s) ==
  /\ scan[s].at = "compare"
  /\ scan' = [scan EXCEPT ![s].at = "next", ![s].live = NoScan.live,
                          ![s].todo = {e \in Of(scan[s].of) : Differs(s, e)}]
  /\ UNCHANGED <<source, index, queue, work, embedder, events, missed>>

\* Waits for room in the queue.
Enqueue(s) ==
  /\ ~Full
  /\ \E e \in scan[s].todo :
        /\ queue' = Append(queue, Change(e, NoMsg))
        /\ scan' = [scan EXCEPT ![s].todo = @ \ {e}]
  /\ UNCHANGED <<source, index, work, embedder, events, missed>>

EndScan(s) ==
  /\ scan[s].at = "next"
  /\ scan[s].todo = {}
  /\ scan[s].types = {}
  /\ scan' = [scan EXCEPT ![s] = NoScan]
  /\ Kick
  /\ UNCHANGED <<source, index, queue, work, embed, events, missed>>

\* One rebuild at a time; it overwrites in place.
Reindex ==
  /\ Event
  /\ scan["reindex"].at = "idle"
  /\ scan' = [scan EXCEPT !["reindex"] = [NoScan EXCEPT !.at = "next", !.types = Types]]
  /\ UNCHANGED <<source, index, queue, work, embedder, missed>>

-----------------------------------------------------------------------------
(* The embed worker.                                                       *)

BeginRound ==
  /\ embed.at = "idle"
  /\ kick
  /\ kick' = FALSE
  /\ stalled' = FALSE
  /\ embed' = [embed EXCEPT !.at = "round"]
  /\ UNCHANGED <<source, index, indexer, events, missed>>

\* A batch of rows without a vector, with their texts.
PickBatch ==
  /\ embed = [at |-> "round", batch |-> NoBatch]
  /\ \E S \in SUBSET Missing :
        /\ S # {}
        /\ Cardinality(S) <= EmbedBatch
        /\ Cardinality(S) < EmbedBatch => S = Missing
        /\ embed' = [embed EXCEPT !.batch =
                       [c \in Chunks |-> IF c \in S THEN rows[c] ELSE NoRow]]
  /\ UNCHANGED <<source, index, indexer, kick, stalled, events, missed>>

EndRound ==
  /\ embed = [at |-> "round", batch |-> NoBatch]
  /\ Missing = {}
  /\ embed' = Resting
  /\ UNCHANGED <<source, index, indexer, kick, stalled, events, missed>>

\* Mutant of StoreVector: one batch a kick.
StoreOneBatch ==
  /\ \E c \in Chunks :
        /\ embed.batch[c] # NoRow
        /\ vec' = [vec EXCEPT ![c] = embed.batch[c]]
        /\ embed' = LET left == [embed.batch EXCEPT ![c] = NoRow]
                    IN  IF left = NoBatch THEN Resting ELSE [embed EXCEPT !.batch = left]
  /\ UNCHANGED <<source, rows, outdated, indexer, kick, stalled, events, missed>>

\* UpsertEmbedding, row by row, after the provider has answered.
StoreVector ==
  /\ \E c \in Chunks :
        /\ embed.batch[c] # NoRow
        /\ vec' = [vec EXCEPT ![c] = embed.batch[c]]
        /\ embed' = [embed EXCEPT !.batch[c] = NoRow]
  /\ UNCHANGED <<source, rows, outdated, indexer, kick, stalled, events, missed>>

\* The provider is off or fails, or the table does: the round ends until the
\* next kick.
GiveUp ==
  /\ embed.at = "round"
  /\ embed' = Resting
  /\ Event
  /\ stalled' = TRUE
  /\ UNCHANGED <<source, index, indexer, kick, missed>>

-----------------------------------------------------------------------------
(* The program stops or crashes and boots again, perhaps with a new layout. *)

Pending == {queue[i].of : i \in 1..Len(queue)} \cup InHand

Restart ==
  /\ Event
  /\ missed' = missed \cup Pending
  /\ queue' = <<>>
  /\ work' = NoWork
  /\ scan' = [s \in Scans |-> IF s = "boot" THEN Booting ELSE NoScan]
  /\ kick' = FALSE
  /\ embed' = Resting
  /\ stalled' = FALSE
  /\ \E upgraded \in BOOLEAN : outdated' = (outdated \/ upgraded)
  /\ UNCHANGED <<source, rows, vec>>

Worker == Take \/ Fallback \/ Gather \/ Apply \/ ApplyFails
Scanner(s) ==
  \/ CheckSchema(s) \/ Compare(s) \/ Enqueue(s) \/ EndScan(s)
  \/ \E t \in Types : ReadStamps(s, t) \/ SourceFails(s, t)
Embedder == BeginRound \/ PickBatch \/ EndRound \/ StoreVector \/ GiveUp

Next ==
  \/ \E e \in Entities : Edit(e) \/ Delete(e) \/ CopyFails(e)
  \/ \E m \in Messages : Send(m) \/ Finalize(m)
  \/ Worker
  \/ \E s \in Scans : Scanner(s)
  \/ Reindex
  \/ Embedder
  \/ Restart

Spec == Init /\ [][Next]_vars

-----------------------------------------------------------------------------
WorkStates == [at : {"idle", "gather", "write"}, job : Changes,
               card : Rows, docs : [Chunks -> Rows]]
ScanStates == [at : {"idle", "schema", "next", "compare"}, types : SUBSET Types,
               of : Types, live : [Entities -> Times], todo : SUBSET Entities]
EmbedStates == [at : {"idle", "round"}, batch : [Chunks -> Rows]]

TypeOK ==
  /\ clock \in Times
  /\ title \in [Entities -> Times] /\ stamp \in [Entities -> Times]
  /\ archived \in BOOLEAN
  /\ said \in [Messages -> Times]
  /\ rushed \in SUBSET Entities
  /\ rows \in [Chunks -> Rows] /\ vec \in [Chunks -> Rows]
  /\ outdated \in BOOLEAN
  /\ queue \in Seq(Changes) /\ Len(queue) <= QueueSize
  /\ work \in WorkStates /\ scan \in [Scans -> ScanStates] /\ embed \in EmbedStates
  /\ kick \in BOOLEAN
  /\ events \in 0..MaxEvents
  /\ missed \in SUBSET Entities
  /\ stalled \in BOOLEAN

\* Nothing is left to apply or to compare.
CaughtUp == queue = <<>> /\ work = NoWork /\ \A s \in Scans : scan[s] = NoScan

\* The rows of e say what the entity says.
Current(e) ==
  \A c \in ChunksOf(e) :
     LET doc == Docs(e, CardOf(e))[c]
     IN  rows[c].title = doc.title /\ rows[c].body = doc.body

\* Once the index has caught up its rows are the entities' texts, whatever the
\* queue dropped or nobody told it before the scan of the boot, and whatever a
\* crash cut short (indexer.go reconcile: "the single self-healing mechanism").
\* An entity that is projected whole is healed by its stamp, unless its last
\* write came within the slack; a conversation only when it is projected whole
\* again.
IndexHeals == CaughtUp => \A e \in Entities \ missed : Current(e)

\* The vector of an entity that is projected whole belongs to the text of its
\* row, although the texts were read before they were embedded (semantic.go
\* backfill): the rows replaced meanwhile have other ids.
VectorsMatch == \A c \in Chunks : c[1] \in Plain => vec[c] \in {NoRow, rows[c]}

\* While a row has no vector a round is under way or due, or the boot's scan will
\* ask for one, or a kick was dropped or a round broken off and the row waits for
\* the next: rows written while a round runs or ends are not forgotten
\* (semantic.go backfill, kickEmbed: "the next kick re-covers it").
VectorsAwaited ==
  Missing # {} => kick \/ embed.at = "round" \/ stalled \/ scan["boot"].at # "idle"
=============================================================================
