----------------------------- MODULE ChatMemory -----------------------------
(***************************************************************************)
(* What a conversation remembers.  The turns of a conversation are stored  *)
(* block by block (infra/store/messages); when they outgrow the model's    *)
(* window, the tail of a turn folds the oldest ones into a summary         *)
(* (app/contextmgr).  The summary and its watermark, the highest seq it    *)
(* covers, live in the conversation's row; a turn is generated from the    *)
(* summary and the messages past the watermark (app/chat/history.go).      *)
(*                                                                         *)
(* A message's blocks get consecutive seqs in one transaction, so one      *)
(* number stands for them.  A user's message gets it when it is sent, an   *)
(* assistant's when its turn ends: the order of seqs is not the order of   *)
(* the thread, which is that of creation.  ChatQueue has the queue in full *)
(* detail; here it is a slot and a gate.  Nothing sets the attribute that  *)
(* pins a block, so pinned blocks are left out; so is a PATCH's own change.*)
(***************************************************************************)
EXTENDS Naturals, Sequences, FiniteSets

CONSTANTS
  Protected,    \* recentTurns: the last messages, which are never touched
  Hot, Warm,    \* recentTRHot, warmZone: how many tool results stay so
  MaxSends,     \* bound on the messages sent
  MaxEvents     \* bound on traces, writes of the row and crashes, together

ASSUME ZonesAssumption == Protected \in Nat /\ Hot \in Nat /\ Warm \in Nat

ASSUME BoundsAssumption ==
  MaxSends \in Nat /\ MaxEvents \in Nat

VARIABLES
  thread,    \* the messages in order of creation: role, seq, age, task
  conv,      \* the conversation's row: what the summary folds, and the watermark
  opening,   \* a Send's user message, its assistant row not made yet, or 0
  slot,      \* the queue's buffer: the assistant message of a turn, or 0
  busy,      \* convQueue.running, the gate of Send
  turn,      \* the queue's goroutine: its step, its turn and what it has read
  patch,     \* a writer of the conversation's row, between its read and write
  late,      \* user messages sent while a turn was queued or generated
  undone,    \* messages in a summary that a writer's stale row overwrote
  sends, events

tables == <<thread, conv>>
intake == <<opening, slot, busy>>
exceptions == <<late, undone>>
limits == <<sends, events>>
memoryVars == <<tables, intake, turn, patch, exceptions, limits>>

NoMessage == 0
NoSeq == 0
Ages == <<"hot", "warm", "cold", "archived">>
EmptyRow == [summary |-> {}, mark |-> 0]
Resting == [at |-> "idle", msg |-> NoMessage, row |-> EmptyRow, seen |-> {},
            loaded |-> 0, fold |-> {}]
NoPatch == [at |-> "idle", row |-> EmptyRow]

MemoryInit ==
  /\ thread = << >> /\ conv = EmptyRow
  /\ opening = NoMessage /\ slot = NoMessage /\ busy = FALSE
  /\ turn = Resting
  /\ patch = NoPatch
  /\ late = {} /\ undone = {}
  /\ sends = 0 /\ events = 0

-----------------------------------------------------------------------------
(* The store of messages. *)

Messages == DOMAIN thread
Seqs == {thread[i].seq : i \in Messages}

\* MAX(seq) + 1.
NextSeq == 1 + CHOOSE s \in Seqs \cup {NoSeq} : \A r \in Seqs : r <= s

Create(role, seq, task) ==
  thread' = Append(thread, [role |-> role, seq |-> seq, age |-> "hot", task |-> task])

\* UpdateBlocksContextRole.
SetAge(S, age) ==
  thread' = [i \in Messages |-> IF i \in S THEN [thread[i] EXCEPT !.age = age]
                                           ELSE thread[i]]

-----------------------------------------------------------------------------
(* Send: the user's message, then the assistant's row, which is queued or,  *)
(* while a turn is generated, refused; a refused Send leaves both.          *)

\* A message may consist of attachments only, and then has no block.
SendUser(words) ==
  /\ sends < MaxSends /\ opening = NoMessage
  /\ sends' = sends + 1
  /\ Create("user", IF words THEN NextSeq ELSE NoSeq, NoMessage)
  /\ opening' = Len(thread) + 1
  /\ late' = IF slot # NoMessage \/ turn.at \in {"got", "load", "generate"}
             THEN late \cup {Len(thread) + 1} ELSE late
  /\ UNCHANGED <<conv, slot, busy, turn, patch, undone, events>>

SendAssistant ==
  /\ opening # NoMessage
  /\ Create("assistant", NoSeq, opening)
  /\ opening' = NoMessage
  /\ slot' = IF ~busy /\ slot = NoMessage THEN Len(thread) + 1 ELSE slot
  /\ UNCHANGED <<conv, busy, turn, patch, exceptions, limits>>

-----------------------------------------------------------------------------
(* processTask. *)

Proceed(at) == turn' = [turn EXCEPT !.at = at]
Retire == turn' = Resting

TakeTurn ==
  /\ turn.at = "idle" /\ slot # NoMessage
  /\ turn' = [turn EXCEPT !.at = "got", !.msg = slot]
  /\ slot' = NoMessage
  /\ UNCHANGED <<tables, opening, busy, patch, exceptions, limits>>

\* The gate is closed, and the conversation's row read.
LoadConversation ==
  /\ turn.at = "got"
  /\ busy' = TRUE
  /\ turn' = [turn EXCEPT !.at = "load", !.row = conv]
  /\ UNCHANGED <<tables, opening, slot, patch, exceptions, limits>>

\* unfolded, and for an assistant's blocks BlocksToAssistantLLM.
Verbatim(i) ==
  /\ thread[i].seq > turn.row.mark
  /\ \/ thread[i].role = "user"
     \/ thread[i].role = "assistant" /\ thread[i].age # "archived"

LoadHistory ==
  /\ turn.at = "load"
  /\ turn' = [turn EXCEPT !.at = "generate", !.seen = {i \in Messages : Verbatim(i)}]
  /\ UNCHANGED <<tables, intake, patch, exceptions, limits>>

\* A subagent leaves its trace in the thread while its parent's turn goes on.
Trace ==
  /\ turn.at = "generate" /\ events < MaxEvents
  /\ events' = events + 1
  /\ Create("subagent", NextSeq, NoMessage)
  /\ UNCHANGED <<conv, intake, turn, patch, exceptions, sends>>

\* WriteFinalize, and the release of the gate; a turn that failed at once has
\* no blocks.
WriteFinalize(words) ==
  /\ turn.at = "generate"
  /\ thread' = IF words THEN [thread EXCEPT ![turn.msg].seq = NextSeq] ELSE thread
  /\ busy' = FALSE
  /\ turn' = [Resting EXCEPT !.at = "tail"]
  /\ UNCHANGED <<conv, opening, slot, patch, exceptions, limits>>

-----------------------------------------------------------------------------
(* MaybeCompact, in the tail of the turn, before the next one is taken.    *)

\* Below the threshold, or no budget known, and nothing is done.
LoadThread ==
  /\ turn.at = "tail"
  /\ \/ Retire
     \/ turn' = [turn EXCEPT !.at = "summary", !.loaded = Len(thread)]
  /\ UNCHANGED <<tables, intake, patch, exceptions, limits>>

GetSummary ==
  /\ turn.at = "summary"
  /\ turn' = [turn EXCEPT !.at = "demote", !.row = conv]
  /\ UNCHANGED <<tables, intake, patch, exceptions, limits>>

\* Mutant of Unprotected: the whole thread may be folded.
UnprotectedAll == 1..turn.loaded

\* The messages before protectedFrom.
Unprotected == {i \in 1..turn.loaded : i + Protected <= turn.loaded}

\* Tool results, as many as assistants have blocks, newest first.
Results == {i \in Unprotected : thread[i].role = "assistant" /\ thread[i].seq # NoSeq
                                 /\ thread[i].age # "archived"}
Rank(i) == Cardinality({j \in Results : i <= j})

Demoted ==
  [i \in Messages |->
     IF i \notin Results \/ Rank(i) <= Hot THEN thread[i]
     ELSE [thread[i] EXCEPT !.age = IF Rank(i) <= Hot + Warm THEN "warm" ELSE "cold"]]

\* Old tool results age; that may already be enough.
Demote ==
  /\ turn.at = "demote"
  /\ thread' = Demoted
  /\ \/ Retire
     \/ Proceed("summarize")
  /\ UNCHANGED <<conv, intake, patch, exceptions, limits>>

\* What the summary does not cover yet; a trace or an anchor is never folded.
Fold ==
  {i \in Unprotected :
     thread[i].role \in {"user", "assistant"} /\ thread[i].seq > turn.row.mark}

\* Mutant of Summarize: what will be folded is archived before the summary is.
SummarizeArchives ==
  /\ turn.at = "summarize"
  /\ \/ Retire /\ UNCHANGED thread
     \/ /\ Fold # {} /\ turn' = [turn EXCEPT !.at = "set", !.fold = Fold]
        /\ SetAge(Fold, "archived")
  /\ UNCHANGED <<conv, intake, patch, exceptions, limits>>

\* The model is asked; it may fail, or say nothing.
Summarize ==
  /\ turn.at = "summarize"
  /\ \/ Retire
     \/ Fold # {} /\ turn' = [turn EXCEPT !.at = "set", !.fold = Fold]
  /\ UNCHANGED <<tables, intake, patch, exceptions, limits>>

\* Mutant of NewMark: the seq of the last message folded, not the highest.
NewMarkLast ==
  LET last == CHOOSE i \in turn.fold : \A j \in turn.fold : j <= i
  IN  thread[last].seq

NewMark ==
  CHOOSE s \in {thread[i].seq : i \in turn.fold} : \A i \in turn.fold : thread[i].seq <= s

\* The watermark is the truth; when it cannot be written nothing is archived.
SetSummary ==
  /\ turn.at = "set"
  /\ \/ Retire /\ UNCHANGED conv
     \/ /\ conv' = [summary |-> turn.row.summary \cup turn.fold, mark |-> NewMark]
        /\ turn' = [Resting EXCEPT !.at = "archive", !.fold = turn.fold]
  /\ UNCHANGED <<thread, intake, patch, exceptions, limits>>

\* Best effort, as the anchor is.
Archive ==
  /\ turn.at = "archive"
  /\ SetAge(turn.fold, "archived") \/ UNCHANGED thread
  /\ turn' = [Resting EXCEPT !.at = "anchor"]
  /\ UNCHANGED <<conv, intake, patch, exceptions, limits>>

WriteAnchor ==
  /\ turn.at = "anchor"
  /\ Create("anchor", NextSeq, NoMessage) \/ UNCHANGED thread
  /\ Retire
  /\ UNCHANGED <<conv, intake, patch, exceptions, limits>>

-----------------------------------------------------------------------------
(* Others who write the conversation's row, whole, as they read it: a      *)
(* PATCH, the auto-title, the unarchiving Send.                            *)

ReadRow ==
  /\ patch.at = "idle" /\ events < MaxEvents
  /\ events' = events + 1
  /\ patch' = [at |-> "write", row |-> conv]
  /\ UNCHANGED <<tables, intake, turn, exceptions, sends>>

WriteRow ==
  /\ patch.at = "write"
  /\ conv' = patch.row
  /\ undone' = undone \cup (conv.summary \ patch.row.summary)
  /\ patch' = NoPatch
  /\ UNCHANGED <<thread, intake, turn, late, limits>>

\* A crash and a boot: queue and goroutines are gone, what was generated is lost.
Crash ==
  /\ events < MaxEvents
  /\ events' = events + 1
  /\ opening' = NoMessage /\ slot' = NoMessage /\ busy' = FALSE
  /\ turn' = Resting
  /\ patch' = NoPatch
  /\ UNCHANGED <<tables, exceptions, sends>>

MemoryNext ==
  \/ \E words \in BOOLEAN : SendUser(words) \/ WriteFinalize(words)
  \/ SendAssistant \/ TakeTurn \/ LoadConversation \/ LoadHistory \/ Trace
  \/ LoadThread \/ GetSummary \/ Demote \/ Summarize \/ SetSummary \/ Archive
  \/ WriteAnchor
  \/ ReadRow \/ WriteRow \/ Crash

MemorySpec == MemoryInit /\ [][MemoryNext]_memoryVars

-----------------------------------------------------------------------------
Row == [summary : SUBSET Messages, mark : Nat]
MemoryTypeOK ==
  /\ thread \in Seq([role : {"user", "assistant", "subagent", "anchor"}, seq : Nat,
                     age : {Ages[k] : k \in DOMAIN Ages}, task : Nat])
  /\ conv \in Row
  /\ {opening, slot} \subseteq Messages \cup {NoMessage}
  /\ busy = (turn.at \in {"load", "generate"})
  /\ \A i \in {slot, turn.msg} : i # NoMessage => thread[i].role = "assistant"
  /\ turn \in [at : {"idle", "got", "load", "generate", "tail", "summary", "demote",
                     "summarize", "set", "archive", "anchor"},
               msg : Messages \cup {NoMessage}, row : Row, seen : SUBSET Messages,
               loaded : Nat, fold : SUBSET Messages]
  /\ patch \in [at : {"idle", "write"}, row : Row]
  /\ late \subseteq Messages /\ undone \subseteq Messages
  /\ limits \in Nat \X Nat

Generating == turn.at = "generate"
Spoken(i) == thread[i].role \in {"user", "assistant"} /\ thread[i].seq # NoSeq

\* Nothing said is forgotten: a turn sees every message that was there, in the
\* summary or verbatim, whatever was folded, cut short by a crash or aged
\* (pipeline.go summarize, history.go LoadHistory).  Excepted are what was sent
\* while a turn was under way, whose seq a watermark may pass by, and what a
\* stale write of the conversation's row took out of the summary again.
NothingForgotten ==
  Generating => \A i \in 1..turn.msg :
    Spoken(i) => i \in turn.row.summary \cup turn.seen \cup late \cup undone

\* Nothing rides along twice, in the summary and verbatim, whether or not the
\* archived flag was written (history.go unfolded "can never double-count").
NothingTwice == Generating => turn.row.summary \cap turn.seen = {}

\* The message a turn answers is in front of the model word by word, unless so
\* many were sent after it that it is not among the protected ones (contextmgr.go
\* "the actual current task must always be present unsummarized").
TaskIsSeen ==
  Generating =>
    LET task == thread[turn.msg].task
        since == {i \in task..Len(thread) : thread[i].role # "anchor"}
    IN  Spoken(task) /\ Cardinality(since) <= Protected => task \in turn.seen \cup late
=============================================================================
