----------------------------- MODULE RunLedger -----------------------------
(***************************************************************************)
(* What the run engine promises about its two tables, whatever goroutines, *)
(* crashes and retries are behind it: a run header and a ledger of node    *)
(* rows. A row is written once, for a node that is ready given the rows    *)
(* already in the table; a completed row is final; the header leaves       *)
(* running once, and only a failed run is ever reopened.                   *)
(***************************************************************************)
EXTENDS Walk

CONSTANTS Runs, G
VARIABLES status, frn

ledger == <<status, frn>>
LBack == BackEdges(G)
Empty == [k \in Keys(G) |-> NoRow]
InState(r, st) == {k \in Keys(G) : frn[r][k].status = st}
Put(r, S, row) ==
    frn' = [frn EXCEPT ![r] = [k \in Keys(G) |-> IF k \in S THEN row ELSE frn[r][k]]]

LInit ==
    /\ status = [r \in Runs |-> "none"]
    /\ frn = [r \in Runs |-> Empty]

\* A run starts with its trigger's payload as its first row.
Begin(r) ==
    /\ status[r] = "none"
    /\ \E n \in NodeIds(G) :
          /\ G.kind[n] = "trigger"
          /\ Put(r, {<<n, 0>>}, Row("completed", NoPort))
    /\ status' = [status EXCEPT ![r] = "running"]

\* A result is recorded for a node the table makes ready, and for no other.
Record(r) ==
    /\ status[r] # "none"
    /\ \E k \in Ready(G, LBack, frn[r]) :
          \E row \in DispatchRows(G, k[1]) \cup {Row("failed", NoPort)} : Put(r, {k}, row)
    /\ UNCHANGED status

\* An approval is answered once, by a human or by its deadline.
Answer(r) ==
    /\ \E n \in NodeIds(G), row \in {Row("completed", d) : d \in Approvals} \cup
                                    {Row("failed", NoPort)} :
          LET asked == {k \in InState(r, "parked") : k[1] = n}
          IN  asked # {} /\ Put(r, asked, row)
    /\ UNCHANGED status

\* A cancelled run withdraws its approvals.
Withdraw(r) ==
    /\ status[r] # "running"
    /\ Put(r, InState(r, "parked"), Row("failed", NoPort))
    /\ UNCHANGED status

\* The first terminal status wins; completed needs an empty inbox.
Finish(r) ==
    /\ status[r] = "running"
    /\ \E s \in {"completed", "failed", "cancelled"} :
          /\ s = "completed" => InState(r, "parked") = {}
          /\ status' = [status EXCEPT ![r] = s]
    /\ UNCHANGED frn

\* A failed run's failed rows are non-results: they may be cleared for a retry.
Clear(r) ==
    /\ status[r] = "failed"
    /\ Put(r, InState(r, "failed"), NoRow)
    /\ UNCHANGED status

Reopen(r) ==
    /\ status[r] = "failed"
    /\ status' = [status EXCEPT ![r] = "running"]
    /\ UNCHANGED frn

Touched(r) == <<status'[r], frn'[r]>> # <<status[r], frn[r]>>

LNext ==
    \E r \in Runs :
        /\ Touched(r)
        /\ Begin(r) \/ Record(r) \/ Answer(r) \/ Withdraw(r) \/ Finish(r) \/ Clear(r) \/ Reopen(r)

LSpec == LInit /\ [][LNext]_ledger
=============================================================================
