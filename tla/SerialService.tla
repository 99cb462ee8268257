---------------------------- MODULE SerialService ----------------------------
(***************************************************************************)
(* ValidatorService seen as a ledger.  The mapping keeps of each table row *)
(* the request it describes and the id it is filed under, and of each      *)
(* handler the id it answered with.                                        *)
(***************************************************************************)
EXTENDS ValidatorService

Pair(row) == [req |-> row.req, id |-> row.id]

Ledger == INSTANCE ValidationLedger WITH
  filed   <- {Pair(row) : row \in log},
  details <- {Pair(row) : row \in metrics \union snippets},
  answers <- [r \in Requests |-> IF pc[r] = "replied" THEN frame[r].reply ELSE 0]

\* One handler at a time and log rows that are never lost: then the server, its
\* crashes and restarts included, behaves as the ledger its clients assume.
ImplementsLedger == Ledger!Spec
=============================================================================
