--------------------------- MODULE SubmitContract ---------------------------
(***************************************************************************)
(* What Transaction promises its callers: an answer is given once and for  *)
(* good, a submit without finality returns only when the orderer took the  *)
(* caller's own transaction, and an answer about finality is what the      *)
(* ledger already records of it.                                           *)
(***************************************************************************)
CONSTANTS Calls, TxIds, OtherTx, TxId

VARIABLES answer,  \* per call, "none" until it returned
          taken,   \* the transactions the orderer took
          record   \* what the ledger records: pairs <<transaction, valid>>

vars == <<answer, taken, record>>

Init ==
    /\ answer = [c \in Calls |-> "none"]
    /\ taken = {}
    /\ record = {<<OtherTx, TRUE>>}

\* The orderer takes a transaction.
Take(tx) ==
    /\ taken' = taken \cup {tx}
    /\ UNCHANGED <<answer, record>>

\* The ledger records a transaction: one that was taken, or another client's.
Record(tx, valid) ==
    /\ tx \in taken \cup {OtherTx}
    /\ record' = record \cup {<<tx, valid>>}
    /\ UNCHANGED <<answer, taken>>

\* A call returns.
Answer(c, a) ==
    /\ answer[c] = "none"
    /\ a = "sent" => TxId[c] \in taken
    /\ a = "valid" => <<TxId[c], TRUE>> \in record
    /\ a = "invalid" => <<TxId[c], FALSE>> \in record
    /\ answer' = [answer EXCEPT ![c] = a]
    /\ UNCHANGED <<taken, record>>

Next ==
    \/ \E tx \in TxIds : Take(tx)
    \/ \E tx \in TxIds \cup {OtherTx}, valid \in BOOLEAN : Record(tx, valid)
    \/ \E c \in Calls, a \in {"read", "sent", "valid", "invalid", "error"} : Answer(c, a)

Spec == Init /\ [][Next]_vars
=============================================================================
