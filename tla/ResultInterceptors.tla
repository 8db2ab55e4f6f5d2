------------------------- MODULE ResultInterceptors -------------------------
(***************************************************************************)
(* The result handlers of nodejs/admin/resultInterceptors.js: what a       *)
(* caller accepts of the answers of the endorsers and of the orderer.      *)
(*                                                                         *)
(* A proposal result is a function from endorsers to responses.  A         *)
(* response is a record [status, message]; an endorser that could not be   *)
(* reached (an element of result.errors in the code) answers SystemError.  *)
(***************************************************************************)
EXTENDS Integers

SystemError == [status |-> 0, message |-> "SYSTEM_ERROR"]
Endorsed    == [status |-> 200, message |-> "OK"]

\* The endorsers whose response SanCheck returns: those that did not endorse.
SanCheck(results) == {e \in DOMAIN results : results[e].status # 200}

\* SanCheck throws when an endorser could not be reached.
Unreachable(results) == \E e \in DOMAIN results : results[e] = SystemError

\* Mutant: one endorsement is enough.
EndorseAny(results, tolerated) ==
    \E e \in DOMAIN results : e \notin SanCheck(results)

(***************************************************************************)
(* EndorseALL returns normally (TRUE) or throws (FALSE).  Its optional     *)
(* errorsFilter, which the lifecycle handlers pass, drops the responses    *)
(* that are not to be counted as errors: the set "tolerated".              *)
(***************************************************************************)
EndorseALL(results, tolerated) ==
    /\ ~Unreachable(results)
    /\ \A e \in SanCheck(results) : results[e] \in tolerated

\* Mutant: the orderer's answer is not looked at.
CommitUnchecked(commitResult) == TRUE

\* CommitSuccess returns normally (TRUE) or throws COMMIT_ERROR (FALSE).
CommitSuccess(commitResult) ==
    /\ commitResult.status = "SUCCESS"
    /\ commitResult.info = ""
=============================================================================
