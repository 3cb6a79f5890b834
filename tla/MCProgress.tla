----------------------------- MODULE MCProgress -----------------------------
(***************************************************************************)
(* For TLC: two parts that promise progress and share no state, the        *)
(* handlers of the audit trail and the tabs of a browser.  A behaviour is  *)
(* about one of them, and the other rests.                                 *)
(***************************************************************************)
EXTENDS AuditChain, SignIn

VARIABLE area

progressVars == <<vars, signVars, area>>

\* Chains have advisory lock keys of their own.
MCKeyOf == [c \in Chains |-> c]

ProgressInit ==
    /\ area \in {"audit", "sign_in"}
    /\ Init /\ (area = "sign_in" => trigger)
    /\ SignInit

ProgressNext ==
    /\ UNCHANGED area
    /\ \/ area = "audit" /\ Next /\ UNCHANGED signVars
       \/ area = "sign_in" /\ SignNext /\ UNCHANGED vars

\* No fair step of a part is enabled where it rests.
ProgressSpec ==
    ProgressInit /\ [][ProgressNext]_progressVars /\ Fairness /\ SignFairness
=============================================================================
