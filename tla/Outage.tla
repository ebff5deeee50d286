-------------------------------- MODULE Outage --------------------------------
(***************************************************************************)
(* What the incidents of a service promise, whatever fails and wherever    *)
(* its worker is cut off: an outage begins and ends by a verdict that      *)
(* calls for it, a later one than everything recorded; at most one of a    *)
(* kind lasts; what is recorded is never rewritten; and the owners are     *)
(* told of the beginning first, reminded only while it lasts, and told of  *)
(* the end once and only when it has come.                                 *)
(***************************************************************************)
EXTENDS Integers, FiniteSets

CONSTANT None

VARIABLES verdict,     \* what the latest check calls for
          outages,     \* the outages recorded, by their ids
          gone         \* the service is deleted

outageVars == <<verdict, outages, gone>>

Verdicts == [at : Nat, bad : BOOLEAN, breach : BOOLEAN]

NoOutages == [i \in {} |-> None]

Init == verdict \in Verdicts /\ outages = NoOutages /\ gone = FALSE

\* A check is judged: by itself, or by the SLA.  Time does not run backwards.
Judge ==
  /\ verdict' \in Verdicts /\ verdict'.at >= verdict.at
  /\ UNCHANGED <<outages, gone>>

Lasting(b) == {i \in DOMAIN outages : outages[i].breach = b /\ outages[i].to = None}

\* The verdict is of a later time than all that is recorded.
News ==
  \A i \in DOMAIN outages :
    outages[i].from < verdict.at /\ (outages[i].to # None => outages[i].to < verdict.at)

Begin ==
  /\ verdict.bad /\ News
  /\ Lasting(verdict.breach) = {}
  /\ \E id \in DOMAIN outages' \ DOMAIN outages :
       outages' = [i \in DOMAIN outages \cup {id} |->
         IF i = id THEN [from |-> verdict.at, to |-> None, breach |-> verdict.breach, told |-> {}]
         ELSE outages[i]]
  /\ UNCHANGED <<verdict, gone>>

End ==
  /\ ~verdict.bad /\ News
  /\ \E i \in Lasting(verdict.breach) : outages' = [outages EXCEPT ![i].to = verdict.at]
  /\ UNCHANGED <<verdict, gone>>

\* The owners read a mail about outage i.  A breach is neither reminded of nor
\* told to be over.
Announces(i, kind) ==
  /\ outages[i].to = None /\ outages[i].told = {}
  /\ kind = IF outages[i].breach THEN "sla_breach" ELSE "incident_opened"

Reminds(i, kind) ==
  /\ outages[i].to = None /\ ~outages[i].breach
  /\ kind = "incident_reminder"

Closes(i, kind) ==
  /\ outages[i].to # None /\ ~outages[i].breach
  /\ "incident_closed" \notin outages[i].told
  /\ kind = "incident_closed"

Tell ==
  /\ \E i \in DOMAIN outages, kind \in {"incident_opened", "sla_breach", "incident_reminder", "incident_closed"} :
       /\ Announces(i, kind) \/ Reminds(i, kind) \/ Closes(i, kind)
       /\ outages' = [outages EXCEPT ![i].told = @ \cup {kind}]
  /\ UNCHANGED <<verdict, gone>>

\* The records go with the service.
Remove == gone' = TRUE /\ outages' = NoOutages /\ UNCHANGED verdict

Next == Judge \/ (~gone /\ (Begin \/ End \/ Tell \/ Remove))

Spec == Init /\ [][Next]_outageVars
===============================================================================
