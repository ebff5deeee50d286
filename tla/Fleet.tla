-------------------------------- MODULE Fleet --------------------------------
(***************************************************************************)
(* What the scheduler promises, whatever tasks, refreshes and polls do: a  *)
(* service is monitored by nobody or with one configuration, one that was  *)
(* committed; a new configuration comes in only after the old one went;    *)
(* and a change of one service leaves the monitoring of the others alone:  *)
(* who was never changed is monitored until everything stops.              *)
(***************************************************************************)
EXTENDS Integers

CONSTANTS Services, None

VARIABLES rows,      \* table `services`: a status and a version
          fleet,     \* the version each service is monitored with, or None
          serving    \* the scheduler is up

fleetVars == <<rows, fleet, serving>>

Inserted == {"active", "inactive"}

Init ==
  /\ \A s \in Services : rows[s].ver = 0
  /\ fleet = [s \in Services |-> None]
  /\ serving = FALSE

\* The catalog inserts a row, or writes one: that makes a new version.
Change(s) ==
  /\ \/ rows[s].st = "absent" /\ \E st \in Inserted : rows' = [rows EXCEPT ![s].st = st]
     \/ /\ rows[s].st \in Inserted
        /\ \E st \in Inserted \cup {"deleted"} :
             rows' = [rows EXCEPT ![s] = [st |-> st, ver |-> rows[s].ver + 1]]
  /\ UNCHANGED <<fleet, serving>>

\* Versions to monitor a service with: committed ones, the latest only if active.
Committed(s) == {v \in 0..rows[s].ver : rows[s].st # "absent" /\ (v = rows[s].ver => rows[s].st = "active")}

Hired(s) == fleet[s] = None /\ fleet'[s] \in Committed(s)
Dismissed(s) == fleet[s] # None /\ fleet'[s] = None /\ rows[s].ver > 0
Kept(s) == fleet'[s] = fleet[s]

Adjust ==
  /\ fleet' = [s \in Services |-> fleet'[s]]
  /\ \A s \in Services : Hired(s) \/ Dismissed(s) \/ Kept(s)
  /\ UNCHANGED <<rows, serving>>

Open == serving' = TRUE /\ UNCHANGED <<rows, fleet>>

\* A shutdown, its end, or a crash: everything stops at once.
Halt ==
  /\ serving' = FALSE
  /\ fleet' = [s \in Services |-> None]
  /\ UNCHANGED rows

Next == Adjust \/ Open \/ Halt \/ \E s \in Services : Change(s)

Spec == Init /\ [][Next]_fleetVars
===============================================================================
