------------------------------ MODULE FleetLease -------------------------------
(***************************************************************************)
(* What the fleet promises about leases, with no ledger, no sequence       *)
(* numbers, no heartbeats and no crashes: a worker holds at most one task, *)
(* a task is run in numbered attempts, the first verdict on an attempt     *)
(* stands, and only the worker that ran the last attempt may run the next. *)
(* FleetLedger implements this specification.                              *)
(***************************************************************************)
EXTENDS Integers

CONSTANTS Task, Worker, NoWorker

VARIABLES
  holding,  \* the tasks each worker is running
  attempt,  \* the number of attempts of each task
  verdict,  \* "Unknown", "Open", or how the latest attempt ended
  last      \* the worker of the latest attempt

leaseVars == <<holding, attempt, verdict, last>>

Verdict == {"Completed", "Failed", "Cancelled"}

Init ==
  /\ holding = [w \in Worker |-> {}]
  /\ attempt = [t \in Task |-> 0]
  /\ verdict = [t \in Task |-> "Unknown"]
  /\ last = [t \in Task |-> NoWorker]

Submit(t) ==
  /\ verdict[t] = "Unknown"
  /\ verdict' = [verdict EXCEPT ![t] = "Open"]
  /\ UNCHANGED <<holding, attempt, last>>

\* A first attempt goes to any idle worker; a later one to the same worker,
\* idle or still running the attempt it replaces.
Grant(t, w) ==
  /\ verdict[t] # "Unknown"
  /\ \/ holding[w] = {} /\ last[t] = NoWorker /\ verdict[t] = "Open"
     \/ holding[w] \subseteq {t} /\ last[t] = w
  /\ holding' = [holding EXCEPT ![w] = {t}]
  /\ attempt' = [attempt EXCEPT ![t] = @ + 1]
  /\ verdict' = [verdict EXCEPT ![t] = "Open"]
  /\ last' = [last EXCEPT ![t] = w]

\* The attempt in progress ends.
Conclude(t, w, v) ==
  /\ holding[w] = {t}
  /\ holding' = [holding EXCEPT ![w] = {}]
  /\ verdict' = [verdict EXCEPT ![t] = v]
  /\ UNCHANGED <<attempt, last>>

\* A task that was never attempted is called off.
Withdraw(t) ==
  /\ verdict[t] = "Open"
  /\ attempt[t] = 0
  /\ verdict' = [verdict EXCEPT ![t] = "Cancelled"]
  /\ UNCHANGED <<holding, attempt, last>>

Next ==
  \E t \in Task :
    \/ Submit(t)
    \/ Withdraw(t)
    \/ \E w \in Worker : Grant(t, w) \/ \E v \in Verdict : Conclude(t, w, v)

Spec == Init /\ [][Next]_leaseVars
================================================================================
