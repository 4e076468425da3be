----------------------------- MODULE MCRequests -----------------------------
(***************************************************************************)
(* Small instances of what stands between two locks: alerts with their     *)
(* evaluation (Alerts), the daily allowance over three days of which two   *)
(* are kept (Metering), the windows of three callers in a table with room  *)
(* for one (RateLimit), and the file under all documents (AtomicFile); one *)
(* of the four runs, the others stay where they began.  MaxDelivered       *)
(* bounds the deliveries of one alert and MaxChanges the changes to the    *)
(* delivery settings.                                                      *)
(***************************************************************************)
EXTENDS Alerts, Metering, RateLimit, AtomicFile, TLC

CONSTANTS MaxDelivered, MaxChanges

VARIABLES
    changes,    \* how many requests have changed the delivery settings
    runs        \* which of the four runs

gateVars == <<meterVars, limitVars, fileVars>>

IsSetting(w) == worker[w] = Idle /\ worker'[w].edit.op \notin {"idle", "create", "delete"}

BoundedInit ==
    /\ runs \in {"alerts", "meter", "limit", "file"} /\ changes = 0
    /\ Init /\ MeterInit /\ LimitInit /\ FileInit
    /\ runs # "alerts" => \A u \in Users : ~docs[u].code
    /\ runs # "file" => file = Absent

AlertsNext ==
    /\ runs = "alerts"
    /\ Next
    /\ \A x \in Alerts : delivered'[x] <= MaxDelivered
    /\ changes' = IF \E w \in Workers : IsSetting(w) THEN changes + 1 ELSE changes
    /\ changes' <= MaxChanges
    /\ UNCHANGED <<gateVars, runs>>

MeteredNext == runs = "meter" /\ MeterNext /\ UNCHANGED <<vars, limitVars, fileVars, changes, runs>>
WindowNext == runs = "limit" /\ LimitNext /\ UNCHANGED <<vars, meterVars, fileVars, changes, runs>>

WritesNext == runs = "file" /\ FileNext /\ UNCHANGED <<vars, meterVars, limitVars, changes, runs>>

BoundedNext == AlertsNext \/ MeteredNext \/ WindowNext \/ WritesNext
BoundedSpec == BoundedInit /\ [][BoundedNext]_<<vars, gateVars, changes, runs>>

Symmetry == Permutations(Users) \cup Permutations(Workers) \cup Permutations(Alerts)
=============================================================================
