----------------------------- MODULE Incidents -----------------------------
(***************************************************************************)
(* Correlation of governance alerts (chimera/siem_ir.py).  Every alert is  *)
(* sent by a task of its own; before it posts, the task looks for the      *)
(* incident that is open for the alert's tenant, decision, violation and   *)
(* session, opens one if there is none, and counts itself in the record of *)
(* the incident.  The module follows the alerts of one such class: classes *)
(* share no key.  The identifier of an incident is the alert that made it  *)
(* up.                                                                     *)
(***************************************************************************)
EXTENDS Naturals, FiniteSets

CONSTANTS
    MaxAlerts,       \* bound of the model: alerts of one class, in the order they are raised
    MaxExpiries,     \* bound of the model: correlation windows that end
    MaxIncFaults     \* bound of the model: errors of Redis, lost replies

ASSUME IncidentsAssumption ==
    /\ MaxAlerts \in Nat
    /\ MaxExpiries \in Nat /\ MaxIncFaults \in Nat

Alerts == 1 .. MaxAlerts
NoIncident == 0   \* no identifier

VARIABLES
    active,      \* incident_active_key: the open incident
    record,      \* incident_record_key of each identifier: its count, 0 if there is none
    alert,       \* each task: [at, id, opened, count]
    expiries,    \* windows that ended
    incFaults,   \* faults so far
    raced        \* incidents two alerts counted themselves in at once

incVars == <<active, record, alert, expiries, incFaults, raced>>

IncInit ==
    /\ active = NoIncident
    /\ record = [i \in Alerts |-> 0]
    /\ alert = [a \in Alerts |-> [at |-> "none", id |-> NoIncident, opened |-> FALSE, count |-> 0]]
    /\ expiries = 0 /\ incFaults = 0 /\ raced = {}

IncFault == incFaults < MaxIncFaults /\ incFaults' = incFaults + 1

(* send_alert_if_needed starts the task and enrich_and_send_siem_event     *)
(* correlates, with any severity.                                          *)
Raise(a) ==
    /\ alert[a].at = "none" /\ \A b \in 1 .. a - 1 : alert[b].at # "none"
    /\ alert' = [alert EXCEPT ![a].at = "look"]
    /\ UNCHANGED <<active, record, expiries, incFaults, raced>>

(* GET of the active key.                                                  *)
Look(a) ==
    /\ alert[a].at = "look"
    /\ alert' = IF active = NoIncident
                  THEN [alert EXCEPT ![a].at = "claim"]
                  ELSE [alert EXCEPT ![a].at = "count", ![a].id = active]
    /\ UNCHANGED <<active, record, expiries, incFaults, raced>>

LookFails(a) ==
    /\ IncFault
    /\ alert[a].at = "look"
    /\ alert' = [alert EXCEPT ![a].at = "claim"]
    /\ UNCHANGED <<active, record, expiries, raced>>

(* Mutant of Claimable: SET without nx. *)
AlwaysClaimable == TRUE

Claimable == active = NoIncident

(* SET NX of an identifier of its own.                                     *)
Claim(a) ==
    /\ alert[a].at = "claim"
    /\ active' = IF Claimable THEN a ELSE active
    /\ alert' = IF Claimable
                  THEN [alert EXCEPT ![a].at = "count", ![a].id = a, ![a].opened = TRUE]
                  ELSE [alert EXCEPT ![a].at = "adopt"]
    /\ UNCHANGED <<record, expiries, incFaults, raced>>

(* The SET raises, done or not; the alert keeps its own identifier.        *)
ClaimRaises(a) ==
    /\ IncFault
    /\ alert[a].at = "claim"
    /\ active' \in {active, IF Claimable THEN a ELSE active}
    /\ alert' = [alert EXCEPT ![a].at = "count", ![a].id = a]
    /\ UNCHANGED <<record, expiries, raced>>

(* GET of the winner, whose window may have ended since.                   *)
Adopt(a) ==
    /\ alert[a].at = "adopt"
    /\ alert' = [alert EXCEPT ![a].at = "count",
                              ![a].id = IF active = NoIncident THEN a ELSE active]
    /\ UNCHANGED <<active, record, expiries, incFaults, raced>>

AdoptFails(a) ==
    /\ IncFault
    /\ alert[a].at = "adopt"
    /\ alert' = [alert EXCEPT ![a].at = "count", ![a].id = a]
    /\ UNCHANGED <<active, record, expiries, raced>>

(* GET of the record; an incident that has one was not opened by this      *)
(* alert, whatever the SET said.                                           *)
CountIn(a) ==
    LET i == alert[a].id
    IN  /\ alert[a].at = "count"
        /\ alert' = [alert EXCEPT ![a].at = "save", ![a].count = record[i] + 1,
                                  ![a].opened = @ /\ record[i] = 0]
        /\ raced' = IF \E b \in Alerts : alert[b].at = "save" /\ alert[b].id = i
                      THEN raced \cup {i} ELSE raced
        /\ UNCHANGED <<active, record, expiries, incFaults>>

(* SET of the record; the event is sent, or dropped by the egress gate.    *)
SaveRecord(a) ==
    /\ alert[a].at = "save"
    /\ record' = [record EXCEPT ![alert[a].id] = alert[a].count]
    /\ alert' = [alert EXCEPT ![a].at = "saved"]
    /\ UNCHANGED <<active, expiries, incFaults, raced>>

(* The GET or the SET of the record raises: the event goes out uncounted.  *)
RecordFails(a) ==
    /\ IncFault
    /\ alert[a].at \in {"count", "save"}
    /\ alert' = [alert EXCEPT ![a].at = "uncounted"]
    /\ UNCHANGED <<active, record, expiries, raced>>

(* The window began with the alert that opened it and no other renews it.  *)
Expire ==
    /\ expiries < MaxExpiries
    /\ active # NoIncident
    /\ active' = NoIncident
    /\ expiries' = expiries + 1
    /\ UNCHANGED <<record, alert, incFaults, raced>>

IncNext ==
    \/ \E a \in Alerts :
         Raise(a) \/ Look(a) \/ LookFails(a) \/ Claim(a) \/ ClaimRaises(a) \/ Adopt(a)
           \/ AdoptFails(a) \/ CountIn(a) \/ SaveRecord(a) \/ RecordFails(a)
    \/ Expire

---------------------------------------------------------------------------
IncSpec == IncInit /\ [][IncNext]_incVars

AlertStates == [at : {"none", "look", "claim", "adopt", "count", "save", "saved", "uncounted"},
                id : Alerts \cup {NoIncident}, opened : BOOLEAN, count : Nat]

(* The shapes of the state: an alert has the identifier of an incident     *)
(* when it counts itself there, and none before.                           *)
IncTypeOK ==
    /\ active \in Alerts \cup {NoIncident} /\ record \in [Alerts -> Nat]
    /\ alert \in [Alerts -> AlertStates]
    /\ expiries \in Nat /\ incFaults \in Nat /\ raced \subseteq Alerts
    /\ \A a \in Alerts :
         /\ alert[a].at \in {"count", "save", "saved"} => alert[a].id \in Alerts
         /\ alert[a].at \in {"none", "look", "claim", "adopt"} => alert[a].id = NoIncident

(* Until a window ends or Redis fails, the open incident is that of every  *)
(* alert which has one, and who adopts it finds it.                        *)
OneIncident ==
    expiries = 0 /\ incFaults = 0 =>
        \A a \in Alerts : /\ alert[a].id \in {NoIncident, active}
                          /\ alert[a].at = "adopt" => active # NoIncident

Saved(i)  == {a \in Alerts : alert[a].id = i /\ alert[a].at = "saved"}
Saving(i) == {a \in Alerts : alert[a].id = i /\ alert[a].at = "save"}

(* What is written, and what an alert is about to write, counts no more    *)
(* than were saved, and without a race exactly those.                      *)
Tallied ==
    \A i \in Alerts :
        /\ record[i] <= Cardinality(Saved(i))
        /\ \A a \in Saving(i) : alert[a].count <= Cardinality(Saved(i)) + 1
        /\ i \notin raced =>
             /\ record[i] = Cardinality(Saved(i))
             /\ \A a, b \in Saving(i) : a = b /\ alert[a].count = record[i] + 1

(* Only the alert an incident is named after says that it opened it.       *)
OpenedByItself == \A a \in Alerts : alert[a].opened => alert[a].id = a

IncInv == IncTypeOK /\ OneIncident /\ Tallied /\ OpenedByItself

(* Correlation holds together while alerts arrive in any interleaving.     *)
(* Within one window, and unless Redis failed, all alerts of the class are *)
(* of one incident.  The count of an incident is that of the alerts saved  *)
(* in it, and can be short of it only when two of them read the record     *)
(* before either wrote it; it is never too high.  And at most one alert    *)
(* says that it opened the incident.                                       *)
IncidentsAgree ==
    /\ expiries = 0 /\ incFaults = 0 =>
         \A a, b \in Alerts : NoIncident \in {alert[a].id, alert[b].id} \/ alert[a].id = alert[b].id
    /\ \A i \in Alerts :
         /\ record[i] <= Cardinality(Saved(i))
         /\ i \notin raced => record[i] = Cardinality(Saved(i))
         /\ Cardinality({a \in Alerts : alert[a].id = i /\ alert[a].opened}) <= 1
=============================================================================
