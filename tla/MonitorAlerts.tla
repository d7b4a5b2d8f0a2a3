---------------------------- MODULE MonitorAlerts ---------------------------
(***************************************************************************)
(* The monitor's cycle (crates/rieko-cli/src/commands/monitor.rs) and the  *)
(* alerts it sends: ingest with bounded retries, commit the cycle, then    *)
(* one alert per finding, most severe first, through the persistent        *)
(* cooldown (crates/rieko-alerts/src/dedup.rs) and Telegram, which tries a *)
(* message again when no answer comes (telegram.rs).  The writer lock      *)
(* admits one monitor, which is one thread; it can die at any step, and a  *)
(* supervisor starts it again.  A scan (scan.rs) takes no lock and sends   *)
(* through the same table alert_state at the same time.  The wall clock    *)
(* may step back.                                                          *)
(*                                                                         *)
(* Data abstraction.  An alert is its dedup key and severity, 1 (Warning)  *)
(* or 2 (Critical): Info behaves as one more level below.  A cycle's       *)
(* detectors may find anything, so its findings are a free choice of the   *)
(* ingestion; what the commit does to the tables is FindingLifecycle.  The *)
(* column last_status is written and never read back, and left out; so are *)
(* the alert_sink column of the operational state, and fixture sources,    *)
(* which send no alerts.                                                   *)
(***************************************************************************)
EXTENDS Naturals

CONSTANTS
    Keys,          \* alert dedup keys
    Cooldown,      \* --alert-cooldown, in ticks
    MaxAttempts,   \* RetryPolicy::max_attempts of the ingestion
    MaxSends,      \* RetryPolicy::max_attempts of Telegram
    MaxTime,       \* bound: ticks of the wall clock
    MaxFaults,     \* bound: ingestions, sends and storage calls that fail
    MaxCrashes,    \* bound: process kills
    MaxScans       \* bound: alerts of scans

ASSUME MonitorAssumption ==
    /\ Cooldown \in Nat /\ MaxAttempts \in Nat \ {0} /\ MaxSends \in Nat \ {0}
    /\ MaxTime \in Nat /\ MaxFaults \in Nat /\ MaxCrashes \in Nat /\ MaxScans \in Nat

VARIABLES
    now,        \* Utc::now()
    state,      \* table alert_state: last_sent_at and last_severity per key
    pc,         \* where the monitor is
    attempt,    \* ingestion attempt of this cycle
    findings,   \* severities of this cycle's findings, 0 where there is none
    todo,       \* keys this cycle has not alerted for yet
    key, at,    \* the alert being sent, and the time send() read first
    stored,     \* the state send() read
    tries,      \* messages posted for it
    scan,       \* the alert a scan is sending
    \* observation
    told,       \* the last alert per key that reached the operator
    unrecorded, \* keys whose last alert was delivered and not written down
    contested,  \* keys the monitor and a scan have sent at the same time
    faults, crashes, scans

vars == <<now, state, pc, attempt, findings, todo, key, at, stored, tries, scan, told, unrecorded,
          contested, faults, crashes, scans>>
cycle == <<attempt, findings>>
alert == <<key, at, stored, tries>>
sent == <<state, told, unrecorded>>
others == <<scan, contested, scans>>

Never == [at |-> 0, sev |-> 0]      \* AlertState::never()
AlertStates == [at : 0..MaxTime, sev : 0..2]
NoKey == "no key"
NoScan == [stage |-> "none", key |-> NoKey, at |-> 0, sev |-> 0, stored |-> Never]

InSend == {"skipping", "sending", "failed", "record"}

TypeOK ==
    /\ now \in 0..MaxTime
    /\ state \in [Keys -> AlertStates] /\ told \in [Keys -> AlertStates]
    /\ pc \in {"ingest", "persist", "alert", "sleep", "down"} \cup InSend
    /\ attempt \in 1..MaxAttempts
    /\ findings \in [Keys -> 0..2]
    /\ todo \subseteq Keys
    /\ key \in Keys \cup {NoKey} /\ at \in 0..MaxTime
    /\ stored \in AlertStates /\ tries \in 0..MaxSends
    /\ scan \in [stage : {"none", "skipping", "sending", "record"}, key : Keys \cup {NoKey},
                 at : 0..MaxTime, sev : 0..2, stored : AlertStates]
    /\ unrecorded \subseteq Keys /\ contested \subseteq Keys
    /\ faults \in 0..MaxFaults /\ crashes \in 0..MaxCrashes /\ scans \in 0..MaxScans

NewCycle == attempt' = 1 /\ findings' = [k \in Keys |-> 0]

Fault == faults < MaxFaults /\ faults' = faults + 1

-----------------------------------------------------------------------------
(* Ingestion and persistence.                                              *)

\* ingest_with_retry got a graph; the detectors evaluate it.
Ingest(f) ==
    /\ pc = "ingest"
    /\ findings' = f /\ pc' = "persist"
    /\ UNCHANGED <<now, sent, attempt, todo, alert, others, faults, crashes>>

\* build() failed: try again, or give this cycle up.
IngestFails ==
    /\ pc = "ingest" /\ Fault
    /\ IF attempt = MaxAttempts THEN pc' = "sleep" /\ UNCHANGED attempt
                                ELSE attempt' = attempt + 1 /\ UNCHANGED pc
    /\ UNCHANGED <<now, sent, findings, todo, alert, others, crashes>>

\* persist_monitor_cycle commits and run_cleanup_if_due succeeds.
Persist ==
    /\ pc = "persist"
    /\ todo' = {k \in Keys : findings[k] > 0}
    /\ pc' = "alert"
    /\ UNCHANGED <<now, sent, cycle, alert, others, faults, crashes>>

\* Any storage error outside the alert sink ends the process.
StorageFails ==
    /\ pc \in {"ingest", "persist", "alert"} /\ Fault
    /\ pc' = "down" /\ todo' = {} /\ NewCycle
    /\ UNCHANGED <<now, sent, alert, others, crashes>>

-----------------------------------------------------------------------------
(* PersistentDedupingSink::send, for the most severe finding left.  What   *)
(* was read is written back with a new last_status when nothing was sent.  *)

Next1(k) == k \in todo /\ \A j \in todo : findings[j] <= findings[k]

InCooldown(k) == state[k].sev > 0 /\ now < state[k].at + Cooldown
Escalated(k, sev) == state[k].sev > 0 /\ sev > state[k].sev

\* Faulty variant: an escalation waits for the cooldown like a repeat.
SuppressesEscalation(k, sev) == InCooldown(k)

\* Faulty variant: any change of severity is sent.
SuppressesRepeatOnly(k, sev) == InCooldown(k) /\ sev = state[k].sev

Suppressed(k, sev) == InCooldown(k) /\ ~Escalated(k, sev)

Send(k) ==
    /\ pc = "alert" /\ Next1(k)
    /\ key' = k /\ at' = now /\ stored' = state[k] /\ tries' = 0
    /\ pc' = IF Suppressed(k, findings[k]) THEN "skipping" ELSE "sending"
    /\ contested' = contested \cup {j \in {k} : scan.stage # "none" /\ scan.key = k}
    /\ UNCHANGED <<now, sent, cycle, todo, scan, scans, faults, crashes>>

\* The state cannot be read: an error for this alert, and the loop goes on.
ReadFails(k) ==
    /\ pc = "alert" /\ Next1(k) /\ Fault
    /\ todo' = todo \ {k}
    /\ UNCHANGED <<now, sent, pc, cycle, alert, others, crashes>>

NoAlert == key' = NoKey /\ at' = 0 /\ stored' = Never /\ tries' = 0

AlertDone == todo' = todo \ {key} /\ pc' = "alert" /\ NoAlert

Skip ==
    /\ pc = "skipping"
    /\ state' = [state EXCEPT ![key] = stored]
    /\ AlertDone
    /\ UNCHANGED <<now, told, unrecorded, cycle, others, faults, crashes>>

\* The message is in the operator's chat.
Arrives ==
    /\ told' = [told EXCEPT ![key] = [at |-> at, sev |-> findings[key]]]
    /\ unrecorded' = unrecorded \cup {key}
    /\ UNCHANGED state

\* Telegram answers ok.
Delivered ==
    /\ pc = "sending"
    /\ Arrives
    /\ pc' = "record"
    /\ UNCHANGED <<now, cycle, todo, alert, others, faults, crashes>>

\* A timeout, a transport error or a 5xx, before or after the message
\* arrived: send_with_retry posts it again, up to max_attempts times.
NoAnswer ==
    /\ pc = "sending" /\ Fault
    /\ Arrives \/ UNCHANGED sent
    /\ tries' = tries + 1
    /\ pc' = IF tries' = MaxSends THEN "failed" ELSE "sending"
    /\ UNCHANGED <<now, cycle, todo, key, at, stored, others, crashes>>

\* A 4xx, or an answer that is not {"ok": true}, is not tried again.
Refused ==
    /\ pc = "sending" /\ Fault
    /\ Arrives \/ UNCHANGED sent
    /\ pc' = "failed"
    /\ UNCHANGED <<now, cycle, todo, alert, others, crashes>>

\* Faulty variant: the failure is stored as if it were a delivery.
FailureConsumesCooldown ==
    /\ pc = "failed"
    /\ state' = [state EXCEPT ![key] = [at |-> at, sev |-> findings[key]]]
    /\ AlertDone
    /\ UNCHANGED <<now, told, unrecorded, cycle, others, faults, crashes>>

\* The inner sink failed: last_sent_at and last_severity stay as read.
SinkFails ==
    /\ pc = "failed"
    /\ state' = [state EXCEPT ![key] = stored]
    /\ AlertDone
    /\ UNCHANGED <<now, told, unrecorded, cycle, others, faults, crashes>>

\* The delivery is written down.
Record ==
    /\ pc = "record"
    /\ state' = [state EXCEPT ![key] = [at |-> at, sev |-> findings[key]]]
    /\ unrecorded' = unrecorded \ {key}
    /\ AlertDone
    /\ UNCHANGED <<now, told, cycle, others, faults, crashes>>

\* A write to alert_state fails: an alert error, and the loop goes on.
WriteFails ==
    /\ pc \in {"skipping", "failed", "record"} /\ Fault
    /\ AlertDone
    /\ UNCHANGED <<now, sent, cycle, others, crashes>>

\* All alerts handled, or ingestion given up: sleep, then the next cycle.
EndCycle ==
    /\ pc = "alert" /\ todo = {}
    /\ pc' = "sleep"
    /\ UNCHANGED <<now, sent, cycle, todo, alert, others, faults, crashes>>

Wake ==
    /\ pc = "sleep"
    /\ pc' = "ingest" /\ NewCycle
    /\ UNCHANGED <<now, sent, todo, alert, others, faults, crashes>>

-----------------------------------------------------------------------------
(* A scan's alert, through the same sink; its retries are one step.        *)

ScanSends(k, sev) ==
    /\ scan = NoScan /\ scans < MaxScans /\ scans' = scans + 1
    /\ scan' = [stage |-> IF Suppressed(k, sev) THEN "skipping" ELSE "sending", key |-> k,
                at |-> now, sev |-> sev, stored |-> state[k]]
    /\ contested' = contested \cup {j \in {k} : pc \in InSend /\ key = k}
    /\ UNCHANGED <<now, sent, pc, cycle, todo, alert, faults, crashes>>

ScanArrives ==
    /\ told' = [told EXCEPT ![scan.key] = [at |-> scan.at, sev |-> scan.sev]]
    /\ unrecorded' = unrecorded \cup {scan.key}

ScanDelivered ==
    /\ scan.stage = "sending"
    /\ ScanArrives
    /\ scan' = [scan EXCEPT !.stage = "record"]
    /\ UNCHANGED <<now, state, pc, cycle, todo, alert, contested, scans, faults, crashes>>

\* Suppressed, or refused by Telegram: what was read is written back.
ScanKeeps ==
    /\ \/ scan.stage = "skipping" /\ UNCHANGED <<told, unrecorded>>
       \/ scan.stage = "sending" /\ (ScanArrives \/ UNCHANGED <<told, unrecorded>>)
    /\ state' = [state EXCEPT ![scan.key] = scan.stored]
    /\ scan' = NoScan
    /\ UNCHANGED <<now, pc, cycle, todo, alert, contested, scans, faults, crashes>>

ScanRecords ==
    /\ scan.stage = "record"
    /\ state' = [state EXCEPT ![scan.key] = [at |-> scan.at, sev |-> scan.sev]]
    /\ unrecorded' = unrecorded \ {scan.key}
    /\ scan' = NoScan
    /\ UNCHANGED <<now, told, pc, cycle, todo, alert, contested, scans, faults, crashes>>

\* It is killed, or its write fails.
ScanEnds ==
    /\ scan.stage # "none"
    /\ scan' = NoScan
    /\ UNCHANGED <<now, sent, pc, cycle, todo, alert, contested, scans, faults, crashes>>

-----------------------------------------------------------------------------
Crash ==
    /\ pc # "down" /\ crashes < MaxCrashes /\ crashes' = crashes + 1
    /\ pc' = "down" /\ todo' = {} /\ NoAlert /\ NewCycle
    /\ UNCHANGED <<now, sent, others, faults>>

Restart ==
    /\ pc = "down"
    /\ pc' = "ingest"
    /\ UNCHANGED <<now, sent, cycle, todo, alert, others, faults, crashes>>

Tick ==
    /\ now < MaxTime /\ now' = now + 1
    /\ UNCHANGED <<sent, pc, cycle, todo, alert, others, faults, crashes>>

StepBack ==
    /\ now > 0 /\ now' = now - 1
    /\ UNCHANGED <<sent, pc, cycle, todo, alert, others, faults, crashes>>

Init ==
    /\ now = 0
    /\ state = [k \in Keys |-> Never] /\ told = [k \in Keys |-> Never]
    /\ pc = "ingest" /\ attempt = 1
    /\ findings = [k \in Keys |-> 0]
    /\ todo = {} /\ key = NoKey /\ at = 0 /\ stored = Never /\ tries = 0
    /\ scan = NoScan
    /\ unrecorded = {} /\ contested = {}
    /\ faults = 0 /\ crashes = 0 /\ scans = 0

\* What the monitor does when nothing goes wrong.
Step ==
    \/ \E f \in [Keys -> 0..2] : Ingest(f)
    \/ Persist
    \/ \E k \in Keys : Send(k)
    \/ Skip \/ Delivered \/ SinkFails \/ Record \/ EndCycle \/ Wake \/ Restart

Scan ==
    \/ \E k \in Keys, sev \in 1..2 : ScanSends(k, sev)
    \/ ScanDelivered \/ ScanKeeps \/ ScanRecords \/ ScanEnds

Next ==
    \/ Step
    \/ IngestFails \/ StorageFails
    \/ \E k \in Keys : ReadFails(k)
    \/ NoAnswer \/ Refused \/ WriteFails
    \/ Scan
    \/ Crash \/ Tick \/ StepBack

Spec == Init /\ [][Next]_vars

\* The loop and its supervisor keep going; faults and scans are bounded and
\* the clock need not advance.
FairSpec == Spec /\ WF_vars(Step)

-----------------------------------------------------------------------------
(* Properties.                                                             *)

\* What the dedup state says was last sent is what the operator was last
\* told, unless the process died, the write failed or no answer came after
\* the message arrived, or a scan was sending the same alert: neither a
\* failed send nor a suppression, both of which write back what they had
\* read, nor a restart nor a clock that steps back disturbs it.
StateMatchesTold ==
    \A k \in Keys : k \notin unrecorded \cup contested => state[k] = told[k]

\* An alert is a cooldown away from the one before it, or more severe.
Spaced(old, new) ==
    old.sev = 0 \/ new.at >= old.at + Cooldown \/ new.sev > old.sev

\* Two alerts for a key are a cooldown apart by the clock they were sent by,
\* unless the severity rose, the earlier one was delivered and never written
\* down, or a scan sent it at the same time: restarts, failed sends,
\* suppressed repeats and a clock that steps back in between do not reset
\* the cooldown.
CooldownHolds ==
    [][\A k \in Keys \ (unrecorded \cup contested) :
          k \in unrecorded' => Spaced(told[k], told'[k])]_vars

\* A finding that stays Critical reaches the operator as Critical, whatever
\* was sent before it and whatever failed on the way ("Critical findings must
\* never be deduped away silently"), unless a scan sent the same alert at the
\* same time or the clock is behind the last alert.
CriticalGetsThrough ==
    \A k \in Keys : []<>(pc = "alert" /\ k \in todo /\ findings[k] = 2)
                       => []<>(told[k].sev = 2 \/ k \in contested \/ now < told[k].at)

(* The inductive strengthening of StateMatchesTold and CooldownHolds.      *)

\* The alert on its way has tries left and was due when send() decided, by
\* the state it read, which nobody has changed; the alert being written down is the one that
\* was delivered.
SendJustified ==
    pc \in InSend =>
        /\ key \in Keys
        /\ pc = "sending" => tries < MaxSends
        /\ key \notin contested =>
              /\ stored = state[key]
              /\ pc = "sending" => Spaced(state[key], [at |-> at, sev |-> findings[key]])
              /\ pc = "record" => told[key] = [at |-> at, sev |-> findings[key]]

\* The same of a scan's alert; the two are never on their way for one key
\* that is not contested.
ScanJustified ==
    scan.stage # "none" =>
        /\ scan.key \in Keys
        /\ scan.key \notin contested =>
              /\ ~(pc \in InSend /\ key = scan.key)
              /\ scan.stored = state[scan.key]
              /\ scan.stage = "sending" => Spaced(state[scan.key], [at |-> scan.at, sev |-> scan.sev])
              /\ scan.stage = "record" => told[scan.key] = [at |-> scan.at, sev |-> scan.sev]

MonitorInv == StateMatchesTold /\ SendJustified /\ ScanJustified
=============================================================================
