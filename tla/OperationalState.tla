-------------------------- MODULE OperationalState --------------------------
(***************************************************************************)
(* The agent's pollers of BTCPay Greenfield, Bitcoin Core and LND          *)
(* (crates/rieko-cli/src/agent.rs) on the one operational_state row they   *)
(* share, and the detectors they run on it: btcpay_backend_health and the  *)
(* two correlations, each named here after its poller.  A `rieko scan' in  *)
(* another process writes the same row.  Each storage call is one          *)
(* transaction under the storage mutex, hence one step; a poller holds     *)
(* nothing between its calls.                                              *)
(*                                                                         *)
(* Data abstraction.  A snapshot is whether its node was synchronized.  A  *)
(* time is a tick of a clock that does not step back; 0 is None and the    *)
(* epoch.  last_success of Core and LND, last_persist_success and the      *)
(* channel snapshots are reported and never read by this code; freshness   *)
(* and the component states, which no poller touches, can only turn the    *)
(* verdict Healthy into Degraded.                                          *)
(***************************************************************************)
EXTENDS Naturals

CONSTANTS
    Limits,      \* configurations: the cycle limits of the three pollers
    MaxTime,     \* bound: ticks of the clock
    MaxUpsets    \* bound: failed storage calls, restarts and scans, together

Chain == {"core", "lnd"}
Sources == {"btcpay"} \cup Chain
Times == 0..MaxTime

ASSUME OperationalAssumption ==
    /\ Limits \subseteq [Sources -> Nat]
    /\ MaxTime \in Nat \ {0} /\ MaxUpsets \in Nat

VARIABLES
    now,
    \* the row operational_state
    source,      \* SourceState
    attemptAt,   \* last_ingestion_attempt
    successAt,   \* last_ingestion_success
    node,        \* bitcoin_core and lightning; None while attemptAt is 0
    cycle,       \* last_cycle_attempt and last_cycle_success
    finding,     \* the three detectors' rows in table findings
    \* volatile
    poller,      \* the program counters of the polling loops
    limit,       \* config.cycles of each loop
    polls,       \* attempts of each loop
    wedged,      \* SqliteStorage::in_transaction is TRUE and no transaction is open: SQLite
                 \* rolled a failed COMMIT back by itself
    scan,        \* the scan process
    \* observation
    last,        \* the last outcome of each source that was written down
    good,        \* good Greenfield outcomes written down since the last bad one (up to 3)
    seen, missed, \* as in FindingLifecycle
    upsets       \* failed storage calls, restarts and scans

row == <<source, attemptAt, successAt, node, cycle>>
tables == <<row, finding, seen, missed>>
ghosts == <<last, good>>
agent == <<poller, limit, polls, wedged>>
vars == <<now, row, finding, agent, scan, ghosts, seen, missed, upsets>>

\* Each detector commits its own cycles; none recommends, and a scope without
\* a network matches findings without provenance.
Life == INSTANCE FindingLifecycle WITH
            Findings <- Sources, Scopes <- Sources, ScopeOf <- [s \in Sources |-> s],
            Pipelines <- {{s} : s \in Sources}, Recommending <- {}, Unprovenanced <- {},
            rec <- [s \in Sources |-> "none"], audit <- [s \in Sources |-> 0]

Greenfield(up) == [kind |-> "btcpay", connected |-> up]
NoScan == [pc |-> "off", kind |-> "fixture"]

TypeOK ==
    /\ now \in 1..MaxTime
    /\ source \in [kind : {"fixture", "lnd_rest", "btcpay"}, connected : BOOLEAN]
    /\ attemptAt \in Times /\ successAt \in Times
    /\ node \in [Chain -> [connected : BOOLEAN, attemptAt : Times,
                           snap : {"none", "synced", "behind"}]]
    /\ cycle \in [attempt : Times, success : Times]
    /\ finding \in [Sources -> [lifecycle : {"none", "active", "resolved"},
                                absent : 0..2, first : Times, last : Times]]
    /\ poller \in [Sources -> {"tick", "poll", "evaluate"}]
    /\ limit \in Limits /\ polls \in [Sources -> Nat] /\ wedged \in BOOLEAN
    /\ scan \in [pc : {"off", "build", "loaded", "cycle"}, kind : {"fixture", "lnd_rest"}]
    /\ last \in [Sources -> {"none", "ok", "fail"}] /\ good \in 0..3
    /\ seen \in [Sources -> SUBSET Times] /\ missed \in [Sources -> 0..3]
    /\ upsets \in 0..MaxUpsets

Upset == upsets < MaxUpsets /\ upsets' = upsets + 1
Goto(s, pc) == poller' = [poller EXCEPT ![s] = pc]

\* begin_transaction ... commit_transaction fails: it is refused while the
\* flag is stuck, and its own failed COMMIT can leave the flag stuck.
TransactionFails ==
    \/ wedged /\ UNCHANGED <<wedged, upsets>>
    \/ ~wedged /\ Upset /\ wedged' \in BOOLEAN

-----------------------------------------------------------------------------
(* The polling loops.                                                      *)

\* record_greenfield_attempt.
GreenfieldAttempt ==
    /\ source' = Greenfield(source = Greenfield(TRUE))
    /\ attemptAt' = now
    /\ UNCHANGED <<successAt, node, cycle>>

\* record_bitcoin_core_attempt, record_lnd_attempt.
NodeAttempt(s) ==
    /\ node' = [node EXCEPT ![s].attemptAt = now]
    /\ UNCHANGED <<source, attemptAt, successAt, cycle>>

\* The ticker fires.  An attempt that cannot be written down is only logged.
Attempt(s) ==
    /\ poller[s] = "tick" /\ polls[s] < limit[s]
    /\ polls' = [polls EXCEPT ![s] = @ + 1]
    /\ \/ /\ IF s = "btcpay" THEN GreenfieldAttempt ELSE NodeAttempt(s)
          /\ UNCHANGED upsets
       \/ Upset /\ UNCHANGED row
    /\ Goto(s, "poll")
    /\ UNCHANGED <<now, finding, limit, wedged, scan, ghosts, seen, missed>>

Outcomes(s) == IF s = "btcpay" THEN {"ok", "fail"} ELSE {"synced", "behind", "fail"}

\* persist_greenfield_snapshot, record_greenfield_failure.
GreenfieldOutcome(out) ==
    /\ source' = Greenfield(out = "ok")
    /\ successAt' = IF out = "ok" THEN now ELSE successAt
    /\ good' = IF out = "fail" THEN 0 ELSE IF good < 3 THEN good + 1 ELSE 3
    /\ UNCHANGED <<attemptAt, node, cycle>>

\* Faulty variant: a failure does not disconnect the node.
NodeStaysConnected(s, out) ==
    /\ node' = [node EXCEPT ![s] =
                   [connected |-> @.connected \/ out # "fail",
                    attemptAt |-> IF @.attemptAt = 0 THEN now ELSE @.attemptAt,
                    snap |-> IF out = "fail" THEN @.snap ELSE out]]
    /\ UNCHANGED <<source, attemptAt, successAt, cycle, good>>

\* record_bitcoin_core_success and _failure, record_lnd_success and _failure:
\* a failure keeps the old snapshot.
NodeOutcome(s, out) ==
    /\ node' = [node EXCEPT ![s] =
                   [connected |-> out # "fail",
                    attemptAt |-> IF @.attemptAt = 0 THEN now ELSE @.attemptAt,
                    snap |-> IF out = "fail" THEN @.snap ELSE out]]
    /\ UNCHANGED <<source, attemptAt, successAt, cycle, good>>

\* A snapshot of BTCPay is written in an explicit transaction, every other
\* outcome by update_operational_state, which works with the flag stuck.
NeedsTransaction(s, out) == s = "btcpay" /\ out = "ok"

\* Faulty variant: no detector runs after any failure.
AfterSuccessOnly(s, out) == IF out = "fail" THEN "tick" ELSE "evaluate"

\* After a failure of Core or LND no detector runs; Greenfield's runs after
\* every outcome.
AfterRecord(s, out) == IF s \in Chain /\ out = "fail" THEN "tick" ELSE "evaluate"

\* The poll answers, fails or runs into its timeout, and its outcome is
\* written down.
Record(s, out) ==
    /\ poller[s] = "poll" /\ ~(wedged /\ NeedsTransaction(s, out))
    /\ IF s = "btcpay" THEN GreenfieldOutcome(out) ELSE NodeOutcome(s, out)
    /\ last' = [last EXCEPT ![s] = IF out = "fail" THEN "fail" ELSE "ok"]
    /\ Goto(s, AfterRecord(s, out))
    /\ UNCHANGED <<now, finding, limit, polls, wedged, scan, seen, missed, upsets>>

\* The outcome cannot be written down: logged, and no detector runs.
RecordFails(s, out) ==
    /\ poller[s] = "poll"
    /\ IF NeedsTransaction(s, out) THEN TransactionFails ELSE Upset /\ UNCHANGED wedged
    /\ Goto(s, "tick")
    /\ UNCHANGED <<now, tables, limit, polls, scan, ghosts>>

-----------------------------------------------------------------------------
(* The detectors on the stored row.                                        *)

\* Faulty variant: any snapshot will do.
HasSnapshot(s) == node[s].snap # "none"

\* A node that is connected and has a snapshot.
Usable(s) == node[s].connected /\ node[s].snap # "none"

\* is_complete (complete_state).
IsComplete(s) ==
    CASE s = "btcpay" -> source.kind = "btcpay"
      [] s = "core" -> source = Greenfield(TRUE) /\ Usable("core")
      [] s = "lnd" -> source = Greenfield(TRUE) /\ Usable("core") /\ Usable("lnd")

\* run: the condition of the one finding each detector knows.
BackendUnreachable == source = Greenfield(FALSE)
CoreBehind == IsComplete("core") /\ node["core"].snap = "behind"
LightningBehind ==
    IsComplete("lnd") /\ node["core"].snap = "synced" /\ node["lnd"].snap = "behind"

Detects(s) ==
    \/ s = "btcpay" /\ BackendUnreachable
    \/ s = "core" /\ CoreBehind
    \/ s = "lnd" /\ LightningBehind

Later(a, b) == IF a <= b THEN b ELSE a

\* observed_at: the latest attempt of any source the detector looks at.
ObservedAt(s) ==
    LET btcpay == IF attemptAt # 0 THEN attemptAt ELSE successAt
        core   == Later(btcpay, node["core"].attemptAt)
    IN  CASE s = "btcpay" -> btcpay
          [] s = "core" -> core
          [] s = "lnd" -> Later(core, node["lnd"].attemptAt)

\* evaluate_persisted_*: read the row, evaluate, and commit the cycle by
\* persist_operational_detector_cycle, all under one hold of the mutex.
Evaluate(s) ==
    /\ poller[s] = "evaluate" /\ ~wedged
    /\ LET complete == IF IsComplete(s) THEN {s} ELSE {}
           resolved == Life!ResolveFindingsForScopes(finding, complete)
           at       == ObservedAt(s)
       IN  /\ finding' = IF Detects(s)
                         THEN [resolved EXCEPT ![s] = Life!SaveFinding(@, at)] ELSE resolved
           /\ seen' = IF Detects(s) THEN [seen EXCEPT ![s] = @ \cup {at}] ELSE seen
           /\ missed' = IF Detects(s) /\ Life!Current(s, at) THEN [missed EXCEPT ![s] = 0]
                        ELSE IF IsComplete(s)
                        THEN [missed EXCEPT ![s] = Life!Earlier(@ + 1, 3)] ELSE missed
    /\ cycle' = [attempt |-> now, success |-> now]
    /\ Goto(s, "tick")
    /\ UNCHANGED <<now, source, attemptAt, successAt, node, limit, polls, wedged, scan,
                   last, good, upsets>>

\* Faulty variant: the UPDATEs of the resolution are not rolled back.
EvaluateHalf(s) ==
    /\ poller[s] = "evaluate" /\ TransactionFails
    /\ finding' = Life!ResolveFindingsForScopes(finding, IF IsComplete(s) THEN {s} ELSE {})
    /\ Goto(s, "tick")
    /\ UNCHANGED <<now, row, seen, missed, limit, polls, scan, last, good>>

\* The cycle is refused or rolled back.
EvaluateFails(s) ==
    /\ poller[s] = "evaluate" /\ TransactionFails
    /\ Goto(s, "tick")
    /\ UNCHANGED <<now, tables, limit, polls, scan, last, good>>

-----------------------------------------------------------------------------
(* A scan in another process: record_ingestion_*, record_cycle_*.  Every   *)
(* call is one transaction; an error ends the process.                     *)

ScanSource(kind, up) == [kind |-> kind, connected |-> kind = "fixture" \/ up]

ScanAttempt(kind) ==
    /\ scan.pc = "off" /\ Upset
    /\ source' = ScanSource(kind, source = [kind |-> "lnd_rest", connected |-> TRUE])
    /\ attemptAt' = now
    /\ scan' = [pc |-> "build", kind |-> kind]
    /\ UNCHANGED <<now, successAt, node, cycle, finding, agent, ghosts, seen, missed>>

ScanIngests ==
    /\ scan.pc = "build"
    /\ source' = ScanSource(scan.kind, TRUE)
    /\ successAt' = now
    /\ scan' = [scan EXCEPT !.pc = "loaded"]
    /\ UNCHANGED <<now, attemptAt, node, cycle, finding, agent, ghosts, seen, missed,
                   upsets>>

ScanIngestFails ==
    /\ scan.pc = "build"
    /\ source' = ScanSource(scan.kind, FALSE)
    /\ scan' = NoScan
    /\ UNCHANGED <<now, attemptAt, successAt, node, cycle, finding, agent, ghosts, seen,
                   missed, upsets>>

\* record_cycle_attempt, then the cycle's own transaction.
ScanCycle ==
    /\ \/ /\ scan.pc = "loaded" /\ scan' = [scan EXCEPT !.pc = "cycle"]
          /\ cycle' = [cycle EXCEPT !.attempt = now]
       \/ /\ scan.pc = "cycle" /\ scan' = NoScan
          /\ cycle' = [cycle EXCEPT !.success = now]
    /\ UNCHANGED <<now, source, attemptAt, successAt, node, finding, agent, last, good, seen,
                   missed, upsets>>

ScanDies ==
    /\ scan.pc # "off"
    /\ scan' = NoScan
    /\ UNCHANGED <<now, tables, agent, ghosts, upsets>>

-----------------------------------------------------------------------------
\* The agent dies and is started again: the row and the findings survive.
Restart ==
    /\ Upset
    /\ poller' = [s \in Sources |-> "tick"] /\ polls' = [s \in Sources |-> 0]
    /\ wedged' = FALSE
    /\ UNCHANGED <<now, tables, limit, scan, ghosts>>

Tick ==
    /\ now < MaxTime /\ now' = now + 1
    /\ UNCHANGED <<tables, agent, scan, ghosts, upsets>>

Init ==
    /\ now = 1
    /\ source = [kind |-> "fixture", connected |-> TRUE]
    /\ attemptAt = 0 /\ successAt = 0
    /\ node = [s \in Chain |-> [connected |-> FALSE, attemptAt |-> 0, snap |-> "none"]]
    /\ cycle = [attempt |-> 0, success |-> 0]
    /\ finding = [s \in Sources |-> Life!NoRow]
    /\ poller = [s \in Sources |-> "tick"] /\ polls = [s \in Sources |-> 0]
    /\ limit \in Limits /\ wedged = FALSE
    /\ scan = NoScan
    /\ last = [s \in Sources |-> "none"] /\ good = 3
    /\ seen = [s \in Sources |-> {}] /\ missed = [s \in Sources |-> 0]
    /\ upsets = 0

Next ==
    \/ \E s \in Sources :
          \/ Attempt(s)
          \/ \E out \in Outcomes(s) : Record(s, out) \/ RecordFails(s, out)
          \/ Evaluate(s) \/ EvaluateFails(s)
    \/ \E kind \in {"fixture", "lnd_rest"} : ScanAttempt(kind)
    \/ ScanIngests \/ ScanIngestFails \/ ScanCycle \/ ScanDies
    \/ Restart \/ Tick

Spec == Init /\ [][Next]_vars

-----------------------------------------------------------------------------
(* Properties.                                                             *)

\* No writer of the shared row disturbs another's source: a node counts as
\* connected exactly while its last recorded outcome was a success, and
\* Greenfield never without one, whatever scans overwrite in between.
NoFalseConnection ==
    /\ \A s \in Chain : node[s].connected <=> last[s] = "ok"
    /\ source = Greenfield(TRUE) => last["btcpay"] = "ok"

Observes(s) == Detects(s) /\ poller[s] = "evaluate" /\ finding'[s] # finding[s]

\* A correlation is raised or refreshed only while the last recorded outcome
\* of every source it blames or clears was a success: the snapshot a failed
\* poll leaves behind is never correlated.
CorrelationIsJustified ==
    [][ /\ Observes("core") => last["btcpay"] = "ok" /\ last["core"] = "ok"
        /\ Observes("lnd") => \A s \in Sources : last[s] = "ok" ]_vars

\* An operational finding is never stamped older than it already is, although
\* its time mixes the clocks of several sources: no observation of these
\* detectors is taken for a replay.
ObservationsAreCurrent ==
    \A s \in Sources : \A t \in seen[s] : t <= ObservedAt(s)

\* The shared row tells of every source what was last recorded of it, and its
\* times never take a finding back behind what was already observed.
RowIsTrue == NoFalseConnection /\ ObservationsAreCurrent

\* With no lost writes, restarts or scans, BTCPay's outage is open exactly
\* from the first failed poll to the third good one in a row.
OutageIsTracked ==
    upsets = 0 /\ poller["btcpay"] # "evaluate"
        => (finding["btcpay"].lifecycle = "active" <=> good < 3)

\* The operational detectors' cycles are cycles of the finding lifecycle.
LifecycleSpec == Life!Spec
=============================================================================
