--------------------------- MODULE ActionApproval ---------------------------
(***************************************************************************)
(* The approval workflow of recommended actions: the pipelines create      *)
(* actions as Recommended (crates/rieko-cli/src/commands/common.rs), and   *)
(* operators run `rieko actions approve' and `rieko actions reject'        *)
(* (crates/rieko-cli/src/commands/actions.rs), each in a process of its    *)
(* own that opens the database without the writer lock.  run_transition    *)
(* reads the action and checks the transition first, and only then begins  *)
(* the transaction that writes the new stage with its audit row.           *)
(*                                                                         *)
(* Data abstraction.  An action is its deterministic id.  The audit row    *)
(* keeps the stages and whether its actor is `system'.  The stages         *)
(* Simulated, Executed and Failed are written by no command (execution is  *)
(* interlocked), but the transition relation covers them.                  *)
(***************************************************************************)
EXTENDS Naturals, Sequences

CONSTANTS
    Actions,      \* action identities
    Operators,    \* CLI processes that can run at the same time
    MaxCommands   \* bound: approve and reject commands that are started

ASSUME ApprovalAssumption == MaxCommands \in Nat

VARIABLES
    stage,      \* recommendations.stage per action, "none" without a row
    trail,      \* audit rows per action, oldest first
    cli,        \* the CLI processes: program counter and what they have read
    commands,   \* commands started
    \* observation
    contended   \* actions that two commands have held at the same time

approvalVars == <<stage, trail, cli, commands, contended>>

Stages == {"Recommended", "Simulated", "Approved", "Rejected", "Executed", "Failed"}
Actors == {"system", "human"}
NoAction == "no action"
Idle == [pc |-> "idle", id |-> NoAction, from |-> "none", to |-> "none", actor |-> "system"]

ApprovalTypeOK ==
    /\ stage \in [Actions -> Stages \cup {"none"}]
    /\ trail \in [Actions -> Seq([from : Stages \cup {"none"}, to : Stages, actor : Actors])]
    /\ cli \in [Operators -> [pc : {"idle", "write"}, id : Actions \cup {NoAction},
                              from : Stages \cup {"none"}, to : Stages \cup {"none"},
                              actor : Actors]]
    /\ commands \in 0..MaxCommands
    /\ contended \subseteq Actions

-----------------------------------------------------------------------------
\* Faulty variant: a rejection can be taken back.
ReopensRejected(from, to) ==
    <<from, to>> \in {<<"Recommended", "Approved">>, <<"Recommended", "Rejected">>,
                      <<"Approved", "Rejected">>, <<"Rejected", "Approved">>}

CanTransition(from, to) ==
    <<from, to>> \in
        {<<"Recommended", "Simulated">>, <<"Recommended", "Approved">>,
         <<"Simulated", "Approved">>, <<"Approved", "Executed">>,
         <<"Recommended", "Rejected">>, <<"Simulated", "Rejected">>,
         <<"Approved", "Rejected">>, <<"Approved", "Failed">>}

\* rieko_execution::transition and the guard at the top of run_transition.
TransitionAllowed(from, to, actor) ==
    /\ CanTransition(from, to)
    /\ to = "Approved" => actor # "system"

\* append_audit of AuditEntry::from_action or from_transition.
Audited(a, from, to, actor) ==
    trail' = [trail EXCEPT ![a] = Append(@, [from |-> from, to |-> to, actor |-> actor])]

\* Faulty variant: save_recommendation, an INSERT OR REPLACE, for every cycle.
RecommendAgain(a) ==
    /\ stage' = [stage EXCEPT ![a] = "Recommended"]
    /\ Audited(a, "none", "Recommended", "system")
    /\ UNCHANGED <<cli, commands, contended>>

\* persist_cycle_locked for one recommendation: is_new is read inside the
\* cycle's own BEGIN IMMEDIATE transaction.
Recommend(a) ==
    /\ stage[a] = "none"
    /\ stage' = [stage EXCEPT ![a] = "Recommended"]
    /\ Audited(a, "none", "Recommended", "system")
    /\ UNCHANGED <<cli, commands, contended>>

\* The command has read action a and not yet ended.
Holds(c, a) == cli[c].pc = "write" /\ cli[c].id = a

\* run_transition up to begin_transaction: read the action, check the
\* transition.  An unknown action or an illegal transition ends the command.
ReadAndCheck(c, a, to, actor) ==
    /\ cli[c].pc = "idle"
    /\ commands < MaxCommands /\ commands' = commands + 1
    /\ IF stage[a] # "none" /\ TransitionAllowed(stage[a], to, actor)
       THEN /\ cli' = [cli EXCEPT ![c] = [pc |-> "write", id |-> a, from |-> stage[a],
                                          to |-> to, actor |-> actor]]
            /\ contended' = IF \E d \in Operators : Holds(d, a)
                            THEN contended \cup {a} ELSE contended
       ELSE UNCHANGED <<cli, contended>>
    /\ UNCHANGED <<stage, trail>>

\* Faulty variant: the audit row is written by a later transaction, if ever.
WriteWithoutAudit(c) ==
    /\ cli[c].pc = "write"
    /\ stage' = [stage EXCEPT ![cli[c].id] = cli[c].to]
    /\ cli' = [cli EXCEPT ![c] = Idle]
    /\ UNCHANGED <<trail, commands, contended>>

\* The transaction: set_action_stage and append_audit commit together.
WriteTransition(c) ==
    /\ cli[c].pc = "write"
    /\ stage' = [stage EXCEPT ![cli[c].id] = cli[c].to]
    /\ Audited(cli[c].id, cli[c].from, cli[c].to, cli[c].actor)
    /\ cli' = [cli EXCEPT ![c] = Idle]
    /\ UNCHANGED <<commands, contended>>

\* BEGIN IMMEDIATE stays busy, a statement or COMMIT fails, or the process is
\* killed: nothing is written.
CommandFails(c) ==
    /\ cli[c].pc = "write"
    /\ cli' = [cli EXCEPT ![c] = Idle]
    /\ UNCHANGED <<stage, trail, commands, contended>>

ApprovalInit ==
    /\ stage = [a \in Actions |-> "none"]
    /\ trail = [a \in Actions |-> <<>>]
    /\ cli = [c \in Operators |-> Idle]
    /\ commands = 0 /\ contended = {}

ApprovalNext ==
    \/ \E a \in Actions : Recommend(a)
    \/ \E c \in Operators :
          \/ \E a \in Actions, to \in {"Approved", "Rejected"}, actor \in Actors :
                ReadAndCheck(c, a, to, actor)
          \/ WriteTransition(c)
          \/ CommandFails(c)

ApprovalSpec == ApprovalInit /\ [][ApprovalNext]_approvalVars

-----------------------------------------------------------------------------
(* Properties.                                                             *)

Last(a) == trail[a][Len(trail[a])]

\* The stage of an action and the last row of its audit trail always agree,
\* for any number of concurrent operators: no stage change goes unrecorded
\* and no row records a change that did not happen (RIEKO-AUDIT-007).
StageIsAudited ==
    \A a \in Actions :
        IF trail[a] = <<>> THEN stage[a] = "none" ELSE stage[a] = Last(a).to

\* However commands interleave, an action is approved only by a human (D7).
ApprovedByHuman ==
    \A a \in Actions : stage[a] = "Approved" => Last(a).actor = "human"

\* Every stage is explained by the trail, and an approval by a human.
DecisionsAreAudited == StageIsAudited /\ ApprovedByHuman

\* Cycles that see the finding again never undo a decision of an operator.
DecisionSurvivesCycles ==
    [][\A a \in Actions : stage[a] # "none" => stage'[a] # "Recommended" \/ stage'[a] = stage[a]]_approvalVars

\* The audit trail of an action "records the state transition that actually
\* happened" (crates/rieko-findings/src/action.rs): it starts with the
\* creation, each row leaves from where the previous one led, and none leaves
\* a rejected action.  Holds for every action that no two commands have held
\* at once, whatever other operators do to other actions.
LegalHistory ==
    \A a \in Actions \ contended : \A i \in 1..Len(trail[a]) :
        IF i = 1 THEN trail[a][i].from = "none" /\ trail[a][i].to = "Recommended"
        ELSE /\ trail[a][i].from = trail[a][i - 1].to
             /\ trail[a][i].from \notin {"none", "Rejected"}
             /\ trail[a][i].to \in {"Approved", "Rejected"}

\* `rieko actions reject' (crates/rieko-cli/src/commands/actions.rs:65):
\* "Reject an action so it is never executed", so a rejection is final.
RejectionIsFinal ==
    [][\A a \in Actions : stage[a] = "Rejected" => stage'[a] = "Rejected"]_approvalVars

(* The inductive strengthening.                                            *)

\* A command that passed its checks holds a transition that is legal from the
\* stage it has read.
ChecksPassed ==
    \A c \in Operators : cli[c].pc = "write" =>
        /\ cli[c].id \in Actions
        /\ cli[c].to \in {"Approved", "Rejected"}
        /\ TransitionAllowed(cli[c].from, cli[c].to, cli[c].actor)
        /\ stage[cli[c].id] # "none"

\* Unless another command has held the same action meanwhile, the stage a
\* command has read is still the stage stored.
ReadIsCurrent ==
    \A a \in Actions \ contended : \A c \in Operators : Holds(c, a) =>
        /\ cli[c].from = stage[a]
        /\ \A d \in Operators \ {c} : ~Holds(d, a)

ApprovalInv == ChecksPassed /\ StageIsAudited /\ ApprovedByHuman
=============================================================================
