---------------------------- MODULE OwnerScripts ----------------------------
(***************************************************************************)
(* scripts/set-pauses.ts: how the owner moves the three switches of        *)
(* LockInEscrow.sol from the state the script observed to the state asked  *)
(* for.  The contract has one transaction per switch, so the script plans  *)
(* an order and the operator submits it call by call; the plan is made     *)
(* from one block and sent without looking again, a call can fail half     *)
(* way, and another owner transaction can land in between.                 *)
(***************************************************************************)
EXTENDS Sequences, SequencesExt

Switches == {"creation", "joining", "completion"}
Positions == [Switches -> BOOLEAN]      \* TRUE: paused

VARIABLES
    paused,         \* the contract's switches
    gateHolds,      \* what the release gate checks holds of the chain
    script          \* the run of the script

scriptVars == <<paused, gateHolds, script>>

Run(step, desired, calls) ==
    [step |-> step, seen |-> paused, desired |-> desired, calls |-> calls, alone |-> TRUE]

\* The contract is deployed closed, and nothing is asked yet.
ScriptInit ==
    /\ paused = [x \in Switches |-> TRUE]
    /\ gateHolds \in BOOLEAN
    /\ script = Run("none", paused, <<>>)

closeOrder == <<"creation", "joining", "completion">>
Bug_openOrder == <<"creation", "joining", "completion">>   \* bug: opened as they are closed
openOrder == <<"completion", "joining", "creation">>

\* The calls that lead from `current` to `desired`: every closure, then every
\* opening, each in its order, switches already in place left out.
operations(current, desired) ==
    LET close(x) == IF ~current[x] /\ desired[x] THEN <<x>> ELSE <<>>
        open(x) == IF current[x] /\ ~desired[x] THEN <<x>> ELSE <<>>
    IN close(closeOrder[1]) \o close(closeOrder[2]) \o close(closeOrder[3])
           \o open(openOrder[1]) \o open(openOrder[2]) \o open(openOrder[3])

openingRequested(current, desired) == \E x \in Switches : current[x] /\ ~desired[x]
releaseGate(current, desired) == openingRequested(current, desired) => gateHolds

-----------------------------------------------------------------------------
(* The dry run and the start of --execute: switches and gate are read at one *)
(* block, and the plan is fixed.                                             *)
Plan(desired) ==
    /\ script.step \in {"none", "done", "failed"}
    /\ releaseGate(paused, desired)
    /\ script' = Run("sending", desired, operations(paused, desired))
    /\ UNCHANGED <<paused, gateHolds>>

(* The release gate, or an expectation about the owner, refuses the run.    *)
Refuse(desired) ==
    /\ script.step \in {"none", "done", "failed"}
    /\ ~releaseGate(paused, desired)
    /\ script' = Run("failed", desired, <<>>)
    /\ UNCHANGED <<paused, gateHolds>>

(* One planned transaction is mined; the receipt is awaited before the next. *)
Send ==
    /\ script.step = "sending" /\ script.calls # <<>>
    /\ paused' = [paused EXCEPT ![Head(script.calls)] = script.desired[Head(script.calls)]]
    /\ script' = [script EXCEPT !.calls = Tail(@)]
    /\ UNCHANGED gateHolds

(* A multisig may batch what is left of the bundle atomically.              *)
Batch ==
    /\ script.step = "sending" /\ Len(script.calls) > 1
    /\ paused' = [x \in Switches |->
                    IF x \in ToSet(script.calls) THEN script.desired[x] ELSE paused[x]]
    /\ script' = [script EXCEPT !.calls = <<>>]
    /\ UNCHANGED gateHolds

(* A transaction is not sent, or reverts: the calls left are not made.      *)
Interrupt ==
    /\ script.step = "sending" /\ script.calls # <<>>
    /\ script' = [script EXCEPT !.step = "failed", !.calls = <<>>]
    /\ UNCHANGED <<paused, gateHolds>>

(* The re-read after the last receipt, or --verify after a multisig's       *)
(* transactions, which asks for the release gate if anything is to be open. *)
Check ==
    /\ script.step = "sending" /\ script.calls = <<>>
    /\ script' = [script EXCEPT !.step = IF paused = script.desired THEN "done" ELSE "failed"]
    /\ UNCHANGED <<paused, gateHolds>>

Verify ==
    /\ script.step = "sending" /\ script.calls = <<>>
    /\ script' = [script EXCEPT !.step =
          IF paused = script.desired /\ ((\E x \in Switches : ~script.desired[x]) => gateHolds)
          THEN "done" ELSE "failed"]
    /\ UNCHANGED <<paused, gateHolds>>

(* Another owner transaction: an incident pause, a signer rotation.         *)
OtherSetter(x) ==
    /\ paused' = [paused EXCEPT ![x] = ~@]
    /\ script' = [script EXCEPT !.alone = FALSE]
    /\ UNCHANGED gateHolds

Rotate ==
    /\ gateHolds' = ~gateHolds
    /\ UNCHANGED <<paused, script>>

ScriptNext ==
    \/ \E desired \in Positions : Plan(desired) \/ Refuse(desired)
    \/ Send \/ Batch \/ Interrupt \/ Check \/ Verify
    \/ \E x \in Switches : OtherSetter(x)
    \/ Rotate

ScriptSpec == ScriptInit /\ [][ScriptNext]_scriptVars

-----------------------------------------------------------------------------
\* Stakes can come in while no completion can be recorded.
exposed(position) == position["completion"] /\ ~(position["creation"] /\ position["joining"])

(* "Stop new exposure before proof paths.  Open proof paths before accepting *)
(* new exposure": a plan no other transaction cuts across never leaves       *)
(* players able to stake and unable to check in, wherever it is interrupted, *)
(* unless the switches stood so before it or were asked to stand so.         *)
ProofPathBeforeExposure ==
    script.alone /\ exposed(paused) => exposed(script.seen) \/ exposed(script.desired)
=============================================================================
