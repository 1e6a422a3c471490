------------------------------ MODULE LockPage ------------------------------
(***************************************************************************)
(* Sending transactions from a Lock's page, in one tab that may be         *)
(* reloaded at any moment: `send`, the flows that call it and the recovery *)
(* effect of components/pact-dashboard.tsx, and writeWithGas and its       *)
(* recovery effect in components/duolingo/escrow-shared.ts with the flows  *)
(* of duolingo-lock.tsx.  The record of a transaction in local storage is  *)
(* all a reloaded page knows; a prompt the reload left open is the         *)
(* wallet's own business.                                                  *)
(***************************************************************************)
EXTENDS Integers, FiniteSets

CONSTANT MaxTransactions    \* bound

Flows == {"proof", "other"}     \* join, check-in or prove; settle, claim, cancel, high five
Txs == 1..MaxTransactions

VARIABLES
    page,           \* "pact" or "duolingo"
    flows,          \* each flow's step in send, the sends it has left and its transaction
    busyRef,        \* pact-dashboard.tsx's lock of send
    proofBusy,      \* proofBusyRef, and duolingo-lock.tsx's busy
    record,         \* the pending record in local storage, 0 for none
    recovering,     \* the transaction the recovery effect waits for, 0 for none
    leftovers,      \* wallet prompts a reload left open
    sent, mined,    \* transactions broadcast and mined
    tracked,        \* history: those the page saw the hash of
    forgot          \* history: the Duolingo recovery dropped a record without a receipt

pageVars == <<page, flows, busyRef, proofBusy, record, recovering, leftovers, sent, mined, tracked, forgot>>
chain == <<sent, mined, tracked>>

IdleFlow == [step |-> "idle", left |-> 0, tx |-> 0]

PageInit ==
    /\ page \in {"pact", "duolingo"}
    /\ flows = [f \in Flows |-> IdleFlow]
    /\ busyRef = FALSE /\ proofBusy = FALSE
    /\ record = 0 /\ recovering = 0 /\ leftovers = 0
    /\ sent = {} /\ mined = {} /\ tracked = {} /\ forgot = FALSE

\* A flow that returns or throws: its locks are released.
EndFlow(f, wasBusy) ==
    /\ flows' = [flows EXCEPT ![f] = IdleFlow]
    /\ busyRef' = (busyRef /\ ~wasBusy)
    /\ proofBusy' = (proofBusy /\ f # "proof" /\ page = "pact")

-----------------------------------------------------------------------------
(* A button. Joining may need an approval first; the Duolingo page runs one  *)
(* flow at a time, the other page lets settle, claim and high five start     *)
(* while a proof is under way and leaves it to `send` to refuse them.        *)
Click(f, sends) ==
    /\ flows[f].step = "idle" /\ (sends = 2 => f = "proof")
    /\ f = "proof" \/ page = "duolingo" => ~proofBusy
    /\ flows' = [flows EXCEPT ![f] = [step |-> "ready", left |-> sends, tx |-> 0]]
    /\ proofBusy' = (proofBusy \/ f = "proof" \/ page = "duolingo")
    /\ UNCHANGED <<page, busyRef, record, recovering, leftovers, forgot, chain>>

Bug_mayStartSend == page = "pact" => ~busyRef   \* bug: the record is not looked at
mayStartSend == (page = "pact" => ~busyRef) /\ record = 0

StartSend(f) ==
    /\ flows[f].step = "ready" /\ mayStartSend
    /\ flows' = [flows EXCEPT ![f].step = "prompt"]
    /\ busyRef' = (page = "pact")
    /\ UNCHANGED <<page, proofBusy, record, recovering, leftovers, forgot, chain>>

(* "A transaction is already pending", or the flow's own server step fails.  *)
RefuseSend(f) ==
    /\ flows[f].step = "ready"
    /\ EndFlow(f, FALSE)
    /\ UNCHANGED <<page, record, recovering, leftovers, forgot, chain>>

(* The gas estimate fails, the balance is short or the prompt is rejected.   *)
FailSend(f) ==
    /\ flows[f].step = "prompt"
    /\ EndFlow(f, TRUE)
    /\ UNCHANGED <<page, record, recovering, leftovers, forgot, chain>>

nextTx == Cardinality(sent) + 1
broadcast == nextTx \in Txs /\ sent' = sent \cup {nextTx}

(* The wallet returns the hash and the record is written in the same step.   *)
WriteContract(f) ==
    /\ flows[f].step = "prompt" /\ broadcast
    /\ record' = nextTx /\ tracked' = tracked \cup {nextTx}
    /\ flows' = [flows EXCEPT ![f].step = "mining", ![f].tx = nextTx]
    /\ UNCHANGED <<page, busyRef, proofBusy, recovering, leftovers, mined, forgot>>

\* A receipt clears the record; a flow with another send goes on to it.
Receipt(f) ==
    /\ flows[f].step = "mining" /\ flows[f].tx \in mined
    /\ record' = 0
    /\ IF flows[f].left > 1
       THEN /\ flows' = [flows EXCEPT ![f] = [step |-> "ready", left |-> @.left - 1, tx |-> 0]]
            /\ busyRef' = FALSE /\ UNCHANGED proofBusy
       ELSE EndFlow(f, TRUE)
    /\ UNCHANGED <<page, recovering, leftovers, forgot, chain>>

\* The receipt cannot be had: the record stays.
ReceiptError(f) ==
    /\ flows[f].step = "mining"
    /\ EndFlow(f, TRUE)
    /\ UNCHANGED <<page, record, recovering, leftovers, forgot, chain>>

-----------------------------------------------------------------------------
(* A reload, and the effect that then looks for a record.                    *)
Reload ==
    /\ leftovers' = leftovers + Cardinality({f \in Flows : flows[f].step = "prompt"})
    /\ leftovers' <= MaxTransactions
    /\ flows' = [f \in Flows |-> IdleFlow]
    /\ proofBusy' = FALSE
    /\ recovering' = record
    /\ busyRef' = (record # 0 /\ page = "pact")
    /\ UNCHANGED <<page, record, forgot, chain>>

Recovered ==
    /\ recovering \in mined
    /\ record' = 0 /\ recovering' = 0 /\ busyRef' = FALSE
    /\ UNCHANGED <<page, flows, proofBusy, leftovers, forgot, chain>>

\* pact-dashboard.tsx keeps the record; escrow-shared.ts drops it.
RecoveryFails ==
    /\ recovering # 0
    /\ recovering' = 0 /\ busyRef' = FALSE
    /\ record' = IF page = "pact" THEN record ELSE 0
    /\ forgot' = (forgot \/ page = "duolingo")
    /\ UNCHANGED <<page, flows, proofBusy, leftovers, chain>>

(* The wallet and the chain.                                                 *)
ApproveLeftover ==
    /\ leftovers > 0 /\ broadcast
    /\ leftovers' = leftovers - 1
    /\ UNCHANGED <<page, flows, busyRef, proofBusy, record, recovering, mined, tracked, forgot>>

Mine(n) ==
    /\ n \in sent \ mined
    /\ mined' = mined \cup {n}
    /\ UNCHANGED <<page, flows, busyRef, proofBusy, record, recovering, leftovers, sent, tracked, forgot>>

PageNext ==
    \/ Reload \/ Recovered \/ RecoveryFails \/ ApproveLeftover
    \/ \E n \in sent : Mine(n)
    \/ \E f \in Flows :
         \/ \E sends \in {1, 2} : Click(f, sends)
         \/ StartSend(f) \/ RefuseSend(f) \/ FailSend(f) \/ WriteContract(f) \/ Receipt(f) \/ ReceiptError(f)

PageSpec == PageInit /\ [][PageNext]_pageVars

-----------------------------------------------------------------------------
(* "A transaction is already pending": of the transactions the page knows    *)
(* of, one at most is not mined, over reloads and lost receipts, until the   *)
(* Duolingo page's recovery forgets one.                                     *)
OneTransactionAtATime ==
    forgot \/ Cardinality(tracked \ mined) <= 1
=============================================================================
