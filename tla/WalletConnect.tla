---------------------------- MODULE WalletConnect ----------------------------
(***************************************************************************)
(* components/providers.tsx and wallet-button.tsx: connecting a browser    *)
(* wallet.  The page, the wallet's own prompt and the connection library   *)
(* finish in any order; a prompt may be answered long after the page gave  *)
(* up on it, the account may come, go, move to another address or be       *)
(* reconnecting by itself, and the wallets are known only once their       *)
(* discovery has settled, perhaps with the dialog open already.            *)
(***************************************************************************)
EXTENDS Integers, FiniteSets

CONSTANTS
    Announced,      \* wallets that announce themselves (EIP-6963)
    Legacy,         \* injected providers (window.ethereum), used when none announced
    Addresses,      \* addresses a wallet may expose
    MaxAttempts     \* bound

ASSUME ConnectAssumption == Announced \cap Legacy = {}

VARIABLES
    connectPhase,   \* nextConnectPhase's state
    attempt,        \* connectAttemptRef
    prompts,        \* attempts whose connectAsync has not settled
    approved,       \* history: attempts the wallet approved
    timers,         \* attempts whose 45 s timeout is set
    account,        \* the library's account
    rendered,       \* the account of the last render (accountRef)
    seenAccount,    \* the account the last effect ran with
    discovered,     \* wallets announced while the discovery lasts
    connectors,     \* the library's connectors, once it has settled
    settled,        \* whether it has
    chooser,        \* the dialog: open, the wallets it lists, its scans
    scans           \* scanWallets calls in flight

attemptVars == <<connectPhase, attempt, prompts, approved, timers>>
accountVars == <<account, rendered, seenAccount>>
discoveryVars == <<discovered, connectors, settled>>
chooserVars == <<chooser, scans>>
connectVars == <<attemptVars, accountVars, discoveryVars, chooserVars>>

connectPhaseLocked(p) == p \in {"requesting", "syncing"}

nextConnectPhase(p, event) ==
    CASE event = "accountConfirmed" -> "idle"
      [] event = "requestFailed" -> "error"
      [] event = "request" /\ ~connectPhaseLocked(p) -> "requesting"
      [] event = "requestResolved" /\ p = "requesting" -> "syncing"
      [] event = "retry" /\ p = "error" -> "idle"
      [] OTHER -> p

\* useAccount: an address may be there while the library is still reconnecting it.
NoAddress == "no address"
Account == [address : Addresses \cup {NoAddress}, reconnecting : BOOLEAN]
isConnected(a) == a.address # NoAddress
connected(a) == isConnected(a) /\ ~a.reconnecting

Closed == [open |-> FALSE, listed |-> {}, by |-> 0, scanNumber |-> 0, left |-> {}]

ConnectInit ==
    /\ connectPhase = "idle" /\ attempt = 0
    /\ prompts = {} /\ approved = {} /\ timers = {}
    /\ account = [address |-> NoAddress, reconnecting |-> FALSE]
    /\ rendered = account /\ seenAccount = account
    /\ discovered = {} /\ connectors = {} /\ settled = FALSE
    /\ chooser = Closed /\ scans = {}

-----------------------------------------------------------------------------
(* The chooser. Opening it starts a first scan; a delayed one and the        *)
(* "ethereum#initialized" event start others that may fall back to Legacy.   *)
startScans ==
    /\ chooser' = [Closed EXCEPT !.open = TRUE, !.scanNumber = 1, !.left = {"delayed", "initialized"}]
    /\ scans' = {[number |-> 1, fallback |-> FALSE]}

openWalletChooser ==
    /\ ~isConnected(rendered) /\ ~rendered.reconnecting
    /\ ~connectPhaseLocked(connectPhase) /\ ~chooser.open
    /\ connectPhase' = nextConnectPhase(connectPhase, "retry")
    /\ startScans
    /\ UNCHANGED <<attempt, prompts, approved, timers, accountVars, discoveryVars>>

announce(w) ==
    /\ ~settled
    /\ discovered' = discovered \cup {w}
    /\ UNCHANGED <<connectors, settled, attemptVars, accountVars, chooserVars>>

\* New connectors run the dialog's effect again: its scans are cancelled, its list emptied.
finishDiscovery(ethereum) ==
    /\ ~settled /\ settled' = TRUE
    /\ connectors' = IF discovered # {} THEN discovered ELSE ethereum
    /\ IF chooser.open THEN startScans ELSE UNCHANGED chooserVars
    /\ UNCHANGED <<discovered, attemptVars, accountVars>>

scanWallets(trigger) ==
    /\ chooser.open /\ trigger \in chooser.left
    /\ chooser' = [chooser EXCEPT !.scanNumber = @ + 1, !.left = @ \ {trigger}]
    /\ scans' = scans \cup {[number |-> chooser.scanNumber + 1, fallback |-> TRUE]}
    /\ UNCHANGED <<attemptVars, accountVars, discoveryVars>>

selectInstalledWallets(candidates, fallback) ==
    IF candidates \cap Announced # {} THEN candidates \cap Announced
    ELSE IF fallback THEN candidates \cap Legacy ELSE {}

\* The providers have answered, or failed to; a scan that was overtaken is dropped.
current(scan) == scan.number = chooser.scanNumber
ScanDone(scan, answered) ==
    /\ chooser.open /\ scan \in scans
    /\ scans' = scans \ {scan}
    /\ chooser' = IF current(scan)
                  THEN [chooser EXCEPT !.listed = selectInstalledWallets(answered, scan.fallback), !.by = scan.number]
                  ELSE chooser
    /\ UNCHANGED <<attemptVars, accountVars, discoveryVars>>

closeChooser == chooser' = Closed /\ scans' = {}

Escape ==
    /\ chooser.open /\ ~connectPhaseLocked(connectPhase)
    /\ closeChooser
    /\ UNCHANGED <<attemptVars, accountVars, discoveryVars>>

-----------------------------------------------------------------------------
(* A click on a wallet: the lock, the attempt and the timer are set before   *)
(* anything is awaited.                                                      *)
connectWallet ==
    /\ chooser.open /\ chooser.listed # {} /\ ~isConnected(rendered) /\ attempt < MaxAttempts
    /\ ~connectPhaseLocked(connectPhase)
    /\ attempt' = attempt + 1
    /\ connectPhase' = nextConnectPhase(connectPhase, "request")
    /\ prompts' = prompts \cup {attempt + 1}
    /\ timers' = timers \cup {attempt + 1}
    /\ closeChooser
    /\ UNCHANGED <<approved, accountVars, discoveryVars>>

finishConnectAttempt(event) ==
    /\ attempt' = attempt + 1
    /\ timers' = timers \ {attempt}
    /\ connectPhase' = nextConnectPhase(connectPhase, event)

\* connectAsync resolves; the answer to an attempt that is over is dropped.
Bug_currentAttempt(a) == TRUE    \* bug: an old attempt's answer counts
currentAttempt(a) == a = attempt
Approve(a, address) ==
    /\ a \in prompts
    /\ prompts' = prompts \ {a} /\ approved' = approved \cup {a}
    /\ account' = [address |-> address, reconnecting |-> FALSE]
    /\ connectPhase' = IF currentAttempt(a) THEN nextConnectPhase(connectPhase, "requestResolved") ELSE connectPhase
    /\ UNCHANGED <<attempt, timers, rendered, seenAccount, discoveryVars, chooserVars>>

Reject(a) ==
    /\ a \in prompts
    /\ prompts' = prompts \ {a}
    /\ IF currentAttempt(a) THEN finishConnectAttempt("requestFailed") ELSE UNCHANGED <<attempt, timers, connectPhase>>
    /\ UNCHANGED <<approved, accountVars, discoveryVars, chooserVars>>

\* After 45 s: the lock stays unless the account is already there.
Timeout(a) ==
    /\ a \in timers
    /\ IF currentAttempt(a) /\ isConnected(rendered)
       THEN finishConnectAttempt("accountConfirmed")
       ELSE /\ timers' = timers \ {a}
            /\ UNCHANGED <<attempt, connectPhase>>
    /\ UNCHANGED <<prompts, approved, accountVars, discoveryVars, chooserVars>>

(* The account as the library sees it: another tab, a reconnection, the      *)
(* wallet's own switch of address. The page renders it at some later moment, *)
(* the last render's effect run by then.                                     *)
AccountChanges(other) ==
    /\ account # other /\ account' = other
    /\ UNCHANGED <<attemptVars, rendered, seenAccount, discoveryVars, chooserVars>>

Render ==
    /\ rendered # account /\ seenAccount = rendered
    /\ rendered' = account
    /\ UNCHANGED <<attemptVars, account, seenAccount, discoveryVars, chooserVars>>

AccountEffect ==
    /\ rendered # seenAccount /\ attempt < MaxAttempts
    /\ seenAccount' = rendered
    /\ IF connected(rendered)
       THEN finishConnectAttempt("accountConfirmed") /\ closeChooser
       ELSE UNCHANGED <<attempt, timers, connectPhase, chooserVars>>
    /\ UNCHANGED <<prompts, approved, account, rendered, discoveryVars>>

ConnectNext ==
    \/ openWalletChooser \/ Escape \/ connectWallet \/ Render \/ AccountEffect
    \/ \E w \in Announced : announce(w)
    \/ \E ethereum \in {{}} \cup {{w} : w \in Legacy} : finishDiscovery(ethereum)
    \/ \E trigger \in {"delayed", "initialized"} : scanWallets(trigger)
    \/ \E scan \in scans, answered \in SUBSET connectors : ScanDone(scan, answered)
    \/ \E a \in prompts : Reject(a) \/ \E address \in Addresses : Approve(a, address)
    \/ \E a \in timers : Timeout(a)
    \/ \E other \in Account : AccountChanges(other)

ConnectSpec == ConnectInit /\ [][ConnectNext]_connectVars

-----------------------------------------------------------------------------
(* The lock is the wallet's: while it reads "requesting" the prompt of this  *)
(* very attempt is open, and "syncing" means this attempt was approved; and  *)
(* the chooser lists what its newest scan found, never a legacy provider     *)
(* beside an announced wallet.                                               *)
ChooserFollowsTheWallet ==
    /\ connectPhase = "requesting" => attempt \in prompts
    /\ connectPhase = "syncing" => attempt \in approved
    /\ \A a, b \in prompts : a < b /\ b = attempt => connectPhase = "requesting"
    /\ chooser.by = chooser.scanNumber \/ (\E s \in scans : s.number = chooser.scanNumber) \/ ~chooser.open
    /\ chooser.listed \cap Announced = {} \/ chooser.listed \cap Legacy = {}
=============================================================================
