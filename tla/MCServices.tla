----------------------------- MODULE MCServices -----------------------------
(***************************************************************************)
(* The smaller parts that share no state with each other, checked in one   *)
(* run: `focus` picks the part that moves, the others stay as they began.  *)
(***************************************************************************)
EXTENDS PauseSearch, OwnerScripts, RateLimiter, Preview, WalletSessions,
        WalletConnect, LockPage, SocialBoard, ReleaseHealth, TLC

VARIABLE focus

partVars == <<vars, scriptVars, limiterVars, previewVars, sessionVars, connectVars, pageVars, boardVars, healthVars>>

MCInit ==
    /\ Init /\ ScriptInit /\ LimiterInit /\ PreviewInit /\ SessionsInit
    /\ ConnectInit /\ PageInit /\ BoardInit /\ HealthInit
    /\ focus \in {"pauses", "script", "limiter", "preview", "sessions", "connect", "page", "board", "health"}
    /\ focus # "script" => gateHolds
    /\ focus # "page" => page = "pact"
    /\ focus # "preview" => run = NoRun
    /\ focus # "board" => deploymentBlock["duolingo"] = 1
    /\ IF focus = "health" THEN flags # {} ELSE flags = {} /\ open = {}

MCNext ==
    /\ UNCHANGED focus
    /\ \/ /\ focus = "pauses" /\ Next
          /\ UNCHANGED <<scriptVars, limiterVars, previewVars, sessionVars, connectVars, pageVars, boardVars, healthVars>>
       \/ /\ focus = "script" /\ ScriptNext
          /\ UNCHANGED <<vars, limiterVars, previewVars, sessionVars, connectVars, pageVars, boardVars, healthVars>>
       \/ /\ focus = "limiter" /\ LimiterNext
          /\ UNCHANGED <<vars, scriptVars, previewVars, sessionVars, connectVars, pageVars, boardVars, healthVars>>
       \/ /\ focus = "preview" /\ PreviewNext
          /\ UNCHANGED <<vars, scriptVars, limiterVars, sessionVars, connectVars, pageVars, boardVars, healthVars>>
       \/ /\ focus = "sessions" /\ SessionsNext
          /\ UNCHANGED <<vars, scriptVars, limiterVars, previewVars, connectVars, pageVars, boardVars, healthVars>>
       \/ /\ focus = "connect" /\ ConnectNext
          /\ UNCHANGED <<vars, scriptVars, limiterVars, previewVars, sessionVars, pageVars, boardVars, healthVars>>
       \/ /\ focus = "page" /\ PageNext
          /\ UNCHANGED <<vars, scriptVars, limiterVars, previewVars, sessionVars, connectVars, boardVars, healthVars>>
       \/ /\ focus = "board" /\ BoardNext
          /\ UNCHANGED <<vars, scriptVars, limiterVars, previewVars, sessionVars, connectVars, pageVars, healthVars>>
       \/ /\ focus = "health" /\ HealthNext
          /\ UNCHANGED <<vars, scriptVars, limiterVars, previewVars, sessionVars, connectVars, pageVars, boardVars>>

\* The two sets also name the wallets and the tabs of the sessions, the polls of a page, and the
\* addresses and the announced wallets of the wallet button.
symmetry == Permutations(Calls) \cup Permutations(Profiles)

MCSpec == MCInit /\ [][MCNext]_<<focus, partVars>>
=============================================================================
