------------------------------- MODULE Preview -------------------------------
(***************************************************************************)
(* The Duolingo preview, the proof engine without a stake, for one wallet: *)
(* app/api/duolingo/session, verify and run, over the two tables of        *)
(* src/duolingo-preview-store.ts.  The wallet may use several tabs, so any *)
(* two of its requests interleave at every await and any of them may die.  *)
(***************************************************************************)
EXTENDS Integers, FiniteSets

CONSTANTS
    Profiles,       \* Duolingo accounts the wallet's owner controls
    Targets,        \* XP targets
    Calls,          \* requests in flight at once
    NoProfile,
    SessionTtl, PruneAfter,     \* PREVIEW_SESSION_TTL_SECONDS and _PRUNE_SECONDS
    MaxSessions, MaxXp, MaxClock        \* bounds

ASSUME PreviewAssumption == Targets \subseteq Nat \ {0} /\ SessionTtl <= PruneAfter

VARIABLES
    clock, totalXp,         \* the database's time; each account's XP
    rows,                   \* duolingo_preview_sessions
    run,                    \* the wallet's row of duolingo_preview_runs
    calls,                  \* what each request in flight has read
    effects,                \* history: writes each session has made to the run
    finalOf                 \* history: the session and the baseline of the final the run was marked passed by

previewVars == <<clock, totalXp, rows, run, calls, effects, finalOf>>
previewDb == <<rows, run, effects, finalOf>>

Sessions == 1..MaxSessions     \* Reclaim session ids, each given out once and in turn
newSession(s) == rows[s].phase = "none" /\ \A q \in 1..s - 1 : rows[q].phase # "none"

NoProof == [xp |-> 0, at |-> 0]
Unopened == [phase |-> "none", profile |-> NoProfile, targetXp |-> 0, createdAt |-> 0,
             consumed |-> FALSE, proof |-> NoProof]
NoRun == [profile |-> NoProfile, targetXp |-> 0, baselineXp |-> 0, observedAt |-> 0,
          finalXp |-> 0, earnedXp |-> 0, passed |-> FALSE]
NoFinal == [session |-> 0, baseline |-> NoRun]
IdleCall == [step |-> "idle", session |-> 0, run |-> NoRun, profile |-> NoProfile]

\* The wallet may have proved a baseline before, in a session long pruned.
earlierRuns == [profile : Profiles, targetXp : Targets, baselineXp : {0}, observedAt : {0},
                finalXp : {0}, earnedXp : {0}, passed : {FALSE}]

PreviewInit ==
    /\ clock = 1 /\ totalXp = [a \in Profiles |-> 0]
    /\ rows = [s \in Sessions |-> Unopened]
    /\ run \in {NoRun} \cup earlierRuns
    /\ calls = [c \in Calls |-> IdleCall]
    /\ effects = [s \in Sessions |-> 0]
    /\ finalOf = NoFinal

-----------------------------------------------------------------------------
(* The world: XP is earned, Reclaim captures both proofs of a session.      *)
Practise(a) ==
    /\ totalXp[a] < MaxXp
    /\ totalXp' = [totalXp EXCEPT ![a] = @ + 1]
    /\ UNCHANGED <<clock, calls, previewDb>>

Capture(s) ==
    /\ rows[s].phase \in {"baseline", "final"} /\ rows[s].proof = NoProof
    /\ rows' = [rows EXCEPT ![s].proof = [xp |-> totalXp[rows[s].profile], at |-> clock]]
    /\ UNCHANGED <<clock, totalXp, run, calls, effects, finalOf>>

PassTime ==
    /\ clock < MaxClock
    /\ clock' = clock + 1
    /\ UNCHANGED <<totalXp, calls, previewDb>>

(* pruneExpiredSessions, which every opening starts and does not wait for.  *)
Prune ==
    /\ \E s \in Sessions : rows[s].phase \notin {"none", "pruned"} /\ rows[s].createdAt < clock - PruneAfter
    /\ rows' = [s \in Sessions |->
                  IF rows[s].phase # "none" /\ rows[s].createdAt < clock - PruneAfter
                  THEN [rows[s] EXCEPT !.phase = "pruned"] ELSE rows[s]]
    /\ UNCHANGED <<clock, totalXp, run, calls, effects, finalOf>>

-----------------------------------------------------------------------------
(* POST session. The target of a baseline is the request's; a final needs a  *)
(* run of the same account, read before the profile is resolved.             *)
savePreviewSession(s, phase, a, target) ==
    rows' = [rows EXCEPT ![s] = [phase |-> phase, profile |-> a, targetXp |-> target,
                                 createdAt |-> clock, consumed |-> FALSE, proof |-> NoProof]]

OpenBaseline(s, a, target) ==
    /\ newSession(s)
    /\ savePreviewSession(s, "baseline", a, target)
    /\ UNCHANGED <<clock, totalXp, run, calls, effects, finalOf>>

OpenFinal(c) ==
    /\ calls[c].step = "idle"
    /\ run # NoRun
    /\ calls' = [calls EXCEPT ![c] = [IdleCall EXCEPT !.step = "opening", !.run = run]]
    /\ UNCHANGED <<clock, totalXp, previewDb>>

SaveFinalSession(c, s) ==
    /\ calls[c].step = "opening" /\ newSession(s)
    /\ savePreviewSession(s, "final", calls[c].run.profile, calls[c].run.targetXp)
    /\ calls' = [calls EXCEPT ![c] = IdleCall]
    /\ UNCHANGED <<clock, totalXp, run, effects, finalOf>>

-----------------------------------------------------------------------------
(* POST verify. Each step is one round trip to the database or to Reclaim.   *)
Bug_usable(s) == TRUE   \* bug: consumed_at is not looked at
usable(s) == ~rows[s].consumed
loadPreviewSession(s) ==
    rows[s].phase \in {"baseline", "final"} /\ usable(s) /\ rows[s].createdAt > clock - SessionTtl

Load(c, s) ==
    /\ calls[c].step = "idle" /\ loadPreviewSession(s)
    /\ calls' = [calls EXCEPT ![c] = [IdleCall EXCEPT !.step = rows[s].phase, !.session = s]]
    /\ UNCHANGED <<clock, totalXp, previewDb>>

\* UPDATE ... SET consumed_at = now() WHERE session_id = .. AND consumed_at IS NULL
consumes(s) == rows[s].phase # "pruned" /\ usable(s)
consume(s) == rows' = IF consumes(s) THEN [rows EXCEPT ![s].consumed = TRUE] ELSE rows
write(s, newRun, final) ==
    /\ run' = newRun /\ finalOf' = final
    /\ effects' = [effects EXCEPT ![s] = @ + 1]

consumeAndSaveBaseline(c) ==
    LET s == calls[c].session
    IN /\ calls[c].step = "baseline" /\ rows[s].proof # NoProof
       /\ consume(s)
       /\ IF consumes(s)
          THEN write(s, [NoRun EXCEPT !.profile = rows[s].profile, !.targetXp = rows[s].targetXp,
                                      !.baselineXp = rows[s].proof.xp, !.observedAt = rows[s].proof.at],
                     NoFinal)
          ELSE UNCHANGED <<run, effects, finalOf>>
       /\ calls' = [calls EXCEPT ![c] = IdleCall]
       /\ UNCHANGED <<clock, totalXp>>

loadPreviewRun(c) ==
    /\ calls[c].step = "final" /\ rows[calls[c].session].proof # NoProof
    /\ run # NoRun
    /\ calls' = [calls EXCEPT ![c].step = "identity", ![c].run = run,
                              ![c].profile = rows[calls[c].session].profile]
    /\ UNCHANGED <<clock, totalXp, previewDb>>

validateDuolingoDelta(baseline, identity, profile, proof) ==
    /\ identity = profile
    /\ proof.at > baseline.observedAt
    /\ proof.xp >= baseline.baselineXp
    /\ proof.xp - baseline.baselineXp >= baseline.targetXp

\* The identity is a second SELECT, so it may be of a later row than the run.
CheckDelta(c) ==
    LET s == calls[c].session
    IN /\ calls[c].step = "identity" /\ run # NoRun
       /\ validateDuolingoDelta(calls[c].run, run.profile, calls[c].profile, rows[s].proof)
       /\ calls' = [calls EXCEPT ![c].step = "record"]
       /\ UNCHANGED <<clock, totalXp, previewDb>>

\* The CTE consumes whether or not there is a run left to update.
consumeAndSaveFinal(c) ==
    LET s == calls[c].session  proof == rows[s].proof
    IN /\ calls[c].step = "record"
       /\ consume(s)
       /\ IF consumes(s) /\ run # NoRun
          THEN write(s, [run EXCEPT !.finalXp = proof.xp, !.passed = TRUE,
                                    !.earnedXp = proof.xp - calls[c].run.baselineXp],
                     [session |-> s, baseline |-> calls[c].run])
          ELSE UNCHANGED <<run, effects, finalOf>>
       /\ calls' = [calls EXCEPT ![c] = IdleCall]
       /\ UNCHANGED <<clock, totalXp>>

(* An error answer, a lost connection, a killed function.                   *)
EndCall(c) ==
    /\ calls[c].step # "idle"
    /\ calls' = [calls EXCEPT ![c] = IdleCall]
    /\ UNCHANGED <<clock, totalXp, previewDb>>

(* DELETE run: starting over.                                               *)
clearPreviewRun ==
    /\ run # NoRun
    /\ run' = NoRun /\ finalOf' = NoFinal
    /\ UNCHANGED <<clock, totalXp, rows, calls, effects>>

PreviewNext ==
    \/ \E a \in Profiles : Practise(a)
    \/ PassTime \/ Prune \/ clearPreviewRun
    \/ \E s \in Sessions : Capture(s) \/ \E a \in Profiles, t \in Targets : OpenBaseline(s, a, t)
    \/ \E c \in Calls :
         \/ \E s \in Sessions : SaveFinalSession(c, s) \/ Load(c, s)
         \/ OpenFinal(c) \/ consumeAndSaveBaseline(c) \/ loadPreviewRun(c)
         \/ CheckDelta(c) \/ consumeAndSaveFinal(c) \/ EndCall(c)

PreviewSpec == PreviewInit /\ [][PreviewNext]_previewVars

-----------------------------------------------------------------------------
(* However requests interleave: a Reclaim session writes once, a consumed    *)
(* baseline session has written its baseline, and a run reads "passed" only  *)
(* if some final proof, later than a baseline of the wallet, earned that     *)
(* baseline's target.                                                        *)
OneSessionOneWrite ==
    /\ \A s \in Sessions : effects[s] <= 1
    /\ \A s \in Sessions : rows[s].phase = "baseline" /\ rows[s].consumed => effects[s] = 1
    /\ run.passed =>
         LET final == rows[finalOf.session]  baseline == finalOf.baseline
         IN /\ run.finalXp = final.proof.xp /\ run.earnedXp = final.proof.xp - baseline.baselineXp
            /\ final.proof.at > baseline.observedAt /\ run.earnedXp >= baseline.targetXp

(* "A delta was measured between two proofs the athlete could not tamper     *)
(* with" and "the target is fixed now, at baseline": a run that reads        *)
(* "passed" earned its own target between its own baseline and its final.    *)
PassedIsThisRunsDelta ==
    run.passed => run.earnedXp = run.finalXp - run.baselineXp /\ run.earnedXp >= run.targetXp
=============================================================================
