--------------------------- MODULE AdaptiveEngine ---------------------------
(***************************************************************************)
(* The metrics behind the adaptive engine's verdict: the ring of parent    *)
(* changes and the stability index, the window of DAO outcomes and the     *)
(* PDR, the smoothed energy, and the weighted score.  ClassControl takes   *)
(* the verdict as an input; here it is computed.                           *)
(*                                                                         *)
(*   ParentChanged  hymrpl_adaptive_parent_changed                         *)
(*   RecordDao      hymrpl_adaptive_record_dao                             *)
(*   Evaluate       adaptive_eval_cb, every EvalPeriod seconds             *)
(*   Tick           a second passes                                        *)
(*                                                                         *)
(* Timestamps are kept as ages.  The score is exact integer arithmetic:    *)
(* instances must not let it meet the threshold, where floats may go       *)
(* either way.  recent and outcomes are history: what the rings stand for. *)
(***************************************************************************)
EXTENDS Integers, Sequences, FiniteSets

CONSTANTS
  NMax,        \* HYMRPL_STABILITY_NMAX
  Window,      \* HYMRPL_STABILITY_WINDOW, in seconds
  EvalPeriod,  \* HYMRPL_ADAPTIVE_INTERVAL, in seconds
  PdrWindow,   \* HYMRPL_PDR_WINDOW
  Full,        \* levels of energy: Full stands for 100 %
  Readings,    \* levels the battery file may hold
  NoFile,      \* there is no readable battery file
  MaxRecent    \* bound on parent changes within Horizon seconds

ASSUME SizeAssumption ==
  /\ NMax \in Nat \ {0} /\ PdrWindow \in Nat \ {0}
  /\ Window \in Nat \ {0} /\ EvalPeriod \in Nat \ {0}
  /\ MaxRecent \in Nat
ASSUME EnergyAssumption ==
  Full \in Nat \ {0} /\ Readings \subseteq 0..Full /\ NoFile \notin 0..Full

VARIABLES
  changeAge,   \* adp->parent_change_times, as ages: the oldest first
  stab,        \* changes behind adp->s_stab, at most NMax
  pdrWindow,   \* adp->pdr_window
  pdrIdx,      \* adp->pdr_idx
  pdrCount,    \* adp->pdr_count
  energyEma,   \* adp->energy_ema
  reading,     \* the latest energy reading
  evalIn,      \* seconds until adp->eval_w fires
  recent,      \* history: ages of all changes within Horizon, oldest first
  outcomes     \* history: the latest PdrWindow outcomes, oldest first

ringVars == <<changeAge, recent>>
pdrVars == <<pdrWindow, pdrIdx, pdrCount, outcomes>>
evalVars == <<stab, energyEma, reading>>
vars == <<ringVars, pdrVars, evalVars, evalIn>>

\* How long a change can matter: in the window, until the next evaluation.
Horizon == Window + EvalPeriod

\* An age beyond the window is as good as any other.
Forgotten == Window + 1

TypeOK ==
  /\ changeAge \in Seq(0..Forgotten) /\ Len(changeAge) <= NMax + 1
  /\ stab \in 0..NMax
  /\ pdrWindow \in [0..(PdrWindow - 1) -> 0..1]
  /\ pdrIdx \in 0..(PdrWindow - 1)
  /\ pdrCount \in 0..PdrWindow
  /\ energyEma \in 0..Full
  /\ reading \in 0..Full
  /\ evalIn \in 0..EvalPeriod
  /\ recent \in Seq(0..Horizon) /\ Len(recent) <= MaxRecent
  /\ outcomes \in Seq(0..1) /\ Len(outcomes) <= PdrWindow

Lesser(x, y) == IF x < y THEN x ELSE y

\* How many entries of a sequence of ages are at most a.
AtMost(s, a) == Cardinality({i \in DOMAIN s : s[i] <= a})

\* mutant: the index only gets worse
WorstChanges ==
  IF stab > Lesser(AtMost(changeAge, Window), NMax) THEN stab
  ELSE Lesser(AtMost(changeAge, Window), NMax)

\* compute_stability: the changes in the window, cut off at NMax.
ChangesInWindow == Lesser(AtMost(changeAge, Window), NMax)

\* compute_pdr: successes among the first pdrCount slots of the window.
Successes == Cardinality({i \in 0..(pdrCount - 1) : pdrWindow[i] = 1})

Recorded == IF pdrCount = 0 THEN 1 ELSE pdrCount
Delivered == IF pdrCount = 0 THEN 1 ELSE Successes

\* mutant: the stability index weighs as much as the PDR
HeavyTopology(d, r, e, k) ==
  6 * d * Full * NMax + 6 * e * r * NMax + 8 * k * Full * r
    >= 15 * r * Full * NMax

\* adaptive_decide: 0.4 pdr + 0.3 energy + 0.3 stability >= 0.75, times
\* 20 r Full NMax: d DAOs of r delivered, energy e, stability k of NMax.
ReachesThreshold(d, r, e, k) ==
  8 * d * Full * NMax + 6 * e * r * NMax + 6 * k * Full * r
    >= 15 * r * Full * NMax

WantsClassS ==
  \E d \in {Delivered}, r \in {Recorded}, e \in {energyEma}, s \in {stab} :
    ReachesThreshold(d, r, e, NMax - s)

Init ==
  /\ changeAge = <<>> /\ recent = <<>>
  /\ stab = 0
  /\ pdrWindow = [i \in 0..(PdrWindow - 1) |-> 1]
  /\ pdrIdx = 0 /\ pdrCount = 0 /\ outcomes = <<>>
  /\ energyEma = Full /\ reading = Full
  /\ evalIn = EvalPeriod

\* mutant: a full ring takes the new change in place of its latest
PushNoShift(s) ==
  IF Len(s) < NMax + 1 THEN Append(s, 0) ELSE [s EXCEPT ![NMax + 1] = 0]

\* The ring takes a change: a full one is shifted first.
Push(s) ==
  IF Len(s) < NMax + 1 THEN Append(s, 0) ELSE Append(Tail(s), 0)

\* process_dio on an adoption, or parent_check_cb on an invalidation.
ParentChanged ==
  /\ Len(recent) < MaxRecent
  /\ changeAge' = Push(changeAge)
  /\ recent' = Append(recent, 0)
  /\ UNCHANGED <<pdrVars, evalVars, evalIn>>

\* mutant: the count goes on when the window is full
CountUnbounded == pdrCount + 1

\* mutant: the index stops at the window's end
IndexStops == IF pdrIdx < PdrWindow - 1 THEN pdrIdx + 1 ELSE pdrIdx

NextIndex == (pdrIdx + 1) % PdrWindow

NextCount == IF pdrCount < PdrWindow THEN pdrCount + 1 ELSE pdrCount

\* A DAO was answered (1) or not (0).
RecordDao(ok) ==
  /\ pdrWindow' = [pdrWindow EXCEPT ![pdrIdx] = ok]
  /\ pdrIdx' = NextIndex
  /\ pdrCount' = NextCount
  /\ outcomes' = Append(IF Len(outcomes) < PdrWindow THEN outcomes
                        ELSE Tail(outcomes), ok)
  /\ UNCHANGED <<ringVars, evalVars, evalIn>>

\* read_energy: without a file the battery is full.
ReadEnergy(file) == IF file = NoFile THEN Full ELSE file

\* mutant: the average never rises
SmoothedDown(raw) ==
  IF raw > energyEma THEN energyEma
  ELSE energyEma - ((3 * (energyEma - raw) + 9) \div 10)

\* mutant: steps are truncated, so that the average stops short
SmoothedShort(raw) ==
  IF raw > energyEma
    THEN energyEma + ((3 * (raw - energyEma) + 9) \div 10)
    ELSE energyEma - ((3 * (energyEma - raw)) \div 10)

\* 0.3 raw + 0.7 energy_ema, rounded towards the reading.
Smoothed(raw) ==
  IF raw > energyEma
    THEN energyEma + ((3 * (raw - energyEma) + 9) \div 10)
    ELSE energyEma - ((3 * (energyEma - raw) + 9) \div 10)

\* The periodic evaluation: energy, then stability.
Evaluate(file) ==
  /\ evalIn = 0
  /\ evalIn' = EvalPeriod
  /\ reading' = ReadEnergy(file)
  /\ energyEma' = Smoothed(ReadEnergy(file))
  /\ stab' = ChangesInWindow
  /\ UNCHANGED <<ringVars, pdrVars>>

-----------------------------------------------------------------------------
(* A second passes; a timer that is due fires before the next one.         *)

Older(s, limit) == [i \in 1..Len(s) |-> Lesser(s[i] + 1, limit)]

\* The last entries of a sequence, as many as there are with an age up to a.
Young(s, a) == SubSeq(s, Len(s) - AtMost(s, a) + 1, Len(s))

Tick ==
  /\ evalIn > 0
  /\ evalIn' = evalIn - 1
  /\ changeAge' = Older(changeAge, Forgotten)
  /\ recent' = Young(Older(recent, Horizon + 1), Horizon)
  /\ UNCHANGED <<pdrVars, evalVars>>

Next ==
  \/ ParentChanged
  \/ \E ok \in 0..1 : RecordDao(ok)
  \/ \E file \in Readings \cup {NoFile} : Evaluate(file)
  \/ Tick

Spec == Init /\ [][Next]_vars

\* The event loop keeps its timers running.
Fairness ==
  /\ WF_vars(Tick)
  /\ WF_vars(\E file \in Readings \cup {NoFile} : Evaluate(file))

FairSpec == Spec /\ Fairness

-----------------------------------------------------------------------------
(* Safety.                                                                 *)

\* The ring of NMax + 1 timestamps, whose count never falls, says of the
\* window what a list of all changes would.
StabilityExact == ChangesInWindow = Lesser(AtMost(recent, Window), NMax)

\* The stored index, read at every poll but computed at evaluations, never
\* holds a change against the node for longer than Horizon, and misses none
\* that is older than the evaluation period.
PenaltyFresh ==
  /\ stab <= AtMost(recent, Horizon)
  /\ stab >= Lesser(AtMost(recent, Window) - AtMost(recent, EvalPeriod), NMax)

\* The PDR is that of the latest PdrWindow outcomes, whatever slot of the
\* window they are in.
PdrExact ==
  /\ pdrCount = Len(outcomes)
  /\ Successes = Cardinality({i \in DOMAIN outcomes : outcomes[i] = 1})

\* While energy is full and every DAO succeeds, the engine wants class N
\* only after more than five sixths of NMax changes of parent within the
\* horizon: with the code's NMax of 3, after no fewer than 3.
NeedsEvidence ==
  ~WantsClassS /\ energyEma = Full /\ Delivered = Recorded =>
    6 * AtMost(recent, Horizon) > 5 * NMax

-----------------------------------------------------------------------------
(* Liveness.                                                               *)

\* Parents stay, the battery reads full, DAOs get through.
Calm == recent = <<>> /\ reading = Full /\ Delivered = Recorded

\* Once a node is calm for good the verdict returns to S and stays there,
\* however low the energy was and however full of old changes the ring is.
Recovers == <>[]Calm => <>[]WantsClassS

\* An empty battery makes it class N in the end, however good the rest is.
EmptyYields == <>[](reading = 0) => <>[]~WantsClassS

=============================================================================
