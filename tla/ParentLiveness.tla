--------------------------- MODULE ParentLiveness ---------------------------
(***************************************************************************)
(* One daemon and the root it has or wants as parent, second by second:    *)
(* the timers that Dodag counts in whole trickle periods.                  *)
(*                                                                         *)
(*   RootTrickle    trickle_cb of the root: a DIO every rootPeriod         *)
(*   SendDis        send_dis_cb: a DIS every second until there is a dag   *)
(*   Join, Hear     process_dio: join, or mark the parent as seen          *)
(*   CheckPasses, Invalidate   parent_check_cb, every CheckInterval        *)
(*   OwnTrickle     trickle_cb of the daemon                               *)
(*   ReloadRoot, ReloadNode   reload_cb on SIGUSR1                         *)
(*   Tick           a second passes; whatever is due goes first            *)
(*                                                                         *)
(* Within a second events come in any order, so a timer may overtake a DIO *)
(* that waits in the socket.  Messages get lost, the root may crash and    *)
(* restart, and the node may restart.                                      *)
(***************************************************************************)
EXTENDS Integers

CONSTANTS
  Periods,        \* values of trickle_t, in seconds
  Configured,     \* the one in the configuration file
  Factor,         \* PARENT_TIMEOUT_FACTOR
  CheckInterval,  \* PARENT_CHECK_INTERVAL
  MaxFaults,      \* bound on lost messages and crashes
  MaxReloads      \* bound on SIGUSR1s

ASSUME PeriodAssumption ==
  /\ Periods \subseteq Nat \ {0} /\ Configured \in Periods
  /\ CheckInterval \in Nat \ {0} /\ Factor \in Nat \ {0}
ASSUME LongestAssumption == \E p \in Periods : \A q \in Periods : q <= p
ASSUME BoundAssumption == MaxFaults \in Nat /\ MaxReloads \in Nat

Off == -1  \* a timer that does not run

VARIABLES
  rootUp,      \* the root's daemon runs
  rootPeriod,  \* the root's trickle_t
  rootIn,      \* seconds until the root's trickle_w fires
  phase,       \* the node has no dag, a valid or an invalidated parent
  period,      \* the node's trickle_t
  ownIn,       \* seconds until the node's trickle_w fires
  checkIn,     \* seconds until its parent_check_w fires
  disIn,       \* seconds until its dis_w fires
  silence,     \* seconds since parent_last_seen
  dio, dis,    \* a DIO for the node, a DIS for the root are on their way
  faults, reloads

rootVars == <<rootUp, rootPeriod, rootIn>>
nodeVars == <<phase, period, ownIn, checkIn, disIn, silence>>

\* History.
VARIABLES
  missed,   \* DIOs lost since the parent was last seen
  steady,   \* neither reload nor crash since then
  patience, \* the node's trickle_t at the latest check its parent passed
  unjoined, \* seconds the root was there for a node without a dag
  wasted,   \* messages lost in these seconds
  news,     \* seconds since the parent was invalidated without a DIO of the
            \* node's own, or Off
  postponed \* sum of the trickle_t's the node was reloaded with meanwhile

telling == <<news, postponed>>
history == <<missed, steady, patience, unjoined, wasted, telling>>
vars == <<rootVars, nodeVars, dio, dis, faults, reloads, history>>

Phase == {"none", "valid", "invalid"}

Longest == CHOOSE p \in Periods : \A q \in Periods : q <= p

\* Nothing needs to tell longer silences apart.
MaxSilence == Factor * Longest + CheckInterval

TypeOK ==
  /\ rootUp \in BOOLEAN /\ rootPeriod \in Periods
  /\ rootIn \in Off..rootPeriod
  /\ phase \in Phase /\ period \in Periods
  /\ ownIn \in Off..period
  /\ checkIn \in Off..CheckInterval
  /\ disIn \in Off..1
  /\ silence \in 0..MaxSilence
  /\ dio \in BOOLEAN /\ dis \in BOOLEAN
  /\ faults \in 0..MaxFaults /\ reloads \in 0..MaxReloads
  /\ missed \in 0..MaxFaults /\ steady \in BOOLEAN
  /\ patience \in Periods
  /\ unjoined \in Nat /\ wasted \in 0..MaxFaults
  /\ news \in Int /\ postponed \in Nat

\* The root is set up from its configuration, the node has no dag.
Init ==
  /\ rootUp = TRUE /\ rootPeriod = Configured /\ rootIn = Configured
  /\ phase = "none" /\ period = Configured
  /\ ownIn = Off /\ checkIn = Off /\ disIn = 1 /\ silence = 0
  /\ dio = FALSE /\ dis = FALSE
  /\ faults = 0 /\ reloads = 0
  /\ missed = 0 /\ steady = TRUE /\ patience = Configured
  /\ unjoined = 0 /\ wasted = 0 /\ news = Off /\ postponed = 0

-----------------------------------------------------------------------------
(* The root.                                                               *)

RootTrickle ==
  /\ rootUp /\ rootIn = 0
  /\ rootIn' = rootPeriod
  /\ dio' = TRUE
  /\ UNCHANGED <<rootUp, rootPeriod, nodeVars, dis, faults, reloads, history>>

\* process_dis: a DIO for every dag.
AnswerDis ==
  /\ rootUp /\ dis
  /\ dis' = FALSE /\ dio' = TRUE
  /\ UNCHANGED <<rootVars, nodeVars, faults, reloads, history>>

\* mutant: the timer goes on with what is left of the old period
ReloadRootLate(p) ==
  /\ rootUp /\ reloads < MaxReloads
  /\ reloads' = reloads + 1
  /\ rootPeriod' = p
  /\ steady' = FALSE
  /\ UNCHANGED <<rootUp, rootIn, nodeVars, dio, dis, faults,
                 missed, patience, unjoined, wasted, telling>>

\* The period takes effect at once: the timer starts again with it.
ReloadRoot(p) ==
  /\ rootUp /\ reloads < MaxReloads
  /\ reloads' = reloads + 1
  /\ rootPeriod' = p /\ rootIn' = p
  /\ steady' = FALSE
  /\ UNCHANGED <<rootUp, nodeVars, dio, dis, faults,
                 missed, patience, unjoined, wasted, telling>>

-----------------------------------------------------------------------------
(* The node.                                                               *)

\* mutant: send_dis_cb of the original rpld: one DIS only
SendDisOnce ==
  /\ disIn = 0
  /\ disIn' = Off
  /\ dis' = (phase = "none")
  /\ UNCHANGED <<rootVars, phase, period, ownIn, checkIn, silence, dio,
                 faults, reloads, history>>

\* Every second until there is a dag, then never again.
SendDis ==
  /\ disIn = 0
  /\ IF phase = "none" THEN disIn' = 1 /\ dis' = TRUE
     ELSE disIn' = Off /\ dis' = dis
  /\ UNCHANGED <<rootVars, phase, period, ownIn, checkIn, silence, dio,
                 faults, reloads, history>>

\* There is no loss, or no longer one that nobody was told of.
Told == news' = Off /\ postponed' = 0

Seen ==
  /\ silence' = 0
  /\ missed' = 0
  /\ steady' = rootUp

\* dag_create and dag_init_timer: the dag's timers start, with the period of
\* the configuration.
Join ==
  /\ dio /\ phase = "none"
  /\ dio' = FALSE
  /\ phase' = "valid"
  /\ period' = Configured /\ patience' = Configured
  /\ ownIn' = Configured /\ checkIn' = CheckInterval
  /\ Seen
  /\ unjoined' = 0 /\ wasted' = 0
  /\ UNCHANGED <<rootVars, disIn, dis, faults, reloads, telling>>

\* mutant: only a valid parent is marked as seen
HearValid ==
  /\ dio /\ phase # "none"
  /\ dio' = FALSE
  /\ phase' = "valid"
  /\ IF phase = "valid" THEN Seen ELSE UNCHANGED <<silence, missed, steady>>
  /\ Told
  /\ UNCHANGED <<rootVars, period, ownIn, checkIn, disIn, dis, faults,
                 reloads, patience, unjoined, wasted>>

\* The parent was seen; an invalidated one is valid again.
Hear ==
  /\ dio /\ phase # "none"
  /\ dio' = FALSE
  /\ phase' = "valid"
  /\ Seen
  /\ Told
  /\ UNCHANGED <<rootVars, period, ownIn, checkIn, disIn, dis, faults,
                 reloads, patience, unjoined, wasted>>

OwnTrickle ==
  /\ ownIn = 0
  /\ ownIn' = period
  /\ Told
  /\ UNCHANGED <<rootVars, phase, period, checkIn, disIn, silence, dio, dis,
                 faults, reloads, missed, steady, patience, unjoined, wasted>>

\* mutant: the timeout is one trickle period
TooShort == period

\* mutant: the check interval is added to the timeout
TooLong == Factor * period + CheckInterval

\* Silence for which a parent is given up.
Timeout == Factor * period

\* parent_check_cb, up to its early returns.
CheckPasses ==
  /\ checkIn = 0
  /\ phase # "valid" \/ silence < Timeout
  /\ checkIn' = CheckInterval
  /\ patience' = IF phase = "valid" THEN period ELSE patience
  /\ UNCHANGED <<rootVars, phase, period, ownIn, disIn, silence, dio, dis,
                 faults, reloads, missed, steady, unjoined, wasted, telling>>

\* mutant: the trickle timer is not reset
InvalidateQuietly ==
  /\ checkIn = 0
  /\ phase = "valid" /\ silence >= Timeout
  /\ checkIn' = CheckInterval
  /\ phase' = "invalid"
  /\ news' = 0 /\ postponed' = 0
  /\ UNCHANGED <<rootVars, period, ownIn, disIn, silence, dio, dis, faults,
                 reloads, missed, steady, patience, unjoined, wasted>>

\* The parent is given up, and the next own DIO is due in a second.
Invalidate ==
  /\ checkIn = 0
  /\ phase = "valid" /\ silence >= Timeout
  /\ checkIn' = CheckInterval
  /\ phase' = "invalid"
  /\ ownIn' = 1
  /\ news' = 0 /\ postponed' = 0
  /\ UNCHANGED <<rootVars, period, disIn, silence, dio, dis, faults, reloads,
                 missed, steady, patience, unjoined, wasted>>

\* Only dags that exist get the new period.  The trickle timer starts again
\* with it, also if an invalidation has just set it to one second.
ReloadNode(p) ==
  /\ phase # "none" /\ reloads < MaxReloads
  /\ reloads' = reloads + 1
  /\ period' = p /\ ownIn' = p
  /\ steady' = FALSE
  /\ postponed' = IF news = Off THEN 0 ELSE postponed + p
  /\ UNCHANGED <<rootVars, phase, checkIn, disIn, silence, dio, dis, faults,
                 missed, patience, unjoined, wasted, news>>

-----------------------------------------------------------------------------
(* The environment.                                                        *)

LoseDio ==
  /\ dio /\ faults < MaxFaults
  /\ faults' = faults + 1
  /\ dio' = FALSE
  /\ missed' = missed + 1
  /\ wasted' = IF phase = "none" THEN wasted + 1 ELSE wasted
  /\ UNCHANGED <<rootVars, nodeVars, dis, reloads,
                 steady, patience, unjoined, telling>>

\* A DIS to a root that is down is lost for nothing.
LoseDis ==
  /\ dis
  /\ dis' = FALSE
  /\ IF rootUp
       THEN /\ faults < MaxFaults /\ faults' = faults + 1
            /\ wasted' = IF phase = "none" THEN wasted + 1 ELSE wasted
       ELSE UNCHANGED <<faults, wasted>>
  /\ UNCHANGED <<rootVars, nodeVars, dio, reloads,
                 missed, steady, patience, unjoined, telling>>

CrashRoot ==
  /\ rootUp /\ faults < MaxFaults
  /\ faults' = faults + 1
  /\ rootUp' = FALSE /\ rootIn' = Off
  /\ steady' = FALSE
  /\ unjoined' = 0 /\ wasted' = 0
  /\ UNCHANGED <<rootPeriod, nodeVars, dio, dis, reloads,
                 missed, patience, telling>>

\* What was reloaded before is forgotten.
RestartRoot ==
  /\ ~rootUp
  /\ rootUp' = TRUE
  /\ rootPeriod' = Configured /\ rootIn' = Configured
  /\ UNCHANGED <<nodeVars, dio, dis, faults, reloads, history>>

RestartNode ==
  /\ faults < MaxFaults
  /\ faults' = faults + 1
  /\ phase' = "none" /\ period' = Configured
  /\ ownIn' = Off /\ checkIn' = Off /\ disIn' = 1 /\ silence' = 0
  /\ dio' = FALSE
  /\ missed' = 0 /\ patience' = Configured
  /\ unjoined' = 0 /\ wasted' = 0 /\ Told
  /\ UNCHANGED <<rootVars, dis, reloads, steady>>

Later(t) == IF t = Off THEN Off ELSE t - 1

\* Nothing is due: no timer at 0, no message to be read or lost.
Idle == 0 \notin {rootIn, ownIn, checkIn, disIn} /\ ~dio /\ ~dis

Tick ==
  /\ Idle
  /\ rootIn' = Later(rootIn) /\ ownIn' = Later(ownIn)
  /\ checkIn' = Later(checkIn) /\ disIn' = Later(disIn)
  /\ silence' = IF phase = "valid" THEN silence + 1 ELSE silence
  /\ unjoined' = IF phase = "none" /\ rootUp THEN unjoined + 1 ELSE unjoined
  /\ news' = IF news = Off THEN Off ELSE news + 1
  /\ UNCHANGED <<rootUp, rootPeriod, phase, period, dio, dis, faults, reloads,
                 missed, steady, patience, wasted, postponed>>

Handlers ==
  \/ RootTrickle \/ AnswerDis
  \/ SendDis \/ Join \/ Hear \/ OwnTrickle \/ CheckPasses \/ Invalidate

Next ==
  \/ Handlers
  \/ \E p \in Periods : ReloadRoot(p) \/ ReloadNode(p)
  \/ LoseDio \/ LoseDis \/ CrashRoot \/ RestartRoot \/ RestartNode
  \/ Tick

Spec == Init /\ [][Next]_vars

\* Event loops run and time passes.
Fairness ==
  /\ WF_vars(Handlers) /\ WF_vars(Tick)
  /\ WF_vars(LoseDis /\ ~rootUp)

FairSpec == Spec /\ Fairness

-----------------------------------------------------------------------------
(* Safety.                                                                 *)

\* A parent that is alive, with nobody's period changed meanwhile, is given
\* up only after all the DIOs that fit in the timeout were lost but one,
\* which may be waiting in the socket while the timer runs.
NoFalseAlarm ==
  [][phase = "valid" /\ phase' = "invalid" /\ steady =>
       missed >= (Factor * period) \div rootPeriod - 1]_vars

\* A parent that counts as valid was heard within its timeout, with the
\* period of the latest check it passed, and one check interval.
SilenceBounded ==
  phase = "valid" => silence < Factor * patience + CheckInterval

\* A node without a dag finds a running root in a second and one more for
\* every message lost, whatever the root's trickle period.
JoinsSoon == phase = "none" => unjoined <= wasted + 1

\* From the last DIO of a parent until the node's neighbours are told that it
\* is lost, no more time passes than the timeout, one check interval (in which
\* the second of the reset trickle timer has room) and, for every reload that
\* comes first and replaces that second, one whole new period.
LossAnnounced ==
  news # Off =>
    silence + news <= Factor * patience + CheckInterval + postponed

-----------------------------------------------------------------------------
(* Liveness.                                                               *)

\* With a root that stays up, and a period of its own that does not exceed
\* the node's timeout, the node ends up with a valid parent for good.
StaysJoined ==
  <>[](rootUp /\ rootPeriod < Timeout) => <>[](phase = "valid")

=============================================================================
