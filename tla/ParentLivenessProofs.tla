------------------------ MODULE ParentLivenessProofs ------------------------
(***************************************************************************)
(* Theorems about ParentLiveness, for all periods, timeouts, check         *)
(* intervals and numbers of faults and reloads.                            *)
(***************************************************************************)
EXTENDS ParentLiveness, TLAPS

\* Which timers run, and the daemons are either without a parent or have
\* both of theirs running.
TimerInv ==
  /\ rootUp <=> rootIn # Off
  /\ phase = "none" <=> ownIn = Off
  /\ phase = "none" <=> checkIn = Off
  /\ phase = "none" => disIn # Off /\ news = Off

FaultInv == missed <= faults /\ wasted <= faults

\* The check that will give the parent up is never too far away, and the
\* silence of a parent given up is that of the check.
SilenceInv ==
  /\ phase = "valid" => silence + checkIn < Factor * patience + CheckInterval
  /\ phase = "invalid" => silence < Factor * patience + CheckInterval

\* A second without a dag begins with a DIS, which finds the root or is lost.
JoinInv ==
  /\ ~rootUp => unjoined = 0
  /\ phase = "none" => unjoined <= wasted + 1
  /\ phase = "none" /\ disIn = 1 /\ ~dis /\ ~dio => unjoined <= wasted

\* The node's own DIO is due a second after the loss, or a whole period after
\* a reload that came before it.
NewsInv ==
  news # Off =>
    /\ phase = "invalid" /\ news >= 0
    /\ news + ownIn <= 1 + postponed

\* DIOs that were due since the parent was seen are lost, but for one that
\* waits.
AlarmInv ==
  phase = "valid" /\ steady =>
    /\ rootUp
    /\ silence <= (missed + 1) * rootPeriod
    /\ ~dio => silence + rootIn <= (missed + 1) * rootPeriod

\* TypeOK in two parts, for the provers: truth values, and the rest.
Flags == {rootUp, dio, dis, steady} \subseteq BOOLEAN

Counts ==
  /\ rootPeriod \in Periods /\ rootIn \in Off..rootPeriod
  /\ phase \in Phase /\ period \in Periods
  /\ ownIn \in Off..period
  /\ checkIn \in Off..CheckInterval
  /\ disIn \in Off..1
  /\ silence \in 0..MaxSilence
  /\ faults \in 0..MaxFaults /\ reloads \in 0..MaxReloads
  /\ missed \in 0..MaxFaults /\ patience \in Periods
  /\ unjoined \in Nat /\ wasted \in 0..MaxFaults
  /\ news \in Int /\ postponed \in Nat

LiveInv == Flags /\ Counts /\ TimerInv /\ FaultInv /\ SilenceInv

\* The longest period bounds every timeout.
LEMMA LongestBounds ==
  /\ Longest \in Periods
  /\ \A p \in Periods : Factor * p \in Nat /\ Factor * p <= Factor * Longest
  /\ \A p \in Periods : 1 <= Factor * p
<1>1. Longest \in Periods /\ \A q \in Periods : q <= Longest
  BY LongestAssumption DEF Longest
<1>2. \A x, y \in Nat : x <= y => Factor * x \in Nat /\ Factor * x <= Factor * y
  BY PeriodAssumption
<1>3. Factor * 1 = Factor /\ 1 <= Factor
  BY PeriodAssumption
<1> QED
  BY <1>1, <1>2, <1>3, PeriodAssumption

\* The root and the node begin with their timers set.
LEMMA InitLive == Init => LiveInv
<1>1. /\ Factor * Configured \in Nat /\ MaxSilence \in Nat
      /\ Configured \in Periods /\ Configured \in Nat \ {0}
      /\ CheckInterval \in Nat \ {0}
      /\ MaxFaults \in Nat /\ MaxReloads \in Nat
  BY PeriodAssumption, BoundAssumption, LongestBounds DEF MaxSilence
<1> SUFFICES ASSUME Init
             PROVE  LiveInv
  OBVIOUS
<1>2. Flags
  BY Zenon DEF Init, Flags
<1>3. Counts
  BY <1>1 DEF Init, Counts, Off, Phase
<1>4. TimerInv
  BY <1>1 DEF Init, TimerInv, Off
<1>5. FaultInv /\ SilenceInv
  BY <1>1 DEF Init, FaultInv, SilenceInv, Off
<1> QED
  BY <1>2, <1>3, <1>4, <1>5 DEF LiveInv

\* Every step keeps types, timers and the bound on silence.
LEMMA NextLive ==
  ASSUME LiveInv, [Next]_vars
  PROVE  LiveInv'
<1> USE DEF Off, Phase, rootVars, nodeVars, history, telling, Told
<1>1. /\ Periods \subseteq Nat \ {0} /\ Configured \in Periods
      /\ CheckInterval \in Nat \ {0} /\ MaxFaults \in Nat /\ MaxReloads \in Nat
      /\ MaxSilence \in Nat
  BY PeriodAssumption, BoundAssumption, LongestBounds DEF MaxSilence
<1>2. \A p \in Periods : /\ Factor * p \in Nat /\ 1 <= Factor * p
                         /\ Factor * p + CheckInterval <= MaxSilence
  BY <1>1, LongestBounds DEF MaxSilence
<1>3. Flags /\ Counts /\ TimerInv /\ FaultInv /\ SilenceInv
  BY DEF LiveInv
<1> SUFFICES (Flags /\ Counts /\ TimerInv /\ FaultInv /\ SilenceInv)'
  BY DEF LiveInv
<1>4. CASE RootTrickle
  <2>1. Flags'
    BY <1>3, <1>4, Zenon DEF Flags, RootTrickle
  <2>2. Counts'
    BY <1>1, <1>3, <1>4 DEF Counts, TimerInv, FaultInv, SilenceInv, RootTrickle
  <2>3. TimerInv'
    BY <1>1, <1>3, <1>4 DEF Counts, TimerInv, FaultInv, SilenceInv, RootTrickle
  <2>4. FaultInv'
    BY <1>1, <1>3, <1>4 DEF Counts, TimerInv, FaultInv, SilenceInv, RootTrickle
  <2>5. SilenceInv'
    BY <1>1, <1>2, <1>3, <1>4
    DEF Counts, TimerInv, FaultInv, SilenceInv, RootTrickle
  <2> QED  BY <2>1, <2>2, <2>3, <2>4, <2>5
<1>5. CASE AnswerDis
  <2>1. Flags'
    BY <1>3, <1>5, Zenon DEF Flags, AnswerDis
  <2>2. Counts'
    BY <1>1, <1>3, <1>5 DEF Counts, TimerInv, FaultInv, SilenceInv, AnswerDis
  <2>3. TimerInv'
    BY <1>1, <1>3, <1>5 DEF Counts, TimerInv, FaultInv, SilenceInv, AnswerDis
  <2>4. FaultInv'
    BY <1>1, <1>3, <1>5 DEF Counts, TimerInv, FaultInv, SilenceInv, AnswerDis
  <2>5. SilenceInv'
    BY <1>1, <1>2, <1>3, <1>5
    DEF Counts, TimerInv, FaultInv, SilenceInv, AnswerDis
  <2> QED  BY <2>1, <2>2, <2>3, <2>4, <2>5
<1>6. CASE SendDis
  <2>1. Flags'
    BY <1>3, <1>6, Zenon DEF Flags, SendDis
  <2>2. Counts'
    BY <1>1, <1>3, <1>6 DEF Counts, TimerInv, FaultInv, SilenceInv, SendDis
  <2>3. TimerInv'
    BY <1>1, <1>3, <1>6 DEF Counts, TimerInv, FaultInv, SilenceInv, SendDis
  <2>4. FaultInv'
    BY <1>1, <1>3, <1>6 DEF Counts, TimerInv, FaultInv, SilenceInv, SendDis
  <2>5. SilenceInv'
    BY <1>1, <1>2, <1>3, <1>6
    DEF Counts, TimerInv, FaultInv, SilenceInv, SendDis
  <2> QED  BY <2>1, <2>2, <2>3, <2>4, <2>5
<1>7. CASE Join
  <2>1. Flags'
    BY <1>3, <1>7, Zenon DEF Flags, Join, Seen
  <2>2. Counts'
    BY <1>1, <1>3, <1>7 DEF Counts, TimerInv, FaultInv, SilenceInv, Join, Seen
  <2>3. TimerInv'
    BY <1>1, <1>3, <1>7 DEF Counts, TimerInv, FaultInv, SilenceInv, Join, Seen
  <2>4. FaultInv'
    BY <1>1, <1>3, <1>7 DEF Counts, TimerInv, FaultInv, SilenceInv, Join, Seen
  <2>5. SilenceInv'
    BY <1>1, <1>2, <1>3, <1>7
    DEF Counts, TimerInv, FaultInv, SilenceInv, Join, Seen
  <2> QED  BY <2>1, <2>2, <2>3, <2>4, <2>5
<1>8. CASE Hear
  <2>1. Flags'
    BY <1>3, <1>8, Zenon DEF Flags, Hear, Seen
  <2>2. Counts'
    BY <1>1, <1>3, <1>8 DEF Counts, TimerInv, FaultInv, SilenceInv, Hear, Seen
  <2>3. TimerInv'
    BY <1>1, <1>3, <1>8 DEF Counts, TimerInv, FaultInv, SilenceInv, Hear, Seen
  <2>4. FaultInv'
    BY <1>1, <1>3, <1>8 DEF Counts, TimerInv, FaultInv, SilenceInv, Hear, Seen
  <2>5. SilenceInv'
    BY <1>1, <1>2, <1>3, <1>8
    DEF Counts, TimerInv, FaultInv, SilenceInv, Hear, Seen
  <2> QED  BY <2>1, <2>2, <2>3, <2>4, <2>5
<1>9. CASE OwnTrickle
  <2>1. Flags'
    BY <1>3, <1>9, Zenon DEF Flags, OwnTrickle
  <2>2. Counts'
    BY <1>1, <1>3, <1>9 DEF Counts, TimerInv, FaultInv, SilenceInv, OwnTrickle
  <2>3. TimerInv'
    BY <1>1, <1>3, <1>9 DEF Counts, TimerInv, FaultInv, SilenceInv, OwnTrickle
  <2>4. FaultInv'
    BY <1>1, <1>3, <1>9 DEF Counts, TimerInv, FaultInv, SilenceInv, OwnTrickle
  <2>5. SilenceInv'
    BY <1>1, <1>2, <1>3, <1>9
    DEF Counts, TimerInv, FaultInv, SilenceInv, OwnTrickle
  <2> QED  BY <2>1, <2>2, <2>3, <2>4, <2>5
<1>10. CASE CheckPasses
  <2>1. Flags'
    BY <1>3, <1>10, Zenon DEF Flags, CheckPasses
  <2>2. Counts'
    BY <1>1, <1>3, <1>10
    DEF Counts, TimerInv, FaultInv, SilenceInv, CheckPasses
  <2>3. TimerInv'
    BY <1>1, <1>3, <1>10
    DEF Counts, TimerInv, FaultInv, SilenceInv, CheckPasses
  <2>4. FaultInv'
    BY <1>1, <1>3, <1>10
    DEF Counts, TimerInv, FaultInv, SilenceInv, CheckPasses
  <2>5. SilenceInv'
    BY <1>1, <1>2, <1>3, <1>10
    DEF Counts, TimerInv, FaultInv, SilenceInv, CheckPasses, Timeout
  <2> QED  BY <2>1, <2>2, <2>3, <2>4, <2>5
<1>11. CASE Invalidate
  <2>1. Flags'
    BY <1>3, <1>11, Zenon DEF Flags, Invalidate
  <2>2. Counts'
    BY <1>1, <1>3, <1>11 DEF Counts, TimerInv, FaultInv, SilenceInv, Invalidate
  <2>3. TimerInv'
    BY <1>1, <1>3, <1>11 DEF Counts, TimerInv, FaultInv, SilenceInv, Invalidate
  <2>4. FaultInv'
    BY <1>1, <1>3, <1>11 DEF Counts, TimerInv, FaultInv, SilenceInv, Invalidate
  <2>5. SilenceInv'
    BY <1>1, <1>2, <1>3, <1>11
    DEF Counts, TimerInv, FaultInv, SilenceInv, Invalidate
  <2> QED  BY <2>1, <2>2, <2>3, <2>4, <2>5
<1>12. CASE \E p \in Periods : ReloadRoot(p)
  <2>1. Flags'
    BY <1>3, <1>12, Zenon DEF Flags, ReloadRoot
  <2>2. Counts'
    BY <1>1, <1>3, <1>12 DEF Counts, TimerInv, FaultInv, SilenceInv, ReloadRoot
  <2>3. TimerInv'
    BY <1>1, <1>3, <1>12 DEF Counts, TimerInv, FaultInv, SilenceInv, ReloadRoot
  <2>4. FaultInv'
    BY <1>1, <1>3, <1>12 DEF Counts, TimerInv, FaultInv, SilenceInv, ReloadRoot
  <2>5. SilenceInv'
    BY <1>1, <1>2, <1>3, <1>12
    DEF Counts, TimerInv, FaultInv, SilenceInv, ReloadRoot
  <2> QED  BY <2>1, <2>2, <2>3, <2>4, <2>5
<1>13. CASE \E p \in Periods : ReloadNode(p)
  <2>1. Flags'
    BY <1>3, <1>13, Zenon DEF Flags, ReloadNode
  <2>2. Counts'
    BY <1>1, <1>3, <1>13 DEF Counts, TimerInv, FaultInv, SilenceInv, ReloadNode
  <2>3. TimerInv'
    BY <1>1, <1>3, <1>13 DEF Counts, TimerInv, FaultInv, SilenceInv, ReloadNode
  <2>4. FaultInv'
    BY <1>1, <1>3, <1>13 DEF Counts, TimerInv, FaultInv, SilenceInv, ReloadNode
  <2>5. SilenceInv'
    BY <1>1, <1>2, <1>3, <1>13
    DEF Counts, TimerInv, FaultInv, SilenceInv, ReloadNode
  <2> QED  BY <2>1, <2>2, <2>3, <2>4, <2>5
<1>14. CASE LoseDio
  <2>1. Flags'
    BY <1>3, <1>14, Zenon DEF Flags, LoseDio
  <2>2. Counts'
    BY <1>1, <1>3, <1>14 DEF Counts, TimerInv, FaultInv, SilenceInv, LoseDio
  <2>3. TimerInv'
    BY <1>1, <1>3, <1>14 DEF Counts, TimerInv, FaultInv, SilenceInv, LoseDio
  <2>4. FaultInv'
    BY <1>1, <1>3, <1>14 DEF Counts, TimerInv, FaultInv, SilenceInv, LoseDio
  <2>5. SilenceInv'
    BY <1>1, <1>2, <1>3, <1>14
    DEF Counts, TimerInv, FaultInv, SilenceInv, LoseDio
  <2> QED  BY <2>1, <2>2, <2>3, <2>4, <2>5
<1>15. CASE LoseDis
  <2>1. Flags'
    BY <1>3, <1>15, Zenon DEF Flags, LoseDis
  <2>2. Counts'
    BY <1>1, <1>3, <1>15 DEF Counts, TimerInv, FaultInv, SilenceInv, LoseDis
  <2>3. TimerInv'
    BY <1>1, <1>3, <1>15 DEF Counts, TimerInv, FaultInv, SilenceInv, LoseDis
  <2>4. FaultInv'
    BY <1>1, <1>3, <1>15 DEF Counts, TimerInv, FaultInv, SilenceInv, LoseDis
  <2>5. SilenceInv'
    BY <1>1, <1>2, <1>3, <1>15
    DEF Counts, TimerInv, FaultInv, SilenceInv, LoseDis
  <2> QED  BY <2>1, <2>2, <2>3, <2>4, <2>5
<1>16. CASE CrashRoot
  <2>1. Flags'
    BY <1>3, <1>16, Zenon DEF Flags, CrashRoot
  <2>2. Counts'
    BY <1>1, <1>3, <1>16 DEF Counts, TimerInv, FaultInv, SilenceInv, CrashRoot
  <2>3. TimerInv'
    BY <1>1, <1>3, <1>16 DEF Counts, TimerInv, FaultInv, SilenceInv, CrashRoot
  <2>4. FaultInv'
    BY <1>1, <1>3, <1>16 DEF Counts, TimerInv, FaultInv, SilenceInv, CrashRoot
  <2>5. SilenceInv'
    BY <1>1, <1>2, <1>3, <1>16
    DEF Counts, TimerInv, FaultInv, SilenceInv, CrashRoot
  <2> QED  BY <2>1, <2>2, <2>3, <2>4, <2>5
<1>17. CASE RestartRoot
  <2>1. Flags'
    BY <1>3, <1>17, Zenon DEF Flags, RestartRoot
  <2>2. Counts'
    BY <1>1, <1>3, <1>17
    DEF Counts, TimerInv, FaultInv, SilenceInv, RestartRoot
  <2>3. TimerInv'
    BY <1>1, <1>3, <1>17
    DEF Counts, TimerInv, FaultInv, SilenceInv, RestartRoot
  <2>4. FaultInv'
    BY <1>1, <1>3, <1>17
    DEF Counts, TimerInv, FaultInv, SilenceInv, RestartRoot
  <2>5. SilenceInv'
    BY <1>1, <1>2, <1>3, <1>17
    DEF Counts, TimerInv, FaultInv, SilenceInv, RestartRoot
  <2> QED  BY <2>1, <2>2, <2>3, <2>4, <2>5
<1>18. CASE RestartNode
  <2>1. Flags'
    BY <1>3, <1>18, Zenon DEF Flags, RestartNode
  <2>2. Counts'
    BY <1>1, <1>3, <1>18
    DEF Counts, TimerInv, FaultInv, SilenceInv, RestartNode
  <2>3. TimerInv'
    BY <1>1, <1>3, <1>18
    DEF Counts, TimerInv, FaultInv, SilenceInv, RestartNode
  <2>4. FaultInv'
    BY <1>1, <1>3, <1>18
    DEF Counts, TimerInv, FaultInv, SilenceInv, RestartNode
  <2>5. SilenceInv'
    BY <1>1, <1>2, <1>3, <1>18
    DEF Counts, TimerInv, FaultInv, SilenceInv, RestartNode
  <2> QED  BY <2>1, <2>2, <2>3, <2>4, <2>5
<1>19. CASE Tick
  <2>1. Flags'
    BY <1>3, <1>19, Zenon DEF Flags, Tick, Idle, Later
  <2>2. Counts'
    BY <1>1, <1>2, <1>3, <1>19
    DEF Counts, TimerInv, FaultInv, SilenceInv, Tick, Idle, Later
  <2>3. TimerInv'
    BY <1>1, <1>2, <1>3, <1>19
    DEF Counts, TimerInv, FaultInv, SilenceInv, Tick, Idle, Later
  <2>4. FaultInv'
    BY <1>1, <1>2, <1>3, <1>19
    DEF Counts, TimerInv, FaultInv, SilenceInv, Tick, Idle, Later
  <2>5. SilenceInv'
    BY <1>1, <1>2, <1>3, <1>19
    DEF Counts, TimerInv, FaultInv, SilenceInv, Tick, Idle, Later
  <2> QED  BY <2>1, <2>2, <2>3, <2>4, <2>5
<1>20. CASE UNCHANGED vars
  <2>1. Flags'
    BY <1>3, <1>20, Zenon DEF Flags, vars
  <2>2. Counts'
    BY <1>1, <1>3, <1>20 DEF Counts, TimerInv, FaultInv, SilenceInv, vars
  <2>3. TimerInv'
    BY <1>1, <1>3, <1>20 DEF Counts, TimerInv, FaultInv, SilenceInv, vars
  <2>4. FaultInv'
    BY <1>1, <1>3, <1>20 DEF Counts, TimerInv, FaultInv, SilenceInv, vars
  <2>5. SilenceInv'
    BY <1>1, <1>2, <1>3, <1>20 DEF Counts, TimerInv, FaultInv, SilenceInv, vars
  <2> QED  BY <2>1, <2>2, <2>3, <2>4, <2>5
<1> QED
  BY <1>4, <1>5, <1>6, <1>7, <1>8, <1>9, <1>10, <1>11, <1>12, <1>13, <1>14,
     <1>15, <1>16, <1>17, <1>18, <1>19, <1>20
  DEF Next, Handlers

\* No DIS goes unanswered but one that is lost, or its answer is.
LEMMA NextJoin ==
  ASSUME LiveInv, JoinInv, [Next]_vars
  PROVE  JoinInv'
<1> USE DEF Off, Phase, rootVars, nodeVars, history, telling, Told
<1>1. /\ Periods \subseteq Nat \ {0} /\ Configured \in Periods
      /\ CheckInterval \in Nat \ {0}
  BY PeriodAssumption
<1>2. Counts /\ TimerInv
  BY DEF LiveInv
<1>3. CASE RootTrickle
  BY <1>1, <1>2, <1>3 DEF JoinInv, Counts, TimerInv, RootTrickle
<1>4. CASE AnswerDis
  BY <1>1, <1>2, <1>4 DEF JoinInv, Counts, TimerInv, AnswerDis
<1>5. CASE SendDis
  BY <1>1, <1>2, <1>5 DEF JoinInv, Counts, TimerInv, SendDis
<1>6. CASE Join
  BY <1>1, <1>2, <1>6 DEF JoinInv, Counts, TimerInv, Join, Seen
<1>7. CASE Hear
  BY <1>1, <1>2, <1>7 DEF JoinInv, Counts, TimerInv, Hear, Seen
<1>8. CASE OwnTrickle
  BY <1>1, <1>2, <1>8 DEF JoinInv, Counts, TimerInv, OwnTrickle
<1>9. CASE CheckPasses
  BY <1>1, <1>2, <1>9 DEF JoinInv, Counts, TimerInv, CheckPasses
<1>10. CASE Invalidate
  BY <1>1, <1>2, <1>10 DEF JoinInv, Counts, TimerInv, Invalidate
<1>11. CASE \E p \in Periods : ReloadRoot(p)
  BY <1>1, <1>2, <1>11 DEF JoinInv, Counts, TimerInv, ReloadRoot
<1>12. CASE \E p \in Periods : ReloadNode(p)
  BY <1>1, <1>2, <1>12 DEF JoinInv, Counts, TimerInv, ReloadNode
<1>13. CASE LoseDio
  BY <1>1, <1>2, <1>13 DEF JoinInv, Counts, TimerInv, LoseDio
<1>14. CASE LoseDis
  BY <1>1, <1>2, <1>14 DEF JoinInv, Counts, TimerInv, LoseDis
<1>15. CASE CrashRoot
  BY <1>1, <1>2, <1>15 DEF JoinInv, Counts, TimerInv, CrashRoot
<1>16. CASE RestartRoot
  BY <1>1, <1>2, <1>16 DEF JoinInv, Counts, TimerInv, RestartRoot
<1>17. CASE RestartNode
  BY <1>1, <1>2, <1>17 DEF JoinInv, Counts, TimerInv, RestartNode
<1>18. CASE Tick
  BY <1>1, <1>2, <1>18 DEF JoinInv, Counts, TimerInv, Tick, Idle, Later
<1>19. CASE UNCHANGED vars
  BY <1>1, <1>2, <1>19 DEF JoinInv, Counts, TimerInv, vars
<1> QED
  BY <1>3, <1>4, <1>5, <1>6, <1>7, <1>8, <1>9, <1>10, <1>11, <1>12, <1>13,
     <1>14, <1>15, <1>16, <1>17, <1>18, <1>19
  DEF Next, Handlers

\* Only a reload puts off the DIO that is due, and by no more than its period.
LEMMA NextNews ==
  ASSUME LiveInv, NewsInv, [Next]_vars
  PROVE  NewsInv'
<1> USE DEF Off, Phase, rootVars, nodeVars, history, telling, Told
<1>1. /\ Periods \subseteq Nat \ {0} /\ Configured \in Periods
      /\ CheckInterval \in Nat \ {0}
  BY PeriodAssumption
<1>2. Counts /\ TimerInv
  BY DEF LiveInv
<1>3. CASE RootTrickle
  BY <1>1, <1>2, <1>3 DEF NewsInv, Counts, TimerInv, RootTrickle
<1>4. CASE AnswerDis
  BY <1>1, <1>2, <1>4 DEF NewsInv, Counts, TimerInv, AnswerDis
<1>5. CASE SendDis
  BY <1>1, <1>2, <1>5 DEF NewsInv, Counts, TimerInv, SendDis
<1>6. CASE Join
  BY <1>1, <1>2, <1>6 DEF NewsInv, Counts, TimerInv, Join, Seen
<1>7. CASE Hear
  BY <1>1, <1>2, <1>7 DEF NewsInv, Counts, TimerInv, Hear, Seen
<1>8. CASE OwnTrickle
  BY <1>1, <1>2, <1>8 DEF NewsInv, Counts, TimerInv, OwnTrickle
<1>9. CASE CheckPasses
  BY <1>1, <1>2, <1>9 DEF NewsInv, Counts, TimerInv, CheckPasses
<1>10. CASE Invalidate
  BY <1>1, <1>2, <1>10 DEF NewsInv, Counts, TimerInv, Invalidate
<1>11. CASE \E p \in Periods : ReloadRoot(p)
  BY <1>1, <1>2, <1>11 DEF NewsInv, Counts, TimerInv, ReloadRoot
<1>12. CASE \E p \in Periods : ReloadNode(p)
  BY <1>1, <1>2, <1>12 DEF NewsInv, Counts, TimerInv, ReloadNode
<1>13. CASE LoseDio
  BY <1>1, <1>2, <1>13 DEF NewsInv, Counts, TimerInv, LoseDio
<1>14. CASE LoseDis
  BY <1>1, <1>2, <1>14 DEF NewsInv, Counts, TimerInv, LoseDis
<1>15. CASE CrashRoot
  BY <1>1, <1>2, <1>15 DEF NewsInv, Counts, TimerInv, CrashRoot
<1>16. CASE RestartRoot
  BY <1>1, <1>2, <1>16 DEF NewsInv, Counts, TimerInv, RestartRoot
<1>17. CASE RestartNode
  BY <1>1, <1>2, <1>17 DEF NewsInv, Counts, TimerInv, RestartNode
<1>18. CASE Tick
  BY <1>1, <1>2, <1>18 DEF NewsInv, Counts, TimerInv, Tick, Idle, Later
<1>19. CASE UNCHANGED vars
  BY <1>1, <1>2, <1>19 DEF NewsInv, Counts, TimerInv, vars
<1> QED
  BY <1>3, <1>4, <1>5, <1>6, <1>7, <1>8, <1>9, <1>10, <1>11, <1>12, <1>13,
     <1>14, <1>15, <1>16, <1>17, <1>18, <1>19
  DEF Next, Handlers

\* Silence grows only by DIOs that are lost or waiting.
LEMMA NextAlarm ==
  ASSUME LiveInv, AlarmInv, [Next]_vars
  PROVE  AlarmInv'
<1> USE DEF Off, Phase, rootVars, nodeVars, history, telling, Told
<1>1. /\ Periods \subseteq Nat \ {0} /\ Configured \in Periods
      /\ CheckInterval \in Nat \ {0}
  BY PeriodAssumption
<1>2. Counts /\ TimerInv
  BY DEF LiveInv
<1>3. /\ \A m \in Nat : \A p \in Periods :
           (m + 1) * p \in Nat /\ (m + 1 + 1) * p = (m + 1) * p + p
      /\ \A p \in Periods : (0 + 1) * p = p
  BY <1>1
<1>4. CASE RootTrickle
  BY <1>1, <1>2, <1>3, <1>4 DEF AlarmInv, Counts, TimerInv, RootTrickle
<1>5. CASE AnswerDis
  BY <1>1, <1>2, <1>3, <1>5 DEF AlarmInv, Counts, TimerInv, AnswerDis
<1>6. CASE SendDis
  BY <1>1, <1>2, <1>3, <1>6 DEF AlarmInv, Counts, TimerInv, SendDis
<1>7. CASE Join
  BY <1>1, <1>2, <1>3, <1>7 DEF AlarmInv, Counts, TimerInv, Join, Seen
<1>8. CASE Hear
  BY <1>1, <1>2, <1>3, <1>8 DEF AlarmInv, Counts, TimerInv, Hear, Seen
<1>9. CASE OwnTrickle
  BY <1>1, <1>2, <1>3, <1>9 DEF AlarmInv, Counts, TimerInv, OwnTrickle
<1>10. CASE CheckPasses
  BY <1>1, <1>2, <1>3, <1>10 DEF AlarmInv, Counts, TimerInv, CheckPasses
<1>11. CASE Invalidate
  BY <1>1, <1>2, <1>3, <1>11 DEF AlarmInv, Counts, TimerInv, Invalidate
<1>12. CASE \E p \in Periods : ReloadRoot(p)
  BY <1>1, <1>2, <1>3, <1>12 DEF AlarmInv, Counts, TimerInv, ReloadRoot
<1>13. CASE \E p \in Periods : ReloadNode(p)
  BY <1>1, <1>2, <1>3, <1>13 DEF AlarmInv, Counts, TimerInv, ReloadNode
<1>14. CASE LoseDio
  BY <1>1, <1>2, <1>3, <1>14 DEF AlarmInv, Counts, TimerInv, LoseDio
<1>15. CASE LoseDis
  BY <1>1, <1>2, <1>3, <1>15 DEF AlarmInv, Counts, TimerInv, LoseDis
<1>16. CASE CrashRoot
  BY <1>1, <1>2, <1>3, <1>16 DEF AlarmInv, Counts, TimerInv, CrashRoot
<1>17. CASE RestartRoot
  BY <1>1, <1>2, <1>3, <1>17 DEF AlarmInv, Counts, TimerInv, RestartRoot
<1>18. CASE RestartNode
  BY <1>1, <1>2, <1>3, <1>18 DEF AlarmInv, Counts, TimerInv, RestartNode
<1>19. CASE Tick
  BY <1>1, <1>2, <1>3, <1>19 DEF AlarmInv, Counts, TimerInv, Tick, Idle, Later
<1>20. CASE UNCHANGED vars
  BY <1>1, <1>2, <1>3, <1>20 DEF AlarmInv, Counts, TimerInv, vars
<1> QED
  BY <1>4, <1>5, <1>6, <1>7, <1>8, <1>9, <1>10, <1>11, <1>12, <1>13, <1>14,
     <1>15, <1>16, <1>17, <1>18, <1>19, <1>20
  DEF Next, Handlers

-----------------------------------------------------------------------------
\* The invariant that the others rest on.
LEMMA Live == Spec => []LiveInv
  BY InitLive, NextLive, PTL DEF Spec

\* Timers, silence, counters and histories keep their types: no timer runs
\* late, and the liveness check gives a parent up before its silence passes
\* the longest timeout and one check interval.
THEOREM Typing == Spec => []TypeOK
<1>1. LiveInv => TypeOK
  BY Zenon DEF LiveInv, Flags, Counts, TypeOK
<1> QED
  BY <1>1, Live, PTL

\* A parent that counts as valid was heard within its timeout and one check
\* interval, for all periods and reloads (parent_check_cb).
THEOREM SilencesBounded == Spec => []SilenceBounded
<1>1. LiveInv => SilenceBounded
  <2> SUFFICES ASSUME LiveInv, phase = "valid"
               PROVE  silence < Factor * patience + CheckInterval
    BY DEF SilenceBounded
  <2>1. /\ checkIn \in Nat /\ silence \in Nat
        /\ silence + checkIn < Factor * patience + CheckInterval
    BY PeriodAssumption
    DEF LiveInv, Counts, TimerInv, SilenceInv, Off
  <2>2. Factor * patience \in Nat /\ CheckInterval \in Nat
    BY PeriodAssumption, LongestBounds DEF LiveInv, Counts
  <2> QED
    BY <2>1, <2>2
<1> QED
  BY <1>1, Live, PTL

\* A node without a dag finds a root that stays up in a second, and one more
\* for each message lost (send_dis_cb).
THEOREM Joining == Spec => []JoinsSoon
<1>1. Init => JoinInv
  BY DEF Init, JoinInv
<1>2. JoinInv => JoinsSoon
  BY DEF JoinInv, JoinsSoon
<1> QED
  BY <1>1, <1>2, Live, NextJoin, PTL DEF Spec

\* The loss of a parent is told within the timeout and a check interval of the
\* parent's last DIO, and one new period more for each reload that comes first
\* (parent_check_cb resets the trickle timer, reload_cb sets it again).
THEOREM Announcing == Spec => []LossAnnounced
<1>1. Init => NewsInv
  BY DEF Init, NewsInv
<1>2. LiveInv /\ NewsInv => LossAnnounced
  <2> SUFFICES ASSUME LiveInv, NewsInv, news # Off
               PROVE  silence + news
                        <= Factor * patience + CheckInterval + postponed
    BY DEF LossAnnounced
  <2>1. /\ silence \in Nat /\ postponed \in Nat /\ news \in Int
        /\ Factor * patience \in Nat /\ CheckInterval \in Nat
    BY PeriodAssumption, LongestBounds DEF LiveInv, Counts
  <2>2. ownIn \in Nat /\ news + ownIn <= 1 + postponed
    BY PeriodAssumption DEF LiveInv, Counts, TimerInv, NewsInv, Off
  <2>3. silence < Factor * patience + CheckInterval
    BY DEF LiveInv, SilenceInv, NewsInv
  <2> QED
    BY <2>1, <2>2, <2>3
<1> QED
  BY <1>1, <1>2, Live, NextNews, PTL DEF Spec

\* What k periods cover is at most k periods long.
LEMMA DivBound ==
  ASSUME NEW a \in Nat, NEW b \in Nat \ {0}, NEW k \in Nat, a <= k * b
  PROVE  a \div b <= k
<1> DEFINE q == a \div b
<1>1. q \in Nat /\ b * q <= a
  OBVIOUS
<1> HIDE DEF q
<1> SUFFICES ASSUME q >= k + 1
             PROVE  FALSE
  BY <1>1 DEF q
<1>2. b * q >= b * (k + 1)
  BY <1>1
<1>3. b * (k + 1) = k * b + b
  OBVIOUS
<1> QED
  BY <1>1, <1>2, <1>3

\* A parent that is alive, with no period changed since it was heard, is
\* given up only after all the DIOs that fit in the timeout were lost but
\* one (parent_check_cb), whatever the periods of the two.
THEOREM NoFalseAlarms == Spec => NoFalseAlarm
<1> DEFINE Lost == phase = "valid" /\ phase' = "invalid" /\ steady =>
                     missed >= (Factor * period) \div rootPeriod - 1
<1>1. ASSUME LiveInv, AlarmInv, [Next]_vars
      PROVE  Lost
  <2> SUFFICES ASSUME phase = "valid", phase' = "invalid", steady
               PROVE  missed >= (Factor * period) \div rootPeriod - 1
    OBVIOUS
  <2>1. Invalidate
    BY <1>1 DEF Next, Handlers, RootTrickle, AnswerDis, SendDis, Join, Hear,
      OwnTrickle, CheckPasses, ReloadRoot, ReloadNode, LoseDio, LoseDis,
      CrashRoot, RestartRoot, RestartNode, Tick, vars, nodeVars
  <2>2. /\ period \in Periods /\ rootPeriod \in Nat \ {0}
        /\ missed \in Nat /\ silence \in Nat
    BY <1>1, PeriodAssumption DEF LiveInv, Counts
  <2>3. Factor * period \in Nat
    BY <2>2, LongestBounds
  <2>4. silence >= Factor * period /\ silence <= (missed + 1) * rootPeriod
    BY <1>1, <2>1 DEF Invalidate, Timeout, AlarmInv
  <2>5. (missed + 1) * rootPeriod \in Nat
    BY <2>2
  <2>6. Factor * period <= (missed + 1) * rootPeriod
    BY <2>2, <2>3, <2>4, <2>5
  <2>7. (Factor * period) \div rootPeriod <= missed + 1
    <3> DEFINE a == Factor * period
               k == missed + 1
    <3>1. k \in Nat
      BY <2>2
    <3> HIDE DEF a, k
    <3>2. a \in Nat /\ a <= k * rootPeriod
      BY <2>3, <2>6 DEF a, k
    <3>3. a \div rootPeriod <= k
      BY <2>2, <3>1, <3>2, DivBound
    <3> QED
      BY <3>3 DEF a, k
  <2>8. (Factor * period) \div rootPeriod \in Int
    BY <2>2, <2>3
  <2> QED
    BY <2>2, <2>7, <2>8
<1>2. ASSUME LiveInv, AlarmInv, [Next]_vars
      PROVE  [phase = "valid" /\ phase' = "invalid" /\ steady =>
                missed >= (Factor * period) \div rootPeriod - 1]_vars
  BY <1>1, <1>2
<1>3. Init => AlarmInv
  BY DEF Init, AlarmInv
<1> QED
  BY <1>2, <1>3, Live, NextAlarm, PTL DEF Spec, NoFalseAlarm

=============================================================================
