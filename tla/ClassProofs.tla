---------------------------- MODULE ClassProofs ----------------------------
(***************************************************************************)
(* Theorems about ClassControl, for every number of interfaces and senders *)
(* and all times, limits and message sizes.                                *)
(***************************************************************************)
EXTENDS ClassControl, FiniteSetTheorems, SequenceTheorems, TLAPS

LEMMA DivMonotone ==
  ASSUME NEW M \in Nat \ {0}, NEW a \in Nat, NEW b \in Nat, a <= b
  PROVE  a \div M \in Nat /\ a \div M <= b \div M
  BY Z3

LEMMA DivAdd ==
  ASSUME NEW M \in Nat \ {0}, NEW a \in Nat
  PROVE  (a + M) \div M = a \div M + 1
  BY Z3

LEMMA SubSeqType ==
  ASSUME NEW T, NEW q \in Seq(T), NEW k \in Nat, k <= Len(q)
  PROVE  /\ SubSeq(q, Len(q) - k + 1, Len(q)) \in Seq(T)
         /\ Len(SubSeq(q, Len(q) - k + 1, Len(q))) = k
  OBVIOUS

-----------------------------------------------------------------------------
\* The whole commands in the FIFO are what its length says.
FifoInv == unread \div MsgLen = Len(queue)

LEMMA ReadType ==
  ASSUME TypeOK, FifoInv, Read
  PROVE  unread' \in Nat /\ queue' \in Seq(Message) /\ FifoInv'
<1>1. unread' \in Nat /\ unread' <= unread /\ unread \in Nat
  BY FifoAssumption DEF TypeOK, Read
<1>2. /\ unread' \div MsgLen \in Nat
      /\ unread' \div MsgLen <= unread \div MsgLen
  BY <1>1, FifoAssumption, DivMonotone
<1> DEFINE k == unread' \div MsgLen
<1>3. queue' = SubSeq(queue, Len(queue) - k + 1, Len(queue))
  BY DEF Read
<1> HIDE DEF k
<1>4. k \in Nat /\ k <= Len(queue)
  BY <1>2 DEF k, FifoInv
<1>5. queue' \in Seq(Message) /\ Len(queue') = k
  BY <1>3, <1>4, SubSeqType DEF TypeOK
<1> QED
  BY <1>1, <1>5 DEF FifoInv, k

LEMMA AgesType ==
  ASSUME TypeOK
  PROVE  /\ AgeAll(recent) \subseteq 0..Minute
         /\ AgeAll(obeyed) \subseteq AgeAll(recent)
         /\ 0 \in 0..Minute
         /\ Elapsed \in 0..MinInterval
         /\ Older(sinceMinute, Minute + 1) \in 0..(Minute + 1)
         /\ Count \in 0..MaxPerMinute
<1>1. AgeAll(recent) \subseteq 0..Minute /\ 0 \in 0..Minute
  BY TimeAssumption DEF AgeAll
<1>2. AgeAll(obeyed) \subseteq AgeAll(recent)
  BY DEF TypeOK, AgeAll
<1>3. Elapsed \in 0..MinInterval
  <2>1. sinceSwitch \in Never..MinInterval /\ MinInterval \in Nat \ {0}
    BY TimeAssumption DEF TypeOK
  <2> QED
    BY <2>1 DEF Elapsed, Older, Never
<1>4. Older(sinceMinute, Minute + 1) \in 0..(Minute + 1)
  <2>1. sinceMinute \in 0..(Minute + 1) /\ Minute \in Nat
    BY TimeAssumption DEF TypeOK
  <2> QED
    BY <2>1 DEF Older
<1>5. Count \in 0..MaxPerMinute
  <2>1. switches \in 0..MaxPerMinute /\ 0 \in 0..MaxPerMinute
    BY TimeAssumption DEF TypeOK
  <2> HIDE DEF WindowExpired
  <2> QED
    BY <2>1 DEF Count
<1> QED
  BY <1>1, <1>2, <1>3, <1>4, <1>5

\* What each part of a poll leaves well-typed.
LEMMA MarksType ==
  ASSUME TypeOK, MarkSwitch \/ MarkNothing
  PROVE  /\ sinceSwitch' \in Never..MinInterval
         /\ recent' \subseteq 0..Minute
         /\ AgeAll(obeyed) \subseteq recent'
  BY AgesType, TimeAssumption DEF MarkSwitch, MarkNothing, Never

LEMMA ApplyType ==
  ASSUME TypeOK, NEW c \in Class, Apply(c)
  PROVE  /\ ifaceClass' \in [Iface -> Class]
         /\ dagClass' \in [Iface -> Class \cup {NoDag}]
  BY DEF TypeOK, Apply

LEMMA NonceType ==
  ASSUME TypeOK, NEW c \in Class, Yields(c), TokenLoaded
  PROVE  Head(queue).nonce \in 1..MaxCommands /\ Head(queue).nonce > lastNonce
<1>1. queue \in Seq(Message) /\ Len(queue) = 1
  BY DEF TypeOK, Yields, Authentic
<1>2. queue # <<>>
  BY <1>1
<1>3. Head(queue) \in Message
  BY <1>1, <1>2, HeadTailProperties
<1> QED
  BY <1>3 DEF Message, Yields, Authentic

LEMMA StoreType ==
  ASSUME TypeOK, NEW c \in Class, Yields(c), StoreNonce
  PROVE  lastNonce' \in 0..MaxCommands
<1>1. CASE TokenLoaded
  <2>1. Head(queue).nonce \in 1..MaxCommands
    BY <1>1, NonceType
  <2> QED
    BY <1>1, <2>1, FifoAssumption DEF StoreNonce
<1>2. CASE ~TokenLoaded
  BY <1>2 DEF TypeOK, StoreNonce
<1> QED
  BY <1>1, <1>2

LEMMA EngineType ==
  ASSUME TypeOK, RunEngine
  PROVE  /\ ifaceClass' \in [Iface -> Class]
         /\ dagClass' \in [Iface -> Class \cup {NoDag}]
         /\ pending' \in Class
         /\ counter' \in 0..(Hysteresis - 1)
         /\ MarkSwitch \/ MarkNothing
<1>1. CASE EngineOff
  BY <1>1 DEF TypeOK, EngineOff, classVars, engineVars
<1>2. CASE EngineAgrees
  BY <1>2, TimeAssumption DEF TypeOK, EngineAgrees, classVars
<1>3. CASE EngineWaits
  BY <1>3, TimeAssumption DEF TypeOK, EngineWaits, classVars, Votes
<1>4. CASE EngineDefers
  BY <1>4, TimeAssumption DEF TypeOK, EngineDefers, classVars
<1>5. CASE EngineSwitches
  <2>1. verdict \in Class
    BY DEF TypeOK
  <2> QED
    BY <1>5, <2>1, ApplyType, TimeAssumption DEF EngineSwitches
<1> QED
  BY <1>1, <1>2, <1>3, <1>4, <1>5 DEF RunEngine

LEMMA ObeyType ==
  ASSUME TypeOK, NEW c \in Class, Obey(c)
  PROVE  /\ ifaceClass' \in [Iface -> Class]
         /\ dagClass' \in [Iface -> Class \cup {NoDag}]
         /\ sinceSwitch' \in Never..MinInterval
         /\ sinceMinute' \in 0..(Minute + 1)
         /\ switches' \in 0..MaxPerMinute
         /\ lastNonce' \in 0..MaxCommands
         /\ pending' \in Class /\ counter' \in 0..(Hysteresis - 1)
         /\ recent' \subseteq 0..Minute /\ obeyed' \subseteq recent'
         /\ newest' \in 0..MaxCommands
<1>1. /\ ifaceClass' \in [Iface -> Class]
      /\ dagClass' \in [Iface -> Class \cup {NoDag}]
  BY ApplyType DEF Obey
<1>2. /\ sinceSwitch' \in Never..MinInterval
      /\ recent' \subseteq 0..Minute
      /\ obeyed' \subseteq recent'
  BY MarksType DEF Obey, MarkSwitch
<1>3. sinceMinute' \in 0..(Minute + 1)
  BY AgesType, TimeAssumption DEF Obey, StartWindow
<1>4. switches' \in 0..MaxPerMinute
  BY AgesType, TimeAssumption DEF Obey
<1>5. lastNonce' \in 0..MaxCommands
  BY StoreType DEF Obey
<1>6. newest' \in 0..MaxCommands
  <2>1. CASE TokenLoaded
    <3>1. Head(queue).nonce \in 1..MaxCommands
      BY <2>1, NonceType DEF Obey
    <3> QED
      BY <2>1, <3>1, FifoAssumption DEF Obey
  <2>2. CASE ~TokenLoaded
    BY <2>2 DEF TypeOK, Obey
  <2> QED
    BY <2>1, <2>2
<1>7. pending' \in Class /\ counter' \in 0..(Hysteresis - 1)
  BY DEF TypeOK, Obey, engineVars
<1> QED
  BY <1>1, <1>2, <1>3, <1>4, <1>5, <1>6, <1>7

LEMMA PollType ==
  ASSUME TypeOK, FifoInv, Poll
  PROVE  TypeOK' /\ FifoInv'
<1>1. unread' \in Nat /\ queue' \in Seq(Message) /\ FifoInv'
  BY ReadType DEF Poll
<1>2. /\ adaptive' \in BOOLEAN /\ verdict' \in Class
      /\ sinceEval' \in 0..EvalPeriod
      /\ stamped' \in [Sender -> Message \cup {NoMessage}]
      /\ nonce' \in 1..(MaxCommands + 1)
  BY TimeAssumption, FifoAssumption DEF TypeOK, Poll, senderVars
<1>3. CASE \E c \in Class : Obey(c)
  BY <1>1, <1>2, <1>3, ObeyType DEF TypeOK
<1>4. CASE /\ NoCommand \/ \E c \in Class : Limit(c)
           /\ RunEngine
           /\ obeyed' = AgeAll(obeyed)
           /\ UNCHANGED newest
  <2>1. /\ sinceMinute' \in 0..(Minute + 1)
        /\ switches' \in 0..MaxPerMinute
        /\ lastNonce' \in 0..MaxCommands
    <3>1. CASE NoCommand
      BY <3>1, AgesType DEF TypeOK, NoCommand
    <3>2. ASSUME NEW c \in Class, Limit(c)
          PROVE  /\ sinceMinute' \in 0..(Minute + 1)
                 /\ switches' \in 0..MaxPerMinute
                 /\ lastNonce' \in 0..MaxCommands
      BY <3>2, AgesType, StoreType, TimeAssumption DEF Limit, StartWindow
    <3> QED
      BY <1>4, <3>1, <3>2
  <2> QED
    BY <1>1, <1>2, <1>4, <2>1, EngineType, MarksType DEF TypeOK
<1> QED
  BY <1>3, <1>4 DEF Poll

LEMMA NextType == TypeOK /\ FifoInv /\ [Next]_vars => TypeOK' /\ FifoInv'
<1> SUFFICES ASSUME TypeOK, FifoInv, [Next]_vars PROVE TypeOK' /\ FifoInv'
  OBVIOUS
<1>1. ASSUME NEW s \in Sender, NEW c \in Class, Stamp(s, c)
      PROVE  TypeOK' /\ FifoInv'
  <2>1. [class |-> c, nonce |-> nonce] \in Message
    BY <1>1, FifoAssumption DEF TypeOK, Stamp, Message
  <2>2. stamped' \in [Sender -> Message \cup {NoMessage}]
    BY <1>1, <2>1 DEF TypeOK, Stamp
  <2>3. nonce' \in 1..(MaxCommands + 1)
    BY <1>1, FifoAssumption DEF TypeOK, Stamp
  <2>4. UNCHANGED <<classVars, limitVars, engineVars, evalVars, fifoVars,
                    historyVars>>
    BY <1>1 DEF Stamp
  <2>5. TypeOK'
    BY <2>2, <2>3, <2>4 DEF TypeOK, classVars, limitVars, engineVars,
       evalVars, fifoVars, historyVars
  <2>6. FifoInv'
    BY <2>4 DEF FifoInv, fifoVars
  <2> QED
    BY <2>5, <2>6
<1>2. ASSUME NEW s \in Sender, Write(s)
      PROVE  TypeOK' /\ FifoInv'
  <2>1. stamped[s] \in Message
    BY <1>2 DEF TypeOK, Write
  <2>2. queue' \in Seq(Message) /\ Len(queue') = Len(queue) + 1
    BY <1>2, <2>1 DEF TypeOK, Write
  <2>3. unread' \in Nat /\ unread' \div MsgLen = unread \div MsgLen + 1
    <3>1. unread \in Nat /\ MsgLen \in Nat \ {0}
      BY FifoAssumption DEF TypeOK
    <3>2. unread' = unread + MsgLen
      BY <1>2 DEF Write
    <3>3. (unread + MsgLen) \div MsgLen = unread \div MsgLen + 1
      BY <3>1, DivAdd
    <3> QED
      BY <3>1, <3>2, <3>3
  <2>4. stamped' \in [Sender -> Message \cup {NoMessage}]
    BY <1>2 DEF TypeOK, Write
  <2>5. UNCHANGED <<classVars, limitVars, engineVars, evalVars, nonce,
                    historyVars>>
    BY <1>2 DEF Write
  <2> QED
    BY <2>2, <2>3, <2>4, <2>5 DEF TypeOK, FifoInv, classVars, limitVars,
       engineVars, evalVars, historyVars
<1>3. ASSUME NEW i \in Iface, CreateDag(i)
      PROVE  TypeOK' /\ FifoInv'
  <2>1. dagClass' \in [Iface -> Class \cup {NoDag}]
    BY <1>3 DEF TypeOK, CreateDag
  <2>2. UNCHANGED <<ifaceClass, limitVars, engineVars, evalVars, fifoVars,
                    senderVars, historyVars>>
    BY <1>3 DEF CreateDag
  <2> QED
    BY <2>1, <2>2 DEF TypeOK, FifoInv, limitVars, engineVars, evalVars,
       fifoVars, senderVars, historyVars
<1>4. ASSUME NEW v \in Class, Evaluate(v) \/ RecordDao(v)
      PROVE  TypeOK' /\ FifoInv'
  <2>1. /\ adaptive' \in BOOLEAN /\ verdict' \in Class
        /\ sinceEval' \in 0..EvalPeriod
    BY <1>4, TimeAssumption DEF TypeOK, Evaluate, RecordDao
  <2>2. UNCHANGED <<adaptive, classVars, limitVars, engineVars, fifoVars,
                    senderVars, historyVars>>
    BY <1>4 DEF Evaluate, RecordDao
  <2> QED
    BY <2>1, <2>2 DEF TypeOK, FifoInv, classVars, limitVars, engineVars,
       fifoVars, senderVars, historyVars
<1>5. CASE Poll
  BY <1>5, PollType
<1>6. CASE UNCHANGED vars
  BY <1>6 DEF TypeOK, FifoInv, vars, classVars, limitVars, engineVars,
     evalVars, fifoVars, senderVars, historyVars
<1> QED
  BY <1>1, <1>2, <1>3, <1>4, <1>5, <1>6 DEF Next

LEMMA InitType == Init => TypeOK /\ FifoInv
<1> SUFFICES ASSUME Init PROVE TypeOK /\ FifoInv
  OBVIOUS
<1>1. 0 \div MsgLen = 0
  BY FifoAssumption, Z3
<1>2. queue \in Seq(Message) /\ Len(queue) = 0
  BY DEF Init
<1> QED
  BY <1>1, <1>2, TimeAssumption, FifoAssumption
  DEF Init, TypeOK, FifoInv, Class, Never

\* Counters, ages, nonces and the FIFO keep their types, for all sizes.
THEOREM Typing == Spec => [](TypeOK /\ FifoInv)
  BY InitType, NextType, PTL DEF Spec

-----------------------------------------------------------------------------
(***************************************************************************)
(* Spacing follows from what sinceSwitch means: no switch is younger.      *)
(***************************************************************************)
SpacingInv ==
  /\ Spacing
  /\ sinceSwitch = Never => recent = {}
  /\ \A x \in recent : sinceSwitch <= x

LEMMA MarksSpacing ==
  ASSUME TypeOK, SpacingInv, MarkNothing \/ (MarkSwitch /\ ~TooSoon)
  PROVE  SpacingInv'
<1>1. /\ sinceSwitch \in Never..MinInterval /\ MinInterval \in Nat \ {0}
      /\ recent \subseteq 0..Minute /\ Minute \in Nat
  BY TimeAssumption DEF TypeOK
<1>2. \A x \in AgeAll(recent) : x \in Int /\ x - 1 \in recent
  BY <1>1 DEF AgeAll
<1>3. \A x, y \in AgeAll(recent) : x < y => y - x >= MinInterval
  <2> SUFFICES ASSUME NEW x \in AgeAll(recent), NEW y \in AgeAll(recent), x < y
               PROVE  y - x >= MinInterval
    OBVIOUS
  <2>1. (y - 1) - (x - 1) >= MinInterval
    BY <1>2 DEF SpacingInv, Spacing
  <2> QED
    BY <1>1, <1>2, <2>1
<1>4. sinceSwitch # Never => \A x \in AgeAll(recent) : Elapsed <= x
  BY <1>1, <1>2 DEF SpacingInv, Elapsed, Older, Never
<1>5. sinceSwitch = Never => AgeAll(recent) = {}
  BY <1>2 DEF SpacingInv
<1>6. CASE MarkNothing
  BY <1>1, <1>3, <1>4, <1>5, <1>6, AgesType
  DEF MarkNothing, SpacingInv, Spacing, Never
<1>7. CASE MarkSwitch /\ ~TooSoon
  <2>1. \A x \in AgeAll(recent) : MinInterval <= x
    BY <1>1, <1>2, <1>4, <1>5, <1>7, AgesType DEF TooSoon
  <2> QED
    BY <1>1, <1>2, <1>3, <1>7, <2>1 DEF MarkSwitch, SpacingInv, Spacing, Never
<1> QED
  BY <1>6, <1>7

LEMMA PollMarks ==
  ASSUME Poll
  PROVE  MarkNothing \/ (MarkSwitch /\ ~TooSoon)
  BY DEF Poll, Obey, RunEngine, EngineOff, EngineAgrees, EngineWaits,
     EngineDefers, EngineSwitches

LEMMA NextSpacing == TypeOK /\ SpacingInv /\ [Next]_vars => SpacingInv'
<1> SUFFICES ASSUME TypeOK, SpacingInv, [Next]_vars PROVE SpacingInv'
  OBVIOUS
<1>1. CASE Poll
  BY <1>1, PollMarks, MarksSpacing
<1>2. CASE UNCHANGED <<sinceSwitch, recent>>
  BY <1>2 DEF SpacingInv, Spacing
<1>3. Poll \/ UNCHANGED <<sinceSwitch, recent>>
  BY DEF Next, Stamp, Write, CreateDag, Evaluate, RecordDao, vars, limitVars,
     historyVars
<1> QED
  BY <1>1, <1>2, <1>3

\* Whatever the times are, and however commands and the engine interleave,
\* two switches are never closer than the minimal interval.
THEOREM SwitchesSpaced == Spec => []Spacing
<1>1. Init => SpacingInv
  BY DEF Init, SpacingInv, Spacing
<1>2. SpacingInv => Spacing
  BY DEF SpacingInv
<1> QED
  BY <1>1, <1>2, NextSpacing, Typing, PTL DEF Spec

-----------------------------------------------------------------------------
AgreeOn(c) ==
  /\ \A i \in Iface : ifaceClass[i] = c
  /\ \A i \in HasDag : dagClass[i] = c

LEMMA ApplyAgrees ==
  ASSUME TypeOK, NEW c \in Class, Apply(c)
  PROVE  ClassAgreement'
<1>1. AgreeOn(c)'
  BY DEF AgreeOn, Apply, HasDag
<1> QED
  BY <1>1 DEF ClassAgreement, AgreeOn

LEMMA NextAgreement == TypeOK /\ ClassAgreement /\ [Next]_vars => ClassAgreement'
<1> SUFFICES ASSUME TypeOK, ClassAgreement, [Next]_vars PROVE ClassAgreement'
  OBVIOUS
<1>1. ASSUME NEW c \in Class, Apply(c) PROVE ClassAgreement'
  BY <1>1, ApplyAgrees
<1>2. CASE UNCHANGED classVars /\ (sinceSwitch = Never => sinceSwitch' = Never)
  BY <1>2 DEF ClassAgreement, classVars, HasDag
<1>3. ASSUME NEW i \in Iface, CreateDag(i)
      PROVE  ClassAgreement'
  <2>1. CASE sinceSwitch = Never
    BY <1>3, <2>1 DEF CreateDag, limitVars, ClassAgreement
  <2>2. CASE sinceSwitch # Never
    <3>1. PICK c \in Class : AgreeOn(c)
      BY <2>2 DEF ClassAgreement, AgreeOn
    <3>2. AgreeOn(c)'
      BY <1>3, <3>1 DEF CreateDag, AgreeOn, HasDag, TypeOK
    <3> QED
      BY <3>2 DEF ClassAgreement, AgreeOn
  <2> QED
    BY <2>1, <2>2
<1>4. \/ \E c \in Class : Apply(c)
      \/ UNCHANGED classVars /\ (sinceSwitch = Never => sinceSwitch' = Never)
      \/ \E i \in Iface : CreateDag(i)
  <2>1. CASE Poll
    <3>1. ASSUME NEW c \in Class, Obey(c) PROVE \E d \in Class : Apply(d)
      BY <3>1 DEF Obey
    <3>2. CASE RunEngine
      BY <3>2 DEF RunEngine, EngineOff, EngineAgrees, EngineWaits,
         EngineDefers, EngineSwitches, MarkNothing, TypeOK
    <3> QED
      BY <2>1, <3>1, <3>2 DEF Poll
  <2>2. CASE ~Poll
    BY <2>2 DEF Next, Stamp, Write, Evaluate, RecordDao, vars, limitVars
  <2> QED
    BY <2>1, <2>2
<1> QED
  BY <1>1, <1>2, <1>3, <1>4

\* For every number of interfaces: once a class was applied, no interface and
\* no dag ever has another one than the rest.
THEOREM ClassesAgree == Spec => []ClassAgreement
<1>1. Init => ClassAgreement
  BY DEF Init, ClassAgreement
<1> QED
  BY <1>1, NextAgreement, Typing, PTL DEF Spec

-----------------------------------------------------------------------------
NonceInv == newest <= lastNonce

LEMMA NextNonce ==
  TypeOK /\ NonceInv /\ [Next]_vars
    => NonceInv' /\ (newest' # newest => newest' > newest)
<1> SUFFICES ASSUME TypeOK, NonceInv, [Next]_vars
             PROVE  NonceInv' /\ (newest' # newest => newest' > newest)
  OBVIOUS
<1>0. newest \in Nat /\ lastNonce \in Nat /\ newest <= lastNonce
  BY FifoAssumption DEF TypeOK, NonceInv
<1>1. ASSUME NEW c \in Class, Obey(c)
      PROVE  NonceInv' /\ (newest' # newest => newest' > newest)
  <2>1. CASE TokenLoaded
    <3>1. Head(queue).nonce \in Nat /\ Head(queue).nonce > lastNonce
      BY <1>1, <2>1, NonceType, FifoAssumption DEF Obey
    <3> QED
      BY <1>0, <1>1, <2>1, <3>1 DEF Obey, StoreNonce, NonceInv
  <2>2. CASE ~TokenLoaded
    BY <1>0, <1>1, <2>2 DEF Obey, StoreNonce, NonceInv
  <2> QED
    BY <2>1, <2>2
<1>2. ASSUME NEW c \in Class, Limit(c), UNCHANGED newest
      PROVE  NonceInv'
  <2>1. CASE TokenLoaded
    <3>1. Head(queue).nonce \in Nat /\ Head(queue).nonce > lastNonce
      BY <1>2, <2>1, NonceType, FifoAssumption DEF Limit
    <3> QED
      BY <1>0, <1>2, <2>1, <3>1 DEF Limit, StoreNonce, NonceInv
  <2>2. CASE ~TokenLoaded
    BY <1>0, <1>2, <2>2 DEF Limit, StoreNonce, NonceInv
  <2> QED
    BY <2>1, <2>2
<1>3. CASE UNCHANGED <<newest, lastNonce>>
  BY <1>0, <1>3 DEF NonceInv
<1>4. \/ UNCHANGED <<newest, lastNonce>>
      \/ \E c \in Class : Obey(c)
      \/ UNCHANGED newest /\ \E c \in Class : Limit(c)
  BY DEF Next, Stamp, Write, CreateDag, Evaluate, RecordDao, Poll, NoCommand,
     vars, limitVars, historyVars
<1> QED
  BY <1>1, <1>2, <1>3, <1>4

\* However the writes of hymrpl_cmd processes are reordered, an obeyed command
\* is newer than all those obeyed before.
THEOREM LaterWins == Spec => LaterCommandWins
<1>1. Init => NonceInv
  BY DEF Init, NonceInv
<1>2. TypeOK /\ NonceInv /\ [Next]_vars => [newest' # newest => newest' > newest]_vars
  BY NextNonce
<1>3. Spec => []NonceInv
  BY <1>1, NextNonce, Typing, PTL DEF Spec
<1> QED
  BY <1>2, <1>3, Typing, PTL DEF Spec, LaterCommandWins

-----------------------------------------------------------------------------
(***************************************************************************)
(* The counter bounds the obeyed commands of its window.  An age grows by  *)
(* one in every poll, and so does the window's, so the commands within the *)
(* window stay the same ones until a new command is counted.               *)
(***************************************************************************)
InWindow == {x \in obeyed : x <= sinceMinute}

BudgetInv == Cardinality(InWindow) <= switches

LEMMA WindowFinite ==
  ASSUME TypeOK
  PROVE  /\ IsFiniteSet(InWindow)
         /\ Cardinality(InWindow) \in Nat
<1>1. IsFiniteSet(0..Minute)
  BY TimeAssumption, FS_Interval
<1>2. InWindow \in SUBSET (0..Minute)
  BY DEF InWindow, TypeOK
<1> QED
  BY <1>1, <1>2, FS_Subset, FS_CardinalityType

\* Ageing brings nothing into a set of ages that grows with it.
LEMMA AgedSubset ==
  ASSUME TypeOK, NEW w \in Nat, w <= sinceMinute + 1
  PROVE  LET old == {x \in AgeAll(obeyed) : x <= w}
         IN  IsFiniteSet(old) /\ Cardinality(old) <= Cardinality(InWindow)
<1> DEFINE old == {x \in AgeAll(obeyed) : x <= w}
           younger == [x \in old |-> x - 1]
<1>1. obeyed \subseteq 0..Minute /\ Minute \in Nat /\ sinceMinute \in Nat
  BY TimeAssumption DEF TypeOK
<1>2. \A x \in old : x \in Int /\ x - 1 \in InWindow
  BY <1>1 DEF AgeAll, InWindow
<1>3. younger \in Injection(old, InWindow)
  BY <1>2 DEF Injection, IsInjective
<1> QED
  BY <1>3, WindowFinite, FS_Injection

LEMMA PollBudget ==
  ASSUME TypeOK, BudgetInv, Poll
  PROVE  BudgetInv'
<1> DEFINE kept == {x \in AgeAll(obeyed) : x <= sinceMinute'}
<1>1. /\ sinceMinute \in 0..(Minute + 1) /\ Minute \in Nat \ {0}
      /\ switches \in Nat /\ Count \in Nat
  BY TimeAssumption DEF TypeOK, Count
<1>2. \A x \in AgeAll(obeyed) : x \in Nat /\ x >= 1
  BY <1>1 DEF AgeAll
<1>3. ASSUME StartWindow
      PROVE  IsFiniteSet(kept) /\ Cardinality(kept) <= Count /\ sinceMinute' \in Nat
  <2>1. CASE WindowExpired
    <3>1. sinceMinute' = 0
      BY <1>3, <2>1 DEF StartWindow
    <3>2. kept = {}
      BY <3>1, <1>2
    <3> QED
      BY <3>1, <3>2, <1>1, FS_EmptySet
  <2>2. CASE ~WindowExpired
    <3>1. sinceMinute' \in Nat /\ sinceMinute' <= sinceMinute + 1
      BY <1>1, <1>3, <2>2 DEF StartWindow, Older
    <3>2. IsFiniteSet(kept) /\ Cardinality(kept) <= Cardinality(InWindow)
      BY <3>1, AgedSubset
    <3>3. Cardinality(kept) \in Nat /\ Cardinality(InWindow) \in Nat
      BY <3>2, WindowFinite, FS_CardinalityType
    <3> QED
      BY <1>1, <2>2, <3>1, <3>2, <3>3 DEF BudgetInv, Count
  <2> QED
    BY <2>1, <2>2
<1>4. ASSUME NEW c \in Class, Obey(c)
      PROVE  BudgetInv'
  <2>1. IsFiniteSet(kept) /\ Cardinality(kept) <= Count /\ sinceMinute' \in Nat
    BY <1>3, <1>4 DEF Obey
  <2>2. InWindow' = kept \cup {0}
    BY <1>4, <2>1 DEF Obey, InWindow
  <2>3. 0 \notin kept
    BY <1>2
  <2>4. Cardinality(kept \cup {0}) = Cardinality(kept) + 1
    BY <2>1, <2>3, FS_AddElement
  <2>5. Cardinality(kept) \in Nat
    BY <2>1, FS_CardinalityType
  <2>6. switches' = Count + 1
    BY <1>4 DEF Obey
  <2> QED
    BY <1>1, <2>1, <2>2, <2>4, <2>5, <2>6 DEF BudgetInv
<1>5. ASSUME NEW c \in Class, Limit(c), obeyed' = AgeAll(obeyed)
      PROVE  BudgetInv'
  <2>1. Cardinality(kept) <= Count
    BY <1>3, <1>5 DEF Limit
  <2>2. InWindow' = kept
    BY <1>5 DEF InWindow
  <2> QED
    BY <1>5, <2>1, <2>2 DEF Limit, BudgetInv
<1>6. ASSUME NoCommand, obeyed' = AgeAll(obeyed)
      PROVE  BudgetInv'
  <2>1. sinceMinute' \in Nat /\ sinceMinute' <= sinceMinute + 1
    BY <1>1, <1>6 DEF NoCommand, Older
  <2>2. IsFiniteSet(kept) /\ Cardinality(kept) <= Cardinality(InWindow)
    BY <2>1, AgedSubset
  <2>3. Cardinality(kept) \in Nat /\ Cardinality(InWindow) \in Nat
    BY <2>2, WindowFinite, FS_CardinalityType
  <2>4. InWindow' = kept
    BY <1>6 DEF InWindow
  <2>5. switches' = switches
    BY <1>6 DEF NoCommand
  <2> QED
    BY <1>1, <2>2, <2>3, <2>4, <2>5 DEF BudgetInv
<1> QED
  BY <1>4, <1>5, <1>6 DEF Poll

LEMMA NextBudget == TypeOK /\ BudgetInv /\ [Next]_vars => BudgetInv'
<1> SUFFICES ASSUME TypeOK, BudgetInv, [Next]_vars PROVE BudgetInv'
  OBVIOUS
<1>1. CASE Poll
  BY <1>1, PollBudget
<1>2. CASE UNCHANGED <<obeyed, sinceMinute, switches>>
  BY <1>2 DEF BudgetInv, InWindow
<1> QED
  BY <1>1, <1>2 DEF Next, Stamp, Write, CreateDag, Evaluate, RecordDao, vars,
     limitVars, historyVars

\* For all limits and times: no window of the counter holds more obeyed
\* commands than the limit, although nothing but a command renews it.
THEOREM BudgetKept == Spec => []WindowBudget
<1>1. Init => BudgetInv
  BY FS_EmptySet DEF Init, BudgetInv, InWindow
<1>2. TypeOK /\ BudgetInv => WindowBudget
  <2> SUFFICES ASSUME TypeOK, BudgetInv PROVE WindowBudget
    OBVIOUS
  <2>1. switches \in Nat /\ MaxPerMinute \in Nat /\ switches <= MaxPerMinute
    BY TimeAssumption DEF TypeOK
  <2> QED
    BY <2>1, WindowFinite DEF BudgetInv, WindowBudget, InWindow
<1> QED
  BY <1>1, <1>2, NextBudget, Typing, PTL DEF Spec

=============================================================================
