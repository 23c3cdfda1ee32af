---------------------------- MODULE ClassControl ----------------------------
(***************************************************************************)
(* How one rpld daemon changes its class, S or N.  Once a second           *)
(* hymrpl_periodic_cb first reads the command FIFO (hymrpl_fifo_sec_check) *)
(* and, if no command was obeyed, asks the adaptive engine                 *)
(* (hymrpl_adaptive_get_recommendation).  Both apply a class to every      *)
(* interface and dag, and share last_switch_time.  Around the daemon:      *)
(* hymrpl_cmd processes that stamp a command with the time and then write  *)
(* it, the 5-second evaluation and the DAO results that move the engine's  *)
(* verdict, and process_dio, which creates dags.                           *)
(*                                                                         *)
(* Times are ages in polls, and an age stops growing where the code no     *)
(* longer tells it from a greater one.                                     *)
(***************************************************************************)
EXTENDS Integers, Sequences, FiniteSets

CONSTANTS
  Iface,         \* interfaces, numbered in the order of the ifaces list
  Sender,        \* hymrpl_cmd processes
  NoDag,         \* an interface without a dag
  NoMessage,     \* a sender that has nothing to write
  TokenLoaded,   \* sec->token_loaded
  MinInterval,   \* HYMRPL_MIN_SWITCH_INTERVAL
  Minute,        \* the 60 seconds of the switch counter's window
  MaxPerMinute,  \* HYMRPL_MAX_SWITCHES_PER_MIN
  Hysteresis,    \* HYMRPL_HYSTERESIS_CYCLES
  EvalPeriod,    \* HYMRPL_ADAPTIVE_INTERVAL
  MsgLen,        \* bytes of a command
  BufMax,        \* bytes one read takes, HYMRPL_FIFO_MSG_MAX - 1
  MaxCommands    \* bound on the commands that are stamped

Class == {"S", "N"}
Never == -1      \* last_switch_time is still 0

ASSUME IfaceAssumption == Iface \subseteq Nat /\ NoDag \notin Class
ASSUME TimeAssumption ==
  /\ MinInterval \in Nat \ {0} /\ Minute \in Nat \ {0} /\ EvalPeriod \in Nat \ {0}
  /\ MaxPerMinute \in Nat \ {0} /\ Hysteresis \in Nat \ {0}
ASSUME FifoAssumption ==
  /\ MsgLen \in Nat \ {0} /\ BufMax \in Nat /\ MsgLen <= BufMax
  /\ MaxCommands \in Nat /\ TokenLoaded \in BOOLEAN
  /\ ~TokenLoaded => MaxCommands * MsgLen <= BufMax

VARIABLES
  ifaceClass,   \* iface->node_class
  dagClass,     \* node_class of the interface's dag, or NoDag
  sinceSwitch,  \* age of last_switch_time, or Never
  sinceMinute,  \* age of minute_start
  switches,     \* switches_this_minute
  lastNonce,    \* last_nonce
  pending,      \* adp->pending_class
  counter,      \* adp->hysteresis_counter
  adaptive,     \* g_adaptive_enabled: some interface is not a root's
  verdict,      \* what adaptive_decide returns
  sinceEval,    \* age of the latest adaptive_eval_cb
  unread,       \* bytes in the FIFO
  queue,        \* the commands that are whole in the FIFO
  stamped,      \* the command a sender has stamped and not yet written
  nonce,        \* the clock that stamps commands
  recent,       \* history: ages of the switches of the last minute
  obeyed,       \* history: ages of those that obeyed a command
  newest        \* history: nonce of the command obeyed last

classVars == <<ifaceClass, dagClass>>
limitVars == <<sinceSwitch, sinceMinute, switches, lastNonce>>
engineVars == <<pending, counter>>
evalVars == <<adaptive, verdict, sinceEval>>
fifoVars == <<unread, queue>>
senderVars == <<stamped, nonce>>
historyVars == <<recent, obeyed, newest>>
vars == <<classVars, limitVars, engineVars, evalVars, fifoVars, senderVars,
          historyVars>>

Message == [class : Class, nonce : 1..MaxCommands]

TypeOK ==
  /\ ifaceClass \in [Iface -> Class]
  /\ dagClass \in [Iface -> Class \cup {NoDag}]
  /\ sinceSwitch \in Never..MinInterval
  /\ sinceMinute \in 0..(Minute + 1)
  /\ switches \in 0..MaxPerMinute
  /\ lastNonce \in 0..MaxCommands
  /\ pending \in Class
  /\ counter \in 0..(Hysteresis - 1)
  /\ adaptive \in BOOLEAN
  /\ verdict \in Class
  /\ sinceEval \in 0..EvalPeriod
  /\ unread \in Nat
  /\ queue \in Seq(Message)
  /\ stamped \in [Sender -> Message \cup {NoMessage}]
  /\ nonce \in 1..(MaxCommands + 1)
  /\ recent \subseteq 0..Minute
  /\ obeyed \subseteq recent
  /\ newest \in 0..MaxCommands

Older(age, cap) == IF age < cap THEN age + 1 ELSE cap

-----------------------------------------------------------------------------
(* main: the classes are read from the configuration, per interface and    *)
(* per configured dag; the engine starts from perfect scores.              *)

Init ==
  /\ ifaceClass \in [Iface -> Class]
  /\ dagClass \in [Iface -> Class \cup {NoDag}]
  /\ sinceSwitch = Never /\ sinceMinute = 0 /\ switches = 0 /\ lastNonce = 0
  /\ pending = "S" /\ counter = 0
  /\ adaptive \in BOOLEAN /\ verdict = "S" /\ sinceEval = 0
  /\ unread = 0 /\ queue = <<>>
  /\ stamped = [s \in Sender |-> NoMessage] /\ nonce = 1
  /\ recent = {} /\ obeyed = {} /\ newest = 0

\* hymrpl_cmd takes the time as nonce, and writes the command later.
Stamp(s, c) ==
  /\ stamped[s] = NoMessage /\ nonce <= MaxCommands
  /\ stamped' = [stamped EXCEPT ![s] = [class |-> c, nonce |-> nonce]]
  /\ nonce' = nonce + 1
  /\ UNCHANGED <<classVars, limitVars, engineVars, evalVars, fifoVars,
                 historyVars>>

Write(s) ==
  /\ stamped[s] # NoMessage
  /\ unread' = unread + MsgLen
  /\ queue' = Append(queue, stamped[s])
  /\ stamped' = [stamped EXCEPT ![s] = NoMessage]
  /\ UNCHANGED <<classVars, limitVars, engineVars, evalVars, nonce,
                 historyVars>>

\* process_dio creates a dag with its interface's class.
CreateDag(i) ==
  /\ dagClass[i] = NoDag
  /\ dagClass' = [dagClass EXCEPT ![i] = ifaceClass[i]]
  /\ UNCHANGED <<ifaceClass, limitVars, engineVars, evalVars, fifoVars,
                 senderVars, historyVars>>

\* adaptive_eval_cb: new energy and stability readings move the score to
\* either side of the threshold.
Evaluate(v) ==
  /\ adaptive /\ sinceEval = EvalPeriod
  /\ verdict' = v
  /\ sinceEval' = 0
  /\ UNCHANGED <<adaptive, classVars, limitVars, engineVars, fifoVars,
                 senderVars, historyVars>>

\* hymrpl_adaptive_record_dao: another PDR may move it between evaluations
\* too, for adaptive_decide reads the PDR at every poll.
RecordDao(v) ==
  /\ adaptive
  /\ verdict' = v
  /\ UNCHANGED <<adaptive, sinceEval, classVars, limitVars, engineVars,
                 fifoVars, senderVars, historyVars>>

-----------------------------------------------------------------------------
(* The second that has passed at the time of a poll.                       *)

Elapsed == IF sinceSwitch = Never THEN MinInterval
           ELSE Older(sinceSwitch, MinInterval)

AgeAll(S) == {x \in 1..Minute : x - 1 \in S}

\* The counter and the age of its window: both start again, but only when a
\* command arrives and finds the window older than a minute.
WindowExpired == Older(sinceMinute, Minute + 1) > Minute
Count == IF WindowExpired THEN 0 ELSE switches

TooSoon == Elapsed < MinInterval

-----------------------------------------------------------------------------
(* hymrpl_fifo_sec_check.                                                  *)

\* One read takes what there is, up to the size of the buffer.  Whole
\* commands are left only behind the bytes that were taken.
Read ==
  /\ unread' = IF unread > BufMax THEN unread - BufMax ELSE 0
  /\ queue' = LET left == unread' \div MsgLen
              IN  SubSeq(queue, Len(queue) - left + 1, Len(queue))

NoNonceCheck == unread = MsgLen /\ Len(queue) = 1  \* mutant

\* The bytes are one command (verify_hmac wants no less and no more) with a
\* nonce that is new.
Authentic ==
  /\ unread = MsgLen /\ Len(queue) = 1
  /\ Head(queue).nonce > lastNonce

\* The command the read yields, if any.  Without a token the bytes may hold
\* several commands, and strstr looks for CLASS_N first.
Yields(c) ==
  IF TokenLoaded
    THEN Authentic /\ c = Head(queue).class
    ELSE /\ queue # <<>>
         /\ (c = "N") <=> \E k \in DOMAIN queue : queue[k].class = "N"

\* mutant: a dag takes the class, its interface keeps the old one
ApplyToDags(c) ==
  /\ dagClass' = [i \in Iface |-> IF dagClass[i] = NoDag THEN NoDag ELSE c]
  /\ UNCHANGED ifaceClass

Apply(c) ==
  /\ ifaceClass' = [i \in Iface |-> c]
  /\ dagClass' = [i \in Iface |-> IF dagClass[i] = NoDag THEN NoDag ELSE c]

\* last_switch_time = now
MarkSwitch == sinceSwitch' = 0 /\ recent' = AgeAll(recent) \cup {0}

MarkNothing ==
  /\ sinceSwitch' = IF sinceSwitch = Never THEN Never ELSE Elapsed
  /\ recent' = AgeAll(recent)

\* mutant: a deferred switch counts as one
MarkDeferred == sinceSwitch' = 0 /\ recent' = AgeAll(recent)

StoreNonce == lastNonce' = IF TokenLoaded THEN Head(queue).nonce ELSE lastNonce

StartWindow ==
  sinceMinute' = IF WindowExpired THEN 0 ELSE Older(sinceMinute, Minute + 1)

\* mutant: the command is not counted
ObeyUncounted(c) ==
  /\ Yields(c) /\ Count < MaxPerMinute /\ ~TooSoon
  /\ Apply(c) /\ MarkSwitch /\ StoreNonce /\ StartWindow
  /\ switches' = Count
  /\ obeyed' = AgeAll(obeyed) \cup {0}
  /\ newest' = IF TokenLoaded THEN Head(queue).nonce ELSE newest
  /\ UNCHANGED engineVars

\* The command is applied, and the engine is not asked in this second.
Obey(c) ==
  /\ Yields(c) /\ Count < MaxPerMinute /\ ~TooSoon
  /\ Apply(c) /\ MarkSwitch /\ StoreNonce /\ StartWindow
  /\ switches' = Count + 1
  /\ obeyed' = AgeAll(obeyed) \cup {0}
  /\ newest' = IF TokenLoaded THEN Head(queue).nonce ELSE newest
  /\ UNCHANGED engineVars

\* The command comes too early or too often: it is dropped, its nonce used up.
Limit(c) ==
  /\ Yields(c) /\ (Count >= MaxPerMinute \/ TooSoon)
  /\ StoreNonce /\ StartWindow
  /\ switches' = Count

\* Nothing to read, or nothing that passes for a command.
NoCommand ==
  /\ \A c \in Class : ~Yields(c)
  /\ sinceMinute' = Older(sinceMinute, Minute + 1)
  /\ UNCHANGED <<switches, lastNonce>>

-----------------------------------------------------------------------------
(* hymrpl_adaptive_get_recommendation, and what the caller does with it.   *)

HasDag == {i \in Iface : dagClass[i] # NoDag}

\* The class of the first dag in the lists, S if there is none.
CurrentClass ==
  IF HasDag = {} THEN "S"
  ELSE dagClass[CHOOSE i \in HasDag : \A j \in HasDag : i <= j]

\* How many polls in a row, this one included, ask for the verdict.
Votes == IF pending = verdict THEN counter + 1 ELSE 1

EngineOff == ~adaptive /\ MarkNothing /\ UNCHANGED <<classVars, engineVars>>

EngineAgrees ==
  /\ adaptive /\ verdict = CurrentClass
  /\ counter' = 0
  /\ MarkNothing
  /\ UNCHANGED <<classVars, pending>>

\* mutant: one more cycle than the hysteresis asks for
EngineWaitsLonger ==
  /\ adaptive /\ verdict # CurrentClass /\ Votes <= Hysteresis
  /\ pending' = verdict /\ counter' = Votes
  /\ MarkNothing
  /\ UNCHANGED classVars

EngineWaits ==
  /\ adaptive /\ verdict # CurrentClass /\ Votes < Hysteresis
  /\ pending' = verdict /\ counter' = Votes
  /\ MarkNothing
  /\ UNCHANGED classVars

\* mutant: see MarkDeferred
EnginePostpones ==
  /\ adaptive /\ verdict # CurrentClass /\ Votes >= Hysteresis
  /\ pending' = verdict /\ counter' = 0
  /\ TooSoon
  /\ MarkDeferred
  /\ UNCHANGED classVars

\* The hysteresis is met and starts again, but the switch is deferred.
EngineDefers ==
  /\ adaptive /\ verdict # CurrentClass /\ Votes >= Hysteresis
  /\ pending' = verdict /\ counter' = 0
  /\ TooSoon
  /\ MarkNothing
  /\ UNCHANGED classVars

\* mutant: last_switch_time is left to the FIFO
EngineSwitchesUnmarked ==
  /\ adaptive /\ verdict # CurrentClass /\ Votes >= Hysteresis
  /\ pending' = verdict /\ counter' = 0
  /\ ~TooSoon
  /\ Apply(verdict)
  /\ sinceSwitch' = Elapsed
  /\ recent' = AgeAll(recent) \cup {0}

EngineSwitches ==
  /\ adaptive /\ verdict # CurrentClass /\ Votes >= Hysteresis
  /\ pending' = verdict /\ counter' = 0
  /\ ~TooSoon
  /\ Apply(verdict)
  /\ MarkSwitch

RunEngine ==
  EngineOff \/ EngineAgrees \/ EngineWaits \/ EngineDefers \/ EngineSwitches

-----------------------------------------------------------------------------
\* hymrpl_periodic_cb.
Poll ==
  /\ adaptive => sinceEval < EvalPeriod
  /\ sinceEval' = IF adaptive THEN sinceEval + 1 ELSE sinceEval
  /\ Read
  /\ \/ \E c \in Class : Obey(c)
     \/ /\ NoCommand \/ \E c \in Class : Limit(c)
        /\ RunEngine
        /\ obeyed' = AgeAll(obeyed)
        /\ UNCHANGED newest
  /\ UNCHANGED <<adaptive, verdict, senderVars>>

Next ==
  \/ \E s \in Sender : Write(s) \/ \E c \in Class : Stamp(s, c)
  \/ \E i \in Iface : CreateDag(i)
  \/ \E v \in Class : Evaluate(v) \/ RecordDao(v)
  \/ Poll

Spec == Init /\ [][Next]_vars

\* libev keeps firing both timers.
FairSpec ==
  /\ Spec
  /\ WF_vars(Poll) /\ WF_vars(\E v \in Class : Evaluate(v))

-----------------------------------------------------------------------------
(* Properties.                                                             *)

\* Whatever asks for them, commands or the engine, two switches are never
\* closer than the minimal interval: the two paths check and set the same
\* last_switch_time.
Spacing ==
  \A x, y \in recent : x < y => y - x >= MinInterval

\* No window of the counter sees more commands obeyed than allowed, although
\* the window is only started again when a command arrives.
WindowBudget ==
  Cardinality({x \in obeyed : x <= sinceMinute}) <= MaxPerMinute

\* From the first switch on, all interfaces and dags have one class, those
\* dags included that process_dio creates between switches.
ClassAgreement ==
  sinceSwitch # Never =>
    \E c \in Class : /\ \A i \in Iface : ifaceClass[i] = c
                     /\ \A i \in HasDag : dagClass[i] = c

\* Two hymrpl_cmd processes may write in another order than they stamped:
\* a command never undoes one that was stamped after it.
LaterCommandWins == [][newest' # newest => newest' > newest]_vars

\* A verdict that stays is not held off for ever by the hysteresis and the
\* rate limit, which both can put a switch off.
EnginePrevails ==
  adaptive => \A c \in Class :
    <>[](verdict = c /\ HasDag # {}) => <>[](CurrentClass = c)

=============================================================================
