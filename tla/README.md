# HyMRPL in TLA+

HyMRPL is a RPL routing daemon (`rpld`) for IEEE 802.15.4 networks, extended
with a hybrid mode of operation (MOP 6) in which every node has a *class*: S
(storing-like) or N (non-storing-like). A class can be changed at run time, by
an authenticated command or by an adaptive engine. This directory holds TLA+
models of the daemon, TLC runs on small instances and TLAPS proofs.

File and line references are to the repository's sources under `src/`.

## 1. Inventory

| Part | Where | State | Operations | Interacts with |
|---|---|---|---|---|
| DODAG formation and repair | `process.c` (`process_dio`, `process_dis`), `rpld_new.c` (`trickle_cb`, `parent_check_cb`) | `struct dag`: `my_rank`, `parent` (address and rank), `parent_last_seen`, trickle timer | send a DIO, process a DIO, answer a DIS, invalidate a silent parent | neighbours (DIO), kernel (default route), DAO sender, adaptive engine (parent changes) |
| Downward routes | `process.c` (`process_dao`, `process_daoack`), `dag.c.patch` | children with the neighbour they were heard from, the root's source-routing tree, kernel routes | process a DAO, forward it inside the node's own next DAO, acknowledge it | class of the node, parents, root |
| Class control: FIFO | `hymrpl_adaptive.c` (`hymrpl_fifo_sec_check`, `verify_hmac`), `hymrpl_cmd.c` | token, last nonce, time of last switch, counter and start of its minute | read, authenticate, refuse a replay, rate-limit, apply | `hymrpl_cmd` processes, interfaces and dags, adaptive engine (shared rate limit) |
| Class control: engine | `hymrpl_adaptive.c`, `rpld_new.c` (`hymrpl_periodic_cb`) | scores, pending class, hysteresis counter | evaluate every 5 s, recommend every 1 s, apply | FIFO (shared rate limit), parent changes, battery file |
| Stability index, PDR estimate, energy EMA | `hymrpl_adaptive.c` | ring of change times, window of DAO results, EMA | record, compute | engine |
| Timers and reload | `rpld_new.c` | trickle period, 5 s liveness timer, 1 s DIS and periodic timers | reset, reload on SIGUSR1 | all of the above |
| Library parts | `dag.c`, `netlink.c`, `send.c`, `config.c` | | | only patches of them are in the repository; they are modelled from their uses |
| Around the daemon | `hymrpl_monitor.py`, `hymrpl_cmd.c`, scripts, `test/` | | | FIFO |

A daemon is one libev loop: a callback runs to its end before the next one, so
one callback is one atomic action. What is concurrent is several daemons, the
network between them, the `hymrpl_cmd` processes and time.

What makes each part correct, and what is hard about it:

- *Formation*: a node's rank, stored parent rank, default route and DAOs agree
  at all times; without faults parents form a tree and ranks settle at the
  distances. Hard: `dag->parent` is an address and a rank of possibly different
  nodes; DIOs wait in sockets; adoption is open to any neighbour, a child
  included; ranks are 16 bits wide and 65535 means invalid.
- *Downward routes*: the root learns every node that is announced to it, and
  host routes lead to nodes that have one too. Hard: lost DAOs are not sent again, nothing removes
  what was learned under the old class, a message holds at most 16 targets.
- *Class control*: one class per daemon, switches spaced and limited, replays
  refused, a lasting verdict applied. Hard: two sources share half of one rate
  limit, the counter's window is renewed lazily, polls and evaluations have
  different periods, a command is stamped and written in two steps.
- *Stability, PDR, energy*: indices stay in [0, 1] and reflect the last minute
  or the last 20 results. Hard: a ring that is only shifted when it is full.
- *Timers*: a live parent is not invalidated. Hard: reloads change periods
  under a running timer.

`PROJECT.json` lists the hazards, each at its line, with the properties that
cover it.

## 2. Plan

| # | Module | Models | Composes / abstract specification | Status |
|---|---|---|---|---|
| 1 | `Dodag` | formation and repair by a network of daemons, with faults | implements `JoinTree` (via `DodagTree`) | done, safety proved (`DodagProofs`, `JoinTreeProofs`) |
| 2 | `ClassControl` | FIFO, rate limit and engine of one daemon | takes the verdict that `AdaptiveEngine` computes | done, safety proved |
| 3 | `HybridDao` | DAOs, host routes and the root's tree per class, switches, loss | the joining half of `Dodag`, the switches of `ClassControl`; implements `JoinTree` (via `HybridTree`) | done, safety proved (`HybridProofs`) |
| 4 | `ParentLiveness` | trickle, liveness, DIS retry and reload in seconds | what `Dodag` abstracts to `Age` and `ParentCheck` | done, safety proved (`ParentLivenessProofs`) |
| 5 | `AdaptiveEngine` | ring of changes, PDR window, energy, score | reference: lists of all changes and outcomes, as history | done, safety proved (`AdaptiveProofs`) |
| 6 | `FifoSharing` | several daemons of a host that unlink and create one FIFO path | would extend `ClassControl`'s FIFO | open |
| 7 | repair with downward routes | children and host routes when nodes change parents | `HybridDao` with `Dodag`'s `ParentCheck` | open: needs `dag_lookup_child_or_create`, which is not in the repository |

Every safety property that a run checks is a theorem too. What is left to prove
goes with what is left to model.

## 3. Modules

### Dodag

One action per handler, for every node `n`; the variables are functions of the
node.

| TLA+ | Code |
|---|---|
| `Trickle(m, S)` | `trickle_cb`, or the DIO that answers a DIS: the rank goes to the neighbours in `S` |
| `ProcessDio(n, m)` | `process_dio`, split by its returns: `IgnoreDio` (rank 1), `NoMemoryForPeer`, `RefuseDio` (rank check), `AcceptDio` |
| `NextParent`, `Adopts`, `HearFrom` | the lines before the rank check: first peer, `last_seen`, adoption, notification |
| `TakeRank`, `DaoDestinations` | the lines after it: default route, stored rank, own rank, DAO switch |
| `ParentCheck(n)` | `parent_check_cb` |
| `Age(n)` | one trickle period without a DIO of the parent |
| `Crash`, `Restart` | a daemon stops; `main` starts one: only the root has a dag from its configuration |
| `CutLink`, `HealLink` | radio links |

`changes` counts what the adaptive engine is told; `daoDst` is where the latest
DAOs went. `air[m][n]` holds the DIO of `m` that waits at `n`: at most one per
link, a newer one replaces it. So DIOs may be lost, delayed for any time and
overtaken between senders; two DIOs of one sender are not reordered.

Limits: one interface and one DODAG per daemon; `nl_add_route_default`
succeeds; a DIO that is too short, or arrives when `dag_create` fails, is the
same as a lost one. `hymrpl_adaptive_notify_*`, called in `process.c`, are not
defined in the repository; the module takes their meaning from the comment at
the call and from `VISAO_360_HYMRPL.md`.

### JoinTree, DodagTree, HybridTree

`JoinTree` is what formation promises: a node joins below a member (`MayJoin`),
keeps that parent, and improves its rank (`MayImprove`), never below what some
neighbour's rank allows. `Within[d]` are the ends of ways of at most `d` links
from the root, so that distances need no recursion. Its own properties say that
no rank is below the distance, and that a tree in which nothing can improve has
reached the distances.

Two modules implement it. `DodagTree` instantiates it with the nodes that hold a
dag as members and `my_rank` as rank: `FormsTree` (its specification with
fairness) is checked by TLC for `MaxFaults = 0`, and `DistanceWithoutFault`
carries the bound on ranks over to the daemons. `HybridTree` takes the nodes
with a rank of their own as members: `JoinsTree` is its specification, written so
that TLC decides first whether a step leaves the tree alone, as most do. So both
halves of the protocol speak of one tree.

### ClassControl

One daemon, `hymrpl_cmd` processes and time. `Poll` is `hymrpl_periodic_cb`:
`Read` and then either `Obey` (FIFO command applied, return), or `NoCommand` or
`Limit` (nothing, rejected, or rate-limited) followed by `RunEngine`, split by
the outcomes of `hymrpl_adaptive_get_recommendation` and its caller. `Evaluate`
is `adaptive_eval_cb` with any outcome, `RecordDao` moves the verdict between
evaluations (`adaptive_decide` reads the PDR at every poll); `CreateDag` is the
line of `process_dio` that gives a new dag its class; `Stamp` and `Write` are
the two steps of `hymrpl_cmd`.

Bytes matter in one way: a read takes up to 127 of them and a command has 90,
so two commands of one second are rejected together and the rest of the second
one is left behind. `unread` counts bytes, `queue` holds the commands that are
still whole. Times are ages in polls, capped where the code cannot tell them
apart. HMAC is perfect: what `hymrpl_cmd` wrote verifies, nothing else does.

A daemon whose interfaces are all a root's has no engine: `adaptive` is chosen
at the start and kept.

Limits: a poll is one second, exactly; the daemon is not restarted; bounded
commands (`MaxCommands`). `recent`, `obeyed` and `newest` are history variables
that no action reads.

### HybridDao

The downward half. A node joins and refreshes as in `Dodag` (`AcceptDio`), but
DIOs are read when they are sent and nobody loses its parent: what is delayed,
lost and superseded here are DAOs.

| TLA+ | Code |
|---|---|
| `AcceptDio(n, m)` | `process_dio` past its rank check, with the DAOs it sends |
| `Targets(n)` | `dag_build_dao`: own target, and the children in storing mode or as class S |
| `ProcessDao(d, n)` | `process_dao`: children (`ChildrenAfter`), then by mode and class host routes (`RoutesAfter`) or the root's tree (`Kept`, at most `MaxTargets` of the targets, the sender's own first) |
| `SwitchClass(n)` | the class is written by the FIFO or the engine; nothing else changes |
| `LoseDao`, `RestartRoot` | the environment |

`dao[n][d]` holds the targets of at most one DAO on its way from `n` to `d`; a
newer one takes its place. `tree` is the set of targets the root has inserted:
what `t_insert` builds of them is not in the repository. The children that a
root in hybrid or non-storing mode records are left out, because nothing reads
them. A DAO-ACK changes nothing at its receiver and is part of `ProcessDao`.

### ParentLiveness

One node and its root in seconds, with the code's constants: timeout factor 8,
check every 5 s, DIS every second. Timers count down, `Tick` waits until nothing
is due, and within a second events come in any order, so a timer may run before
a DIO that is already in the socket. `reload_cb` changes the trickle period of
either side (`ReloadRoot`, `ReloadNode`) and restarts the trickle timer but not
the liveness timer; a dag that is created later, or after a restart, has the
configured period. An invalidation sets the trickle timer to one second, and a
reload in that second to a whole period: `LossAnnounced` counts both, from the
last DIO of the lost parent on. `missed`, `steady`, `patience`, `unjoined`,
`wasted`, `news` and `postponed` are history variables.

Limits: fractions of a second and the time a callback takes are left out; the
node has one possible parent (which neighbour is adopted is `Dodag`'s matter).

### AdaptiveEngine

The numbers behind the verdict: `ParentChanged` (`Push` into the ring of
`NMax + 1` times), `RecordDao` (the wrapping window), `Evaluate` (energy, then
stability), `WantsClassS` (`adaptive_decide`, called at every poll with whatever
is stored). The score is multiplied out to integers; energy has `Full` + 1
levels, and its average is rounded towards the reading. `recent` and `outcomes`
are what the ring and the window stand for, and no action's outcome depends on
them; `Len(recent)` bounds the changes within the horizon. As the oldest change
comes first, a second drops the front of `recent` (`Young`).

Limits: floating-point rounding, so the instance keeps the score off the
threshold; battery readings outside 0 to 100 %, which the code does not refuse.
Nothing in the repository calls `hymrpl_adaptive_record_dao`, so outcomes come
at any time.

## 4. Runs

| Run | Instance | Question |
|---|---|---|
| `faults` | triangle, MOP 6, any 1 fault | do rank, route and DAO agree, do parents stick, do loops need a fault? (one missed DIO or one failed allocation is enough for a loop and for a rank that wraps) |
| `converge` | diamond, MOP 2, fair, no faults | do all join and ranks settle, never below the distance; is `JoinTree` implemented? |
| `tree` | `JoinTree`, five nodes with a cycle and a tail | are its ranks distances in the end, never less, and is every tree at rest there? |
| `control` | 2 interfaces, 2 senders, 3 commands | spacing, budget, one class, order of commands |
| `prevails` | no token, 2 plain commands, fair | budget and one class when one read yields several commands; is a lasting verdict applied in the end? |
| `dao` | kite of four nodes, modes 1, 2 and 6, all classes of the inner nodes, 1 switch, 1 root restart | is `JoinTree` implemented; do host routes lead down the tree, and, before a switch, to nodes that have one too? |
| `heals` | line of four nodes, the same modes, classes and faults, fair | do gaps after a switch close; does the root learn every announced node? |
| `engine` | `NMax` 3, window 3 s, evaluation every 2 s, PDR window 2 | do ring and window say what happened; does the verdict follow in time? |
| `liveness` | the code's constants, periods 1, 5 and 9 s, 7 faults, 1 reload | false alarms, silent parents, joining, how late a loss is told, also when a reload comes first |

Bounds. `RankMax` is 65535 as in the code: ranks are small, 65535, or wrapped,
so the width costs no states (`HybridDao` has no wrapping ranks and uses 9).
`SilenceLimit = 1` instead of 8: it only decides how often `Age` must happen,
and `ParentLiveness` has the 8. One fault on a triangle (170 000 states)
includes every kind and what follows from it; `reconverge` uses one on a line,
and its property leaves out behaviours in which an allocation failed or a rank
wrapped, so that what it shows follows from the liveness timer alone.
`StabilityNMax = 0` lets `changes` saturate at once. In `ClassControl` the times
are smaller than in the code, with their order kept: a minute holds more
intervals than the counter allows and an interval holds the hysteresis. In
`HybridDao`, `MaxTargets = 2` instead of 16 is less than the three targets of
`a`'s DAO, so the array overflows; on the kite `b` may join below `a` and hear
the root later. In `AdaptiveEngine`, `MaxRecent = 5` is more than the ring's
four slots, and the window is longer than the evaluation period, as in the code.
In `ParentLiveness` seven faults are all the DIOs but one that fit in eight
periods, and a root with a period of 9 s is silent for longer than the 8 s a node
with a period of 1 s waits. One reload is enough to put off the news of a loss;
how several add up is proved.

What the bounds leave out. On the line of `heals` every node announces itself, so
`RootLearns` does not depend on aggregated targets there: addresses and ranks of
different nodes, and targets beyond the array, occur on the kite of `dao`, where
only safety is checked. `RoutesLeadDown` cannot show a route that became wrong
when a node moved, because no node moves. In `ClassControl`, commands that are
refused together are simply lost, which none of its properties forbids.
`NoFalseAlarm` says nothing after a reload; `SilenceBounded` and `StaysJoined` do.

Fairness. `Dodag!Fairness`: a repeating trickle timer fires and its DIO gets
through again and again (weak fairness per pair of neighbours), libev serves a
readable socket and the liveness timer, and periods pass for a parent that
cannot be heard. Nothing is assumed of faults, healing or restarts.
`ClassControl!FairSpec`, `AdaptiveEngine!FairSpec`: timers keep firing.
`HybridDao!FairSpec`: DIOs keep coming, and of the DAOs that are sent again and
again from one node to another some get through (strong fairness: a lost DAO
disables its processing). `ParentLiveness!FairSpec`: the loops run and time
passes; losses are limited by `MaxFaults`.

## 5. Where documents and code disagree

Three runs state what a comment or document says and find it violated:

| Run | Claim | What happens |
|---|---|---|
| `reconverge` | `dag.h:61-65`: adoption enables reconvergence | a node invalidated after a missed DIO adopts its own child; the root is heard again, but its DIOs only lower the rank stored for the child, parent and child refresh each other's liveness, and the loop stays |
| `seamless` | `README.md:203`: a switch is immediate and non-disruptive, with 100% PDR during the transition | a node that becomes S announces children it has no route to; its parent sends their packets to it, and it sends them back up |
| `visibility` | `process.c:136-137`: the root has full topology visibility | the first DAO to the root is lost, then a DIO of the root overwrites the stored rank of another parent with 1; the node then takes that parent for the root, and a class N parent does not pass its target on |

Others that follow from single lines, without a run:

- `process.c:99-100` says a neighbour "with a valid rank" is adopted; any sender
  is, also one with rank 65535, and the node's own rank then wraps to 0.
- `VISAO_360_HYMRPL.md:213-215` says a change of parent is counted once, on
  adoption; `rpld_new.c:161-162` counts it at the invalidation too.
- `DOC_TECNICA_HYMRPL.md:272` says at most 3 switches a minute; those of the
  engine are not counted (`rpld_new.c:221-237`), and the window does not slide
  but starts again (`hymrpl_adaptive.c:519`), so that any 60 seconds may hold six
  commands: three at its end and three after. `WindowBudget` states what the code
  does keep, three per window.
- `rpld_new.c:154` resets the trickle timer to accelerate the exchange of DIOs
  after an invalidation; a reload in that second (`rpld_new.c:328-330`) replaces it
  by a whole period.
- `DOC_TECNICA_HYMRPL.md:226` says three evaluations (15 s) before a switch;
  `hymrpl_adaptive.c:276` counts polls, one per second.

## 6. Proofs

All for every value of the constants that satisfies the modules' named
assumptions: any finite set of nodes, any links, any number of faults, any
rank width greater than the number of nodes; any times, interfaces, senders,
message lengths and periods.

`DodagProofs`:

- `Typing`, `RanksTrack`, `RoutesFollow`, `ParentSticks`. The invariant is
  `DaemonInv(n)`, about one node's own variables: without a parent the stored
  rank is invalid; a node's rank and its stored parent rank are both invalid or
  one apart; and whenever a parent is set, route and DAOs are on it.
  `RouteFollowsParent` is not inductive without the fact that an adoption
  always finds the stored rank at its maximum, so that the rank check after it
  cannot fail.
- `NoLoop`. While no fault has happened (`TreeInv`): no parent is silent, so
  no node is invalidated; members hold ranks between 1 and their number; the
  DIOs that wait carry ranks of members; and the parent pointers were acyclic
  when set, because a node joins below a member and no member changes its
  parent. The bound by the number of members (and the assumption that there
  are fewer nodes than ranks) is what keeps `rank + 1` from wrapping.
- `ImplementsTree`: for `MaxFaults = 0`, `Spec => Tree!Spec`.
- `NoRankTooLow`: before the first fault no rank is below the distance. The
  fault-free steps are steps of the tree, so `JoinTree`'s invariant is carried
  over by instantiating `JoinTreeProofs`.

`JoinTreeProofs`, for every network:

- `DistancesKept`: who has a rank of at most `d + 1` ends a way of `d` links. A
  node takes a rank above that of a neighbour, whose way is extended by a link.
- `Resting`: on a way from the root to a node that is ranked too high, or is no
  member, there is a first such node; the one before it lets it join or improve.
  This is induction over the way, done as a least counterexample in the natural
  numbers (`LeastNatural`, from the library's `WFMin`): the theorems that take an
  operator for the induction hypothesis are out of the prover's reach.

`ClassProofs`:

- `Typing`, together with the invariant `FifoInv` that relates the bytes in the
  FIFO to the whole commands in it.
- `SwitchesSpaced`: by the invariant that `sinceSwitch` is no greater than any
  age in `recent`, so a switch that is not too soon is far from all others.
- `BudgetKept`: by the invariant that the obeyed commands within the window are
  no more than the counter. Ages and window grow together, so ageing maps the
  commands of the window into themselves (an injection), and a new one is
  counted.
- `ClassesAgree`: dags and interfaces agree from the first switch on, a dag
  created later included.
- `LaterWins`: the nonce of the command obeyed last is at most `lastNonce`,
  which only grows.

`HybridProofs`, for every finite network, mode and assignment of classes, and any
bound on targets, switches and restarts:

- `Typing`: the bound on ranks rests on `UpInv`, by which no rank exceeds the
  number of nodes with a dag.
- `RoutesGoDown`: a DAO whose receiver takes children from it goes to the
  sender's parent, and names the sender or children of the sender (`DaoInv`);
  children come from nodes whose parent is the receiver (`ChildDown`). A parent
  once set is kept, so whoever was below stays below (`BelowKept`).
- `PathsGoOn`: `ChildRoute` adds that, until the first switch, a node that
  tells others of its children has a route to each of them. Chains of routes
  are then built from below; a restart of the root forgets children only where
  nobody else learns of them.

- `ImplementsTree`: `Spec => JoinsTree /\ Tree!Spec`. An accepted DIO is a `Join`
  when there is no parent yet, an `Improve` when the rank gets better and no step
  of the tree otherwise; that the new rank is within the number of nodes is again
  `UpInv`.

`ParentLivenessProofs`, for any periods (of which one is the longest), timeout,
check interval and number of losses, crashes and reloads:

- `Typing` and `SilencesBounded`: the silence of a valid parent and the time
  until the next check together stay within the timeout of the latest check and
  one interval (`SilenceInv`).
- `Joining`: when a second without a dag begins, each earlier one is paid for
  by a message lost (`JoinInv`).
- `Announcing`: a parent that is given up was silent for less than the timeout and
  a check interval (`SilenceInv`), and the node's own DIO is then due within a
  second, which a reload before it prolongs by no more than its period (`NewsInv`).
- `NoFalseAlarms`: the silence never exceeds what the DIOs lost, and one that
  waits, account for (`AlarmInv`); the rest is a fact about division.

`AdaptiveProofs`, for every `NMax`, window, evaluation period, PDR window, number
of energy levels and readings. As ages in `recent` fall from the front to the
back (`Ages`), counting those up to an age is finding the place from which they
are (`SuffixCount`); the lemmas on `Older`, `Young` and `Append` say how that place
moves.

- `Typing`: the window's index never leaves it, and the average stays on its
  scale.
- `EnergyApproaches`: every evaluation takes the average nearer to the reading, by
  a level at least and never past it. It is the measure behind `Recovers` and
  `EmptyYields`, whose fairness part stays with TLC.
- `StabilityIsExact`: `StabilityExact` says nothing of the entries that a later
  second or change uncovers. `RingInv` does: counted from the latest, the ring's
  entries are those of the history up to the cap on ages, entries beyond the
  history are out of the window, and only a full ring has fewer than the history.
  `NMax + 1` entries suffice because what was lost lies behind `NMax` others.
- `PenaltyIsFresh`: `StabInv` says what the index is worth between evaluations:
  it counts changes up to the window plus the seconds since the last one, and
  misses only those that came in these seconds.
- `PdrIsExact`: `PdrInv` gives for every recorded outcome the slot it is in
  (`SlotOf`); slots and outcomes are in bijection (`SlotsInUse`), whether the index
  has gone round or not.
- `EvidenceIsNeeded`: from `PenaltyIsFresh` and the score (`FullScore`). TLC checks
  it for `NMax` 3, where more than five sixths of `NMax` changes are all three; a
  version that asks for `NMax` changes would be false from `NMax` 7 on, so the
  property says what holds for each.

Only model-checked: liveness (`Converges`, `Settles`, `EnginePrevails`,
`RoutesHeal`, `RootLearns`, `Recovers`, `EmptyYields`, `StaysJoined`, the
fairness part of `FormsTree`), because the prover does not handle fairness and
`ENABLED`. `Resting` is the part of `Settles` that needs neither.

## 7. Not modelled

Token generation and loading, wire formats and length checks, logging,
experiments, build and patch scripts: no state beyond one call, or no part of
the daemon. Several daemons that share the FIFO path of a host, and a daemon
restart in `ClassControl`: see the plan. `nl_del_route_via`, called when a parent
is given up, removes the route of the DODAG's prefix and leaves the default
route that `Dodag` follows; the prefix route itself is set nowhere in the
repository and is left out. The downward routes of nodes that change their
parents depend on library code that is not in the repository.
