# Mobile IP on Click: a TLA+ verification project

The repository implements Mobile IP for IPv4 (RFC 5944, kept as
`src/rfc5944 (annotated).pdf`) as elements of the Click modular router. The
elements are in `src/click/elements/local/custom/`, the router configurations
that wire them in `src/click/scripts/library/`. The rest of `src/click` is the
Click distribution, of which the timers are modelled here.

Three kinds of node run one Click process each. A process is single-threaded:
one packet handler (`push`) or one timer handler (`run_timer`) runs at a time,
to its end, with all the pushes it makes into other elements. So a handler is
one step here. Between processes, and between the timers of one process, nothing
is ordered.

* The **mobile node** hears agents' advertisements, registers with its home
  agent through a foreign agent, renews, and deregisters when it is home again.
* The **foreign agent** advertises, relays requests and replies, and keeps a
  list of pending requests and a list of registrations, both aged by a timer.
* The **home agent** advertises, answers requests, keeps the mobility
  bindings, and tunnels the datagrams of nodes that are away.

## Inventory

| part | code | module | state |
|---|---|---|---|
| home agent | `HA`, `RegRep`, `Encapsulator` | `HomeAgent` | `mobility_bindings` |
| foreign agent | `FA`, `Relay` | `ForeignAgent` | `requests`, `registrations` |
| mobile node | `MNInfo`, `ProcessAdvertisements`, `RegReq`, `RegNode`, `Solicitation` | `MobileNode` | eleven variables, one per field or timer |
| advertising | `Advertisement`, `CheckSolicitation` | `Advertiser`, `RebootDetection` | `sequenceNr` |
| byte order, vectors | `htons`, `Vector<T>` | `ByteOrder`, `ClickVector` | none |
| decapsulation | `CheckEncap` | `MobileIP` (`Reached`) | none |
| links, movement | `glue.click`, `to_home.sh`, `to_foreign.sh` | `MobileIP` | `up`, `down`, for three switches |
| the three nodes together | the configurations in `library/` | `MobileIP` | all of the above, and the packet in flight |
| timers of Click | `Timer`, `TimerSet`, `heap.hh` | `ClickHeap`, `TimerSet`, `TimerSetService` | heap, run chunk, stop flag, clock |
| unused element | `MobileAgentDiscovery` | none | none |
| the rest of Click | `src/click/lib`, stock elements | not modelled | |

Two abstract specifications say what a component promises: `BindingCache` for
the home agent and `TimerService` for the timers. `HomeAgent` and `TimerSet` are
shown to implement them (`TimerSetService` has the mapping for the latter), and
the composition uses the first in place of the binding list. `Composes` in
`MobileIP` says that the composition is one: every step of it is, for each of
the three parts, a step of that part's own module or none.

Actions are named after the handlers: `RegRep_push`, `HA_push`, `relayReq`,
`relayRep`, `icmp`, `run_timer`, `ProcessAdvertisements_push`, `RegNode_push`
and so on. The variable `out` (`sent` in `Advertiser`) holds what the last
step pushed to the network.

### How data is modelled

A `uint16_t` is a `Word`: two digits in base `Byte`. `htons` exchanges the
digits, as on the little-endian machines the router runs on, and subtraction
wraps. `Byte` is 256 in the program. Most runs take 2, 3 or 4, so that every
word and every borrow between its bytes is visited; the proofs are for every
`Byte > 1`. Where the code leaves out a conversion, or makes one too many, so
does the model. Checksums are a Boolean `intact`. Flag bytes are sets of flag
names. `Kept(v, K)` is the set whose only element is vector `v` with the
positions outside `K` erased, which stands for the loops that erase while they
walk. Failed allocations are left out.

* `HomeAgent` keeps `_mobility_bindings` as one sequence per home address. No
  code reads the order of entries of different addresses. `asked` is the request
  the last step handled, which the mapping to `BindingCache` needs to say whom
  and what the step answered.
* `BindingCache` promises what a node and its correspondents can see, not the
  list behind it: a grant leaves a tunnel to the care-of address that was asked
  for, or where one led before (the RFC lets a node have several bindings); a
  release leaves none; a refusal leaves the route as it was; a datagram takes the
  route of its address. `home_agent_newest` is the stricter claim that the newest
  binding wins.
* `ForeignAgent`: the source address of a request is the home address, as
  `RegReq::make_packet` sends it. Lifetimes are any the RFC allows, zero included,
  which `relayRep` handles in a branch of its own; the `RegReq` of this
  repository asks foreign agents only for the advertised one. An identification is its low 32 bits, which
  is what `RegNode::push` compares. The types 1 and 3 are not tested: the `if`
  at `relay.cc:94` and `:103` guards only the message printed. `relay.cc:351`
  reads a slot that has been erased; if it was the last one its old content is
  still there in this build.
* `MobileNode`: a copied `Timer` is not scheduled, so erasing from `_timers`
  and growing it unschedule timers. `_lifetime` is uninitialized and starts as
  any word. The clock that `_latestRegAttempt` is compared with is the Boolean
  `recent` and the action `AttemptAges`.
* `RebootDetection` composes the agent's numbering with the test of a
  registered node, over a link that loses broadcasts, with agent restarts.
  `again` is whether the node has taken what it heard last for a restart.
  In `MobileNode` a reply may carry an identification whose bytes are exchanged,
  as the timeout replies of `Relay` do.
* `MobileIP` composes `MobileNode`, `ForeignAgent` and `BindingCache` with
  `INSTANCE`. Its `out` is the packet in flight. It is delivered or lost before
  the next timer runs or the node moves; only a request between the two agents
  may be held up (`late`) and overtaken, and no other packet is ever late. Agents
  advertise any number of `SeqNr` that `Advertisement::sendPacket` can have come
  to without a restart, so a connected node may take a multiple of 256 for a
  restart and ask again. `mishap` records that a packet other than
  a request to the foreign agent was lost or late. `up` and `down` are the
  agents on the links the node sends to and receives from: a movement is three
  separate writes, and in between the node receives nothing. One number is both
  port and identification of a request.
* `TimerSet` lets hooks do what hooks may do: schedule and unschedule any
  timer. So `run_timers` is cut into steps at the calls of hooks. `ClickHeap` is
  `change_heap` and `remove_heap` for any arity above 2 (their static assertion),
  with the positions that `heap_place` writes. A loop of the code is a round,
  which leaves things as they are once the loop's condition fails, and
  `Loop(round, x, n)`, its `n`-fold application, for an `n` that no execution
  of the loop exceeds. A pause of the master and a taken lock only skip a call
  of `run_timers`.
* `TimerService` promises of a killed router only that no other router's timers
  are touched: `timer_kill` shows that the code does not promise more.

## Runs that pass

| run | shows |
|---|---|
| `home_agent` | `ReplyIsTruthful`: a reply agrees with the binding list. `CacheSpec`: refinement of `BindingCache`: what the agent answers, where it tunnels and where it sends datagrams agree, for every node and through every stale entry. |
| `foreign_agent` | `UniqueRegistrations`: at most one registration per node. `AnsweredOnce`: replies sent on and requests taken off the list balance, in every step and for every node. `RegistrationsLast`: a registration ends only when its time is up or by an accepted deregistration. `RegistrationsRunDown`: until then its lifetime goes down by one each second; an acceptance that is relayed to its node sets it to the lifetime granted, with its bytes exchanged (`relay.cc:309`), and nothing else changes it, whatever is erased and moved. `LimitAdmitsNone`: at the registration limit no request is let in, and registrations and pending requests together do not grow. `RegistrationsLapse`: registrations end without renewals. `PendingRequestsEnd`: no pending request starves. |
| `mobile_node` | `OneTimerPerAdvertisement`: timers and stored advertisements match. `HomeHasNoLifetime`: a lifetime ended by coming home is not revived by a timer. `OnlyAcceptedRequestsConnect`: only a reply connects the node or prolongs its lifetime, and one that changes its connection, agent or lifetime is intact, accepts, has the agent, port and identification of a request still pending, and takes it off the list. `PendingRunsDown`: a pending request is counted down, in the code's byte order, and never prolonged or mixed up with another when replies erase from the list. `PendingRequestsEnd`: the node's pending requests end. |
| `reboot_detection` | `ReductionMeansRestart`: a sequence number falls below 256 by a restart only, whatever is lost. `RestartsAreNoticed`: a registered node whose agent has restarted registers again in the end, although it compares numbers in the wrong byte order. |
| `timer_set` | `Linked`: timers, heap and run chunk point at each other, whatever hooks do. `SleepsUntilEarliest`: the time the driver sleeps until is the first expiry. `ChunkRunOut`: nothing is left in the run chunk outside `run_timers`, as `kill_router` asserts. `ServiceSpec`: refinement of `TimerService`; no timer fires early or is lost. `NoStarvation`: a timer that is due is run although others are always ready again. |
| `mobile_ip` | `AgentIsTunnelled`: while the node takes the foreign agent for its own the home agent tunnels to it, whatever is lost or timed out, however late relayed requests are and however the node moves. A node that is connected to its gateway is another matter: it hears a multiple of 256 at home, deregisters and stays connected. `InStep`: without a mishap, node and home agent agree on the tunnel. |
| `mobile_ip_fair` | `Composes`: what each part sends is what the next one's module has it receive, so what holds of the states of the parts holds in the composition (not what they say of `out`, which is here the packet in flight). `AbroadIsReached`: datagrams find a node that stays abroad, whatever was lost. `ReturnIsReached`: they find a node that comes home, without a mishap. |

Every module that is run has one type invariant, `TypeOK`.

## Runs that end in a violation

Each states what a document or a comment of the repository says, and TLC finds a
behaviour of the code that differs. `PROJECT.json` quotes the lines.

| run | behaviour found |
|---|---|
| `home_agent_newest` | after a move the tunnel still leads to the old agent |
| `mobile_node_expiry` | expired advertisements are never forgotten |
| `timer_kill` | a timer of a killed router stays scheduled: the removal of another moves it to a position that has been walked past |
| `mobile_ip_return` | one lost or late packet, and the home agent tunnels for ever away from a node that is home: bindings never expire, and a deregistration is sent once |
| `mobile_ip_connects` | two lost packets, and a node abroad is never connected: each reply is sent to the port of a request it does not answer |

Each takes a history of several steps. Differences that take
one call to show have no run; the modules behave as the code does:

* `relay.cc:75` answers an ICMP error with the ICMP code, where the RFC wants
  80 to 95 (p. 56): host unreachable, 1, reads as an acceptance.
* `relay.cc:331` erases the first registration when a node without one
  deregisters (p. 57). `RegistrationsLast` allows this one exception.
* `processadvertisement.cc:68` takes a rollover for a restart (p. 29), since
  sequence numbers are compared in network order, and overlooks a restart until
  it hears 0 or a multiple of 256.
* `relay.cc:309` stores the granted lifetime byte-swapped (RFC 5944, p. 57):
  100 s become 25600. `RegistrationsRunDown` says what is counted, exchanged bytes
  included.
* `relay.cc:138` ages pending requests in the wrong byte order: a tick lowers
  the high byte and borrows from the low one. A request for 100 s times out
  after 2048 ticks, where the comment in line 140 says 7 seconds.
* `regnode.cc:84` computes from a remaining lifetime that `RegReq.cc:124`
  counted in the wrong byte order, and may arrive above the granted lifetime
  (p. 49), or at 0, with which the node stays connected for ever.
* The comment at `relay.cc:196` names code 72 and the code sends 70.
* `CheckSolicitation` drops solicitations of 8 bytes or more;
  `solicitation_h` has 6.
* `timer.hh:187` says more than 2 seconds behind; `behind_sec` is 1.

## Bounds

* `MaxBindings = 3` entries per home address: a stale first entry, a newer one
  and one more for a purge loop to miss.
* `MaxRequests = 3`: the ICMP loop that skips a slot, and a timeout with a
  request on either side of it, need three. In the composition the node has
  `MaxPending` requests pending and the relay `MaxRequests`: 2 and 2, and 1 and 2
  in the fair run, whose liveness is about any number of rounds, one request
  at a time. `mobile_ip_connects` needs 3 of each: two stale ones and a new one.
* `SeqNr`: for a node that is connected only multiples of 256 make a difference;
  the others renew the stored advertisement. `mobile_ip` has `SeqNr = {2}`, such a
  number (`Byte` is 2), with advertisements that live for a second
  (`AdLifetime = 1`), so that the node asks between them, too. `mobile_ip_fair` has one of
  each kind, 2 and 3, whose fairness `AbroadIsReached` needs, and advertisements that
  are not asked about again (`AdLifetime = 0`). `mobile_ip_connects` is about a node that
  is not connected, which asks at every number: `SeqNr = {3}`.
* `Byte = 3`, lifetimes 0 and 5 and `RequestTimeout = 4` at the foreign agent: 5 is
  written 12 in base 3, so that exchanging the bytes makes it 7, and a
  request for it times out at the seventh tick, after two borrows.
* `MaxPending = 2` requests of the mobile node with the same port, so that a
  reply can meet the wrong one.
* `RegistrationLimit = 1` with two home addresses: the limit is reached, and a
  request that was let in before is granted after.
* `InitialCapacity = 1` (4 in `vector.cc`): with two agents the timer vector
  then grows and shifts.
* `MaxLosses` in `MobileIPClaims` is 1 or 2, so that a counterexample never
  rests on a link that loses everything.
* `MaxTimers = 1` (64 in `timerset.cc`) and three timers: the run chunk then holds
  up to three: one to run, one to take out of it and one left when the driver
  stops. With these and `Arity = 3` the heap has two levels. A fourth timer would
  be on a third, but even with a shorter clock there are then five times as many
  states, and fairness to evaluate on every edge between them. Deeper heaps are met in
  `timer_kill`, which has arity 4 as the code and nine timers, with cousins
  to swap, and in the proofs, which are for every number of timers; only
  `NoStarvation` rests on three.
* `MaxTime = 3` stops the clock. With `BehindSec = 0` and `Second = 1` a time in
  the past is still moved up to the present.
* Lifetimes, codes, ports and identifications are small sets that hold each case
  the code tells apart.

The bounds `MaxBindings`, `MaxRequests`, `MaxPending`, `MaxTime` and `MaxLosses` are
guards of the actions that extend a list or a count. The theorems hold for every value of them.

## Fairness

`FairSpec` of `ForeignAgent` is weak fairness of `run_timer`: the handler
schedules its timer again at its end (`relay.cc:158`). `RegReqFairSpec`
of `MobileNode` is weak fairness of `RegReq::run_timer`, which does the same; it is
all that `PendingRequestsEnd` takes. `FairSpec`, for `mobile_node_expiry`, adds the
handlers of `RegNode` and `ProcessAdvertisements`, for the timers that are
scheduled: the Click driver runs expired timers in every round of its loop. No
packet is assumed to arrive.
`PendingRequestsEnd` of the foreign agent is checked for requested lifetimes
above the timeout, like the 100 s that `library/fa.click` advertises. For a
lifetime of 7 s or less it is false: the difference in `relay.cc:139` cannot
exceed 7, although the comment below it promises a timeout reply.

`RebootFairSpec` of `RebootDetection` is weak fairness of the agent's broadcasts, which its
timer repeats, and strong fairness of hearing the numbers 0 and 256: the agent
sends the second again and again, the first after every restart, and a link that is
not dead does not lose the same one each time.

`FairSpec` of `TimerSet` is weak fairness of `run_timers`, which the driver's loop
calls again and again, and of the return of hooks. Nothing makes a hook
schedule anything, and `NoStarvation` asks nothing while the driver is told to
stop again and again. It watches one timer of each router: the timers of a
router are interchangeable.

`Fairness` of `MobileIP` is strong fairness of each delivery through the foreign
agent (what is sent again and again arrives again and again) and of the foreign
agent's timer, which in the model only waits while a packet is in flight. The
rest is weak fairness: of advertisements, of every number separately, since an
agent's numbers run through all from 256 on again and again, of the node's timers, of the delivery of
a deregistration, which `ReturnIsReached` takes not to be lost, and of `Lose`, so
that a packet for an absent node goes away. `MobileIPClaims` assumes more: after
`MaxLosses` losses everything that finds the node arrives. Deadlock is checked in
every passing run.

## Proofs

TLAPS proves the following for all values of the constants that satisfy the
named assumptions (`ByteAssumption`, `ArityAssumption` and one per component:
constants are words or naturals, a null value is not a real one, and the
rejection codes 66 and 70 are the relay's own: `RegRep` answers with 0 or codes
from 128, and codes of unreachable destinations end at 15).

* `AgentProofs`, on the home agent: `TypeCorrect`; `TruthfulReplies`;
  `HomeAgentImplementsCache`, by the mapping of `route` to what
  `get_destination_ip` answers and of `told` to the datagram or the answer sent.
  It rests on the invariant that no binding points to its own address
  (`SelfTunnelFree`): an appended entry then leaves a tunnel, to its own care-of
  address when there was none and to the old one otherwise.
  On `RebootDetection`: `NumbersTypeCorrect`; `RestartsAreRecognisable`. The
  property is not inductive. `Ahead` strengthens it: while the agent has not
  restarted, its next number is above the stored one or not below 256.
* `ForeignAgentProofs`: `TypeCorrect`; `RegistrationsUnique`;
  `RegistrationsEndInTime`, which follows from uniqueness: a renewal
  replaces the one entry of its node. Uniqueness is
  inductive because a reply updates the last entry of its node, and
  erasing and ageing select positions in increasing order (`Selects` and
  `KeptPositions` in `ClickLemmas`), which are injective.
  `RequestsAreAnsweredOnce` is about counts: a loop that erases leaves as many
  entries of a kind as there are in the positions it keeps, since it maps the
  new positions one to one to those (`KeptCounts`, `EraseCounts`); the rest is
  arithmetic of cardinalities, one lemma per handler.
  `RegistrationsCountDown` (`RegistrationsRunDown`): every position after a
  step comes from one before it, by the same selections, except the one that
  `register` writes, whose node and lifetime the reply in `out` names; the replies
  that the relay makes itself grant nothing.
  `LimitIsKept` (`LimitAdmitsNone`): `reject_code` refuses at the limit, and in
  every other step a registration is added only for a request that is erased.
* `MobileNodeProofs`: `TypeCorrect`; `TimersServeAdvertisements`, which is
  inductive with the types when stated as `Serves(timers, Known)`, with one lemma
  for erasing and one for adding a timer; `NoLifetimeAtHome`;
  `RepliesAreAcceptedOnce`; `RequestsRunDown` (`PendingRunsDown`), with the types:
  `run_timer` erases what has come to 0, so no count wraps.
* `MobileIPProofs`, for all numbers, lifetimes and bounds:
  `PartsCompose`, with the inductive invariant `Fitting`: what is in flight or late
  is one of five kinds of packet (`Asks`, `Forwards`, `Grants`, `Releases`,
  `Replies`), and the relay's list holds requests of this node only. From it
  one lemma per group of steps shows that the receiver's module allows the
  packet, and that what it sends is again of these kinds.
  `NodesAgentIsTunnelled`, with `Fitting` and the invariant `Backed`: every
  acceptance on its way has an open route behind it, and a deregistration is
  on its way only from a node that takes its gateway for its agent.
  `NodeAndHomeAgentAgree`,
  with the inductive invariant `Orderly`: without a mishap an exchange is in one
  of seven stages (`Idle`, `Entering`, `Forwarded`, `Granted`, `Told` for a
  registration, `Leaving` and `Left` for a deregistration). Each says what is in
  flight, what the relay has pending and who knows of the tunnel. `TypeCorrect`,
  by composition: what changes the node's state is a step of `MobileNode`
  (`PartsCompose`), and each of those keeps `Typed`.
* `HeapProofs`: `ChangeHeap` and `RemoveHeap`, for heaps of any size and any
  arity above 2. `OrderedBut(h, i)` says that only element `i` may be out of order and
  that its children are not less than its parent; both rounds, `rise` and `sink`,
  preserve it, the first loop ends with `NotLess`, the second with `NotMore`,
  and the three together are `Ordered`. `Rearranged` says that a round only
  moves entries, together with the positions they record. The first entry is
  the least (`FirstIsLeast`): take the first that is less; its parent is, too.
* `TimerProofs`: `schedule_at_steady` and `unschedule` keep heap, run chunk and
  timers in agreement, wherever the timer is (`ScheduledOK`, `UnscheduledOK`), and
  so does the loop that fills the run chunk (`ChunkedOK`, `ChunkTaken`).
* `TimerSetProofs`: `TypeCorrect`, `AlwaysLinked`, `AlwaysSleepsUntilEarliest`,
  `AlwaysChunkRunOut` and `KeepsPromise`, the refinement of `TimerService`, all from
  one inductive invariant, `Inv`. None of them is inductive alone: links are
  kept only if the heap operations keep them, the copy of the first key only
  if the heap is ordered, and an overdue timer is put back from the run chunk
  no later than now only because its expiry was not after `_timer_check`. `Inv` says
  so: `TimersOK` (placed, ordered, keyed, linked to the run chunk, the first key
  copied), the run chunk empty unless it is being run, and timers in it not due
  after `timer_check`. One lemma per loop (`ChunkedOK`, `UnrunOK`, `KilledOK`)
  and one per action, which shows that `Inv` is kept and that the step is one of
  `TimerService`.
* `ClickLemmas`: words, byte swaps, truncation, erased vectors, counting.

The library's induction rules take an operator, which the provers do not
instantiate. Loops are reasoned about with sets instead: a set of naturals that
is not empty has a least element (`LeastNumber`, from the well-foundedness of
`<`), hence a set with 0 and all successors is `Nat` (`SetInduction`), hence
`Loop` computes what its rounds do (`Iteration`), and a set closed under a round
holds the result (`StaysIn`).

Only model-checked: everything under fairness (`RegistrationsLapse`, both
`PendingRequestsEnd`, `RestartsAreNoticed`, `NoStarvation`, `AbroadIsReached`,
`ReturnIsReached`), which
the prover does not handle. Every other property of the passing runs, invariant,
action property or refinement, is proved.

## What could follow

* A second foreign agent in `MobileIP`, which makes `home_agent_newest` a
  question about datagrams.
* Time that passes while a packet is in flight, for the lifetimes
  `regnode.cc:84` computes then.
* A proof that `kill_router` leaves no timer on heaps of at most two levels,
  where no element moves up.

## Not modelled

Stock Click elements (ARP, TTL, fragmentation, ICMP error generation, the
learning of `ListenEtherSwitch`) and the rest of the Click distribution: tasks,
handlers, the configuration parser, drivers and some hundred elements that no
Mobile IP configuration uses. Mobile IP depends on them only for running one
handler at a time, and they make up nearly all lines under `src/`. Timers are
modelled for one thread. Also left out are packet layout and checksums
beyond `intact`, failed allocations, the correspondent
node, and `MobileAgentDiscovery`, which is empty.
