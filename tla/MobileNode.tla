----------------------------- MODULE MobileNode -----------------------------
(***************************************************************************)
(* The mobile node: the elements MNInfo, ProcessAdvertisements, RegReq,    *)
(* RegNode and Solicitation, wired as in library/mn.click.  One Click      *)
(* process runs one push or one timer at a time; every one of them is a    *)
(* step here, with the pushes it makes into other elements.  Each element  *)
(* has its own one-second timer and nothing orders them.                   *)
(***************************************************************************)
EXTENDS ByteOrder, ClickVector

CONSTANTS
  Agent,            \* the agents whose advertisements may be heard
  Gateway,          \* MNInfo::_gateway, the home agent's private address
  HomeBit,          \* the agents that advertise the H bit
  ForeignBit,       \* the agents that advertise the F bit
  NoAgent,          \* IPAddress(0)
  Port, Id,         \* what rand() and the clock may yield
  SeqNr,            \* sequence numbers of advertisements
  RegLifetime,      \* registration lifetime in advertisements
  AdLifetime,       \* advertisement lifetime
  Granted,          \* lifetimes replies may grant
  ReplyCode,        \* codes replies may carry
  AlmostOver,       \* RegNode::_registrationAlmostOver
  MaxTries,         \* Solicitation::_max_tries
  InitialCapacity,  \* capacity of a Click vector after its first push_back
  NoAd,             \* no stored advertisement
  MaxPending        \* bound: pending requests the model lets pile up

ASSUME MobileNodeAssumption ==
  /\ Gateway \in Agent /\ NoAgent \notin Agent
  /\ RegLifetime \in Word /\ Granted \subseteq Word /\ SeqNr \subseteq Word
  /\ AdLifetime \in Nat /\ MaxTries \in Nat /\ MaxPending \in Nat
  /\ InitialCapacity \in Nat \ {0}
  /\ NoAd \notin [seq_nr : SeqNr, lifetime : 0 .. AdLifetime]

VARIABLES
  connected,            \* MNInfo::_connected
  foreign_agent,        \* MNInfo::_foreign_agent
  lifetime,             \* MNInfo::_lifetime
  advertisements,       \* MNInfo::_advertisements
  pending,              \* MNInfo::pending
  timers,               \* ProcessAdvertisements::_timers
  capacity,             \* capacity of that vector
  recent,               \* _latestRegAttempt is less than a second ago
  reg_timer,            \* RegNode::_timer is scheduled
  consequent_messages,  \* Solicitation::_consequent_messages
  out                   \* the packets the last step pushed to the network

vars == <<connected, foreign_agent, lifetime, advertisements, pending, timers,
          capacity, recent, reg_timer, consequent_messages, out>>

\* struct request; coaddress is never read.
request ==
  [dest : Agent, id : Id, req_lt : Word, rem_lt : Word, port : Port]

\* What is read of a stored advertisement besides its agent's constant fields.
Stored == [seq_nr : SeqNr, lifetime : 0 .. AdLifetime]
Advertisement == [address : Agent, seq_nr : SeqNr, busy : BOOLEAN]
\* A reply; the relay sends the identification of a timeout swapped.
Reply ==
  [src : Agent, port : Port, id : Id \cup {htons(i) : i \in Id}, code : ReplyCode,
   lifetime : Granted, intact : BOOLEAN]

Init ==
  /\ connected = FALSE /\ foreign_agent = NoAgent /\ lifetime \in Word
  /\ advertisements = [a \in Agent |-> NoAd]
  /\ pending = << >> /\ timers = << >> /\ capacity = 0
  /\ recent = FALSE /\ reg_timer = FALSE /\ consequent_messages = 0
  /\ out = << >>

Known == {a \in Agent : advertisements[a] # NoAd}

-----------------------------------------------------------------------------
\* RegReq::make_packet: the request becomes pending and is sent; a care-of
\* address that is the home address makes it a deregistration.
make_packet(dest, lt, coa) ==
  \E port \in Port, id \in Id :
    /\ Len(pending) < MaxPending
    /\ pending' = Append(pending, [dest |-> dest, id |-> id, req_lt |-> lt,
                                   rem_lt |-> lt, port |-> port])
    /\ out' = <<[kind |-> "request", dest |-> dest, lifetime |-> lt,
                 coa |-> coa, port |-> port, id |-> id]>>

\* A variant that does not reset the lifetime on the way home.
RegReq_push_keeping(a, lt) ==
  \/ /\ a = Gateway /\ foreign_agent # Gateway /\ a \in HomeBit
     /\ foreign_agent' = Gateway
     /\ lifetime' = lt
     /\ make_packet(a, 0, "home")
  \/ /\ a # Gateway /\ a \in ForeignBit
     /\ make_packet(a, RegLifetime, "foreign")
     /\ lifetime' = lt
     /\ UNCHANGED foreign_agent

\* RegReq::push for an advertisement of agent a, with lt the lifetime so far.
\* It settles pending, out, foreign_agent and lifetime.
RegReq_push(a, lt) ==
  \/ /\ a = Gateway /\ foreign_agent # Gateway /\ a \in HomeBit
     /\ foreign_agent' = Gateway
     /\ lifetime' = 0
     /\ make_packet(a, 0, "home")
  \/ /\ a # Gateway /\ a \in ForeignBit
     /\ make_packet(a, RegLifetime, "foreign")
     /\ lifetime' = lt
     /\ UNCHANGED foreign_agent
  \/ /\ IF a = Gateway THEN foreign_agent = Gateway \/ a \notin HomeBit ELSE a \notin ForeignBit
     /\ lifetime' = lt
     /\ out' = << >>
     /\ UNCHANGED <<pending, foreign_agent>>

\* _timers.erase: the timers behind the erased one are copied, and a copied
\* Timer is not scheduled.
erase_timer(ts, i) ==
  [j \in 1 .. (Len(ts) - 1) |->
     IF j < i THEN ts[j] ELSE [ts[j + 1] EXCEPT !.scheduled = FALSE]]

\* _timers.push_back and the scheduling of the new timer: when the vector
\* has to grow every timer is copied.
push_timer(ts, a) ==
  Append(IF Len(ts) < capacity THEN ts
         ELSE [j \in 1 .. Len(ts) |-> [ts[j] EXCEPT !.scheduled = FALSE]],
         [address |-> a, scheduled |-> TRUE])

\* A variant that leaves the old timer in place.
without_timer_forgotten(a) == {timers}

\* The timers without the one of address a, as the only element of a set.
without_timer(a) ==
  {ts \in {erase_timer(timers, i) : i \in 1 .. Len(timers)} \cup {timers} :
     LET at == {i \in 1 .. Len(timers) : timers[i].address = a}
     IN  IF advertisements[a] = NoAd \/ at = {} THEN ts = timers
         ELSE \E i \in at : IsFirst(i, at) /\ ts = erase_timer(timers, i)}

\* Whether a connected node takes advertisement ad for the sign of a reboot:
\* sequence numbers are compared as they come off the wire.
reboot(ad) ==
  LET lsn == IF advertisements[ad.address] = NoAd THEN Byte * Byte - 1
             ELSE htons(advertisements[ad.address].seq_nr)
  IN  htons(ad.seq_nr) <= lsn /\ htons(ad.seq_nr) < Byte

\* ProcessAdvertisements::push.  An advertisement with the busy bit only
\* removes what is known of its agent.
ProcessAdvertisements_push(ad) ==
  /\ advertisements' = [advertisements EXCEPT ![ad.address] =
                          IF ad.busy THEN NoAd
                          ELSE [seq_nr |-> ad.seq_nr, lifetime |-> AdLifetime]]
  /\ \E ts \in without_timer(ad.address) :
       IF ad.busy
       THEN timers' = ts /\ UNCHANGED capacity
       ELSE /\ timers' = push_timer(ts, ad.address)
            /\ capacity' = IF Len(ts) < capacity THEN capacity
                           ELSE IF capacity = 0 THEN InitialCapacity ELSE 2 * capacity
  /\ IF ~ ad.busy /\ (~ connected \/ reboot(ad))
     THEN recent' = TRUE /\ RegReq_push(ad.address, lifetime)
     ELSE out' = << >> /\ UNCHANGED <<recent, pending, foreign_agent, lifetime>>
  /\ UNCHANGED <<connected, reg_timer, consequent_messages>>

\* ProcessAdvertisements::run_timer for the i-th timer.  An expired
\* advertisement is found in the map, at which the handler returns.
ProcessAdvertisements_run_timer(i) ==
  LET a == timers[i].address
      idle == out' = << >> /\ UNCHANGED <<recent, pending, foreign_agent, lifetime>>
  IN  /\ timers[i].scheduled
      /\ IF advertisements[a] # NoAd /\ advertisements[a].lifetime > 0
         THEN /\ advertisements' = [advertisements EXCEPT ![a].lifetime = @ - 1]
              /\ IF ~ connected /\ ~ recent
                 THEN recent' = TRUE /\ \E b \in Known : RegReq_push(b, lifetime)
                 ELSE idle
              /\ UNCHANGED timers
         ELSE /\ timers' = [timers EXCEPT ![i].scheduled = FALSE]
              /\ idle
              /\ UNCHANGED advertisements
      /\ UNCHANGED <<connected, capacity, reg_timer, consequent_messages>>

\* A variant that lets the count wrap and erases nothing.
RegReq_run_timer_wrapping ==
  /\ pending' = [i \in 1 .. Len(pending) |->
                   [pending[i] EXCEPT !.rem_lt = htons(Minus(ntohs(@), 1))]]
  /\ out' = << >>
  /\ UNCHANGED <<connected, foreign_agent, lifetime, advertisements, timers,
                 capacity, recent, reg_timer, consequent_messages>>

\* RegReq::run_timer: remaining lifetimes are in host order but are counted
\* down through ntohs and htons.
RegReq_run_timer ==
  /\ out' = << >>
  /\ UNCHANGED <<connected, foreign_agent, lifetime, advertisements, timers,
                 capacity, recent, reg_timer, consequent_messages>>
  /\ pending' \in Kept([i \in 1 .. Len(pending) |->
                          [pending[i] EXCEPT !.rem_lt = htons(Minus(ntohs(@), 1))]],
                       {i \in 1 .. Len(pending) : ntohs(pending[i].rem_lt) > 0})

\* A variant that computes in wider integers.
granted_lifetime_wide(q, r) == q.rem_lt - (q.req_lt - r.lifetime)

\* What RegNode::push computes from an accepted reply to request q.
granted_lifetime(q, r) == Minus(q.rem_lt, Minus(q.req_lt, r.lifetime))

\* The pending requests after reply r to the i-th: a damaged reply costs the
\* request, one with another identification does not.
pending_after(i, r) ==
  IF r.intact /\ r.id # pending[i].id THEN pending ELSE erase(pending, i)

\* A variant that trusts a damaged reply.
accepts_damaged(q, r) == r.id = q.id /\ r.code \in {0, 1}

\* Whether reply r to request q is an intact acceptance.
accepts(q, r) == r.intact /\ r.id = q.id /\ r.code \in {0, 1}

\* RegNode::push: the first pending request with the reply's source and port
\* decides; an accepting reply of the gateway stops the registration's timer.
RegNode_push(r) ==
  LET at == {i \in 1 .. Len(pending) : pending[i].dest = r.src /\ pending[i].port = r.port}
  IN  /\ \/ /\ at = {}
            /\ UNCHANGED <<pending, connected, foreign_agent, lifetime, reg_timer>>
         \/ \E i \in at :
              /\ IsFirst(i, at)
              /\ pending' = pending_after(i, r)
              /\ IF accepts(pending[i], r)
                 THEN /\ reg_timer' = (r.src # Gateway)
                      /\ IF r.src # Gateway
                         THEN /\ connected' = TRUE
                              /\ foreign_agent' = r.src
                              /\ lifetime' = granted_lifetime(pending[i], r)
                         ELSE UNCHANGED <<connected, foreign_agent, lifetime>>
                 ELSE UNCHANGED <<connected, foreign_agent, lifetime, reg_timer>>
      /\ out' = << >>
      /\ UNCHANGED <<advertisements, timers, capacity, recent, consequent_messages>>

\* RegNode::run_timer: renew when the lifetime is almost over, and give the
\* connection up when it is over.
RegNode_run_timer ==
  /\ reg_timer
  /\ IF lifetime > 0
     THEN /\ connected' = (connected /\ lifetime # 1)
          /\ IF lifetime - 1 = AlmostOver /\ foreign_agent \in Known
             THEN RegReq_push(foreign_agent, lifetime - 1)
             ELSE /\ lifetime' = lifetime - 1
                  /\ out' = << >>
                  /\ UNCHANGED <<pending, foreign_agent>>
     ELSE /\ out' = << >>
          /\ UNCHANGED <<connected, lifetime, pending, foreign_agent>>
  /\ UNCHANGED <<advertisements, timers, capacity, recent, reg_timer, consequent_messages>>

\* Solicitation::run_timer.
Solicitation_run_timer ==
  /\ IF connected \/ Known # {}
     THEN consequent_messages' = 0 /\ out' = << >>
     ELSE \/ /\ consequent_messages < MaxTries
             /\ consequent_messages' = consequent_messages + 1
             /\ out' = <<[kind |-> "solicitation"]>>
          \/ /\ consequent_messages >= MaxTries
             /\ out' = << >>
             /\ UNCHANGED consequent_messages
  /\ UNCHANGED <<connected, foreign_agent, lifetime, advertisements, pending, timers,
                 capacity, recent, reg_timer>>

\* MNInfo::push: a datagram of the node leaves through the foreign agent, or
\* where the routing table (library/mn.click) sends it.
MNInfo_push ==
  /\ out' = <<[kind |-> "datagram", via |-> IF connected THEN foreign_agent ELSE Gateway]>>
  /\ UNCHANGED <<connected, foreign_agent, lifetime, advertisements, pending, timers,
                 capacity, recent, reg_timer, consequent_messages>>

\* A second has passed since _latestRegAttempt.
AttemptAges ==
  /\ recent
  /\ recent' = FALSE
  /\ out' = << >>
  /\ UNCHANGED <<connected, foreign_agent, lifetime, advertisements, pending, timers,
                 capacity, reg_timer, consequent_messages>>

Next ==
  \/ \E ad \in Advertisement : ProcessAdvertisements_push(ad)
  \/ \E i \in 1 .. Len(timers) : ProcessAdvertisements_run_timer(i)
  \/ RegReq_run_timer
  \/ \E r \in Reply : RegNode_push(r)
  \/ RegNode_run_timer
  \/ Solicitation_run_timer
  \/ MNInfo_push
  \/ AttemptAges

Spec == Init /\ [][Next]_vars

\* RegReq::run_timer schedules its timer again at its end, and the Click driver
\* runs expired timers before it waits for packets.
RegReqFairSpec == Spec /\ WF_vars(RegReq_run_timer)

\* The other handlers run, too, when their timers are scheduled.
FairSpec ==
  /\ RegReqFairSpec
  /\ WF_vars(RegNode_run_timer)
  /\ WF_vars(\E i \in 1 .. Len(timers) : ProcessAdvertisements_run_timer(i))

-----------------------------------------------------------------------------
Packet ==
  [kind : {"request"}, dest : Agent, lifetime : Word, coa : {"home", "foreign"},
   port : Port, id : Id]
    \cup [kind : {"solicitation"}]
    \cup [kind : {"datagram"}, via : Agent]

\* The node's state stays well formed: lifetimes keep to sixteen bits, and a
\* datagram always has an agent to go to (MNInfo::push).
TypeOK ==
  /\ connected \in BOOLEAN
  /\ foreign_agent \in Agent \cup {NoAgent}
  /\ connected => foreign_agent \in Agent
  /\ lifetime \in Word
  /\ advertisements \in [Agent -> Stored \cup {NoAd}]
  /\ pending \in Seq(request)
  /\ timers \in Seq([address : Agent, scheduled : BOOLEAN])
  /\ capacity \in Nat
  /\ recent \in BOOLEAN /\ reg_timer \in BOOLEAN
  /\ consequent_messages \in 0 .. MaxTries
  /\ out \in Seq(Packet)

\* ProcessAdvertisements keeps one timer for every stored advertisement and
\* none for any other agent, through erasures, growth and busy agents: the
\* handler of a timer never looks an advertisement up in vain.  Whether the
\* timer is still scheduled is another matter (LostAgentsAreForgotten).
OneTimerPerAdvertisement ==
  /\ \A i \in 1 .. Len(timers) : timers[i].address \in Known
  /\ \A a \in Known : \E i \in 1 .. Len(timers) : timers[i].address = a
  /\ \A i, j \in 1 .. Len(timers) : timers[i].address = timers[j].address => i = j

\* A node that has deregistered (RegReq::push took the gateway for its agent)
\* has no lifetime left to count, until a foreign agent accepts it again.
HomeHasNoLifetime == foreign_agent = Gateway => lifetime = 0

AcceptedFor(i, r) ==
  /\ r.intact /\ r.code \in {0, 1} /\ r.src # Gateway
  /\ pending[i].dest = r.src /\ pending[i].port = r.port /\ pending[i].id = r.id
  /\ pending' = erase(pending, i)
  /\ connected' /\ foreign_agent' = r.src
  /\ pending[i].rem_lt = pending[i].req_lt => lifetime' = r.lifetime

\* Nothing but a reply makes the node connected or gives it a longer lifetime,
\* and a reply that changes any of these is intact, accepts a request that is
\* still pending, by its agent, port and identification, takes that request
\* off the list and makes its agent the node's (RegNode::push): none is
\* accepted twice, unasked or for another request.  If it comes before
\* RegReq::run_timer has counted, the lifetime is the one it grants.
OnlyAcceptedRequestsConnect ==
  [][/\ (connected' /\ ~ connected) \/ lifetime' > lifetime => \E r \in Reply : RegNode_push(r)
     /\ <<connected, foreign_agent, lifetime>>' # <<connected, foreign_agent, lifetime>> =>
          \A r \in Reply : RegNode_push(r) => \E i \in 1 .. Len(pending) : AcceptedFor(i, r)]_vars

\* A pending request is counted down from what it asked for, a second at a
\* time although in the wrong byte order: after a step every one on the list
\* was there before, with the same count or one less when RegReq::run_timer
\* has run, or is the request just sent.  No reply prolongs or changes one.
PendingRunsDown ==
  [][LET seconds == IF RegReq_run_timer THEN 1 ELSE 0
     IN  \A j \in 1 .. Len(pending') :
           \/ \E i \in 1 .. Len(pending) :
                /\ pending'[j] = [pending[i] EXCEPT !.rem_lt = pending'[j].rem_lt]
                /\ ntohs(pending'[j].rem_lt) = ntohs(pending[i].rem_lt) - seconds
           \/ /\ out' # << >> /\ out'[1].kind = "request"
              /\ pending'[j] =
                   [dest |-> out'[1].dest, id |-> out'[1].id, req_lt |-> out'[1].lifetime,
                    rem_lt |-> out'[1].lifetime, port |-> out'[1].port]]_vars

\* Pending requests do not stay for ever: once the node sends no more of
\* them its list empties (RegReq::run_timer), whatever replies come.
PendingRequestsEnd ==
  <>[][out' = << >> \/ out'[1].kind # "request"]_vars => <>[](pending = << >>)
=============================================================================
