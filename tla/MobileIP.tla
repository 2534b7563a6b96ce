------------------------------ MODULE MobileIP ------------------------------
(***************************************************************************)
(* One mobile node, its home agent and one foreign agent on the networks   *)
(* of scripts/glue.click.  The node and the foreign agent are the modules  *)
(* MobileNode and ForeignAgent; of the home agent the composition uses the *)
(* promise it implements, BindingCache.  out holds the packet in flight:   *)
(* it arrives or is lost before a timer runs or the node moves, except     *)
(* that a request on its way from the foreign to the home agent may be     *)
(* held up (late) and overtaken.  No other packet is ever late here.       *)
(*                                                                         *)
(* Agents advertise with any number that Advertisement::sendPacket may     *)
(* have come to, never busy and without a restart; what solicitations      *)
(* fetch is unicast, goes to the node's host and is left out, as are       *)
(* datagrams (see Reached) and ICMP errors.  A request that is repeated    *)
(* has a new port and identification; one number stands for the two.       *)
(***************************************************************************)
EXTENDS ByteOrder, ClickVector

CONSTANTS
  mn,              \* the mobile node's home address
  ha, fa,          \* the agents, by their private addresses
  None,
  Number,          \* what ports and identifications are drawn from
  SeqNr,           \* the numbers of the advertisements the node hears
  RegLifetime,     \* lifetime fa offers, and of registrations
  AdLifetime, AlmostOver, RequestTimeout, InitialCapacity,
  Late,            \* whether relayed requests may be held up
  MaxPending, MaxRequests  \* bounds: pending requests of node and relay

ASSUME MobileIPAssumption ==
  /\ ha # fa /\ mn # fa
  /\ None \notin {ha, fa}
  /\ RegLifetime \in Word /\ SeqNr \subseteq Word

VARIABLES
  connected, foreign_agent, lifetime, advertisements, pending, timers,
  capacity, recent, reg_timer, consequent_messages,  \* of MobileNode
  requests, registrations,                           \* of ForeignAgent
  route,                                             \* of BindingCache
  out,       \* the packet in flight, if there is one
  late,      \* a relayed request that is held up, if there is one
  up, down,  \* the agent on the link the node sends to, receives from
  mishap     \* a packet other than a request to fa was lost or late

nodeVars == <<connected, foreign_agent, lifetime, advertisements, pending, timers,
              capacity, recent, reg_timer, consequent_messages>>
relayVars == <<requests, registrations>>
placeVars == <<up, down>>
vars == <<nodeVars, relayVars, route, out, late, placeVars, mishap>>

Node == INSTANCE MobileNode WITH
  Agent <- {ha, fa}, Gateway <- ha, HomeBit <- {ha}, ForeignBit <- {fa}, NoAgent <- None,
  Port <- Number, Id <- Number, Granted <- {0, RegLifetime}, ReplyCode <- {0, 78},
  MaxTries <- 0, NoAd <- None

Relay == INSTANCE ForeignAgent WITH
  HomeAddress <- {mn}, Agent <- {ha}, Port <- Number, Id <- Number,
  Lifetime <- {RegLifetime}, Flags <- {{}}, ReplyCode <- {0}, IcmpCode <- {},
  RegistrationLimit <- -1

Quiet == out = << >>
HomeAnswer == ~ Quiet /\ "from" \in DOMAIN out[1]

Home == INSTANCE BindingCache WITH
  HomeAddress <- {mn}, CareOfAddress <- {fa}, Nothing <- None,
  told <- IF HomeAnswer
          THEN [home_address |-> mn, care_of_address |-> out[1].dst,
                answer |-> IF out[1].dst = mn THEN "released" ELSE "granted"]
          ELSE None

Init ==
  /\ Node!Init /\ Relay!Init /\ Home!Init
  /\ lifetime = 0 /\ late = None /\ mishap = FALSE
  /\ up \in {ha, fa} /\ down = up

NewRequest ==
  LET used == {pending[i].id : i \in 1 .. Len(pending)}
  IN  out'[1].port = out'[1].id /\ IsFirst(out'[1].id, Number \ used)
NodeStep ==
  /\ out' # << >> => NewRequest
  /\ UNCHANGED <<relayVars, route, late, placeVars, mishap>>

-----------------------------------------------------------------------------
\* The agent on the node's link broadcasts an advertisement with number n,
\* which an agent that does not restart can send after the one the node has
\* stored: a larger one, or one from 256 on after a rollover.
Advertise(n) ==
  /\ Quiet /\ down # None
  /\ n < Byte /\ advertisements[down] # None => n > advertisements[down].seq_nr
  /\ Node!ProcessAdvertisements_push([address |-> down, seq_nr |-> n, busy |-> FALSE])
  /\ NodeStep

AdvertisementAges ==
  /\ Quiet
  /\ \E i \in 1 .. Len(timers) : Node!ProcessAdvertisements_run_timer(i)
  /\ NodeStep
PendingAges == Quiet /\ Node!RegReq_run_timer /\ NodeStep
RegistrationAges == Quiet /\ Node!RegNode_run_timer /\ NodeStep
AttemptAges == Quiet /\ Node!AttemptAges /\ NodeStep

RelayAges ==
  /\ Quiet
  /\ Relay!run_timer
  /\ UNCHANGED <<nodeVars, route, late, placeVars, mishap>>

-----------------------------------------------------------------------------
\* What is in flight.
Request == ~ Quiet /\ "kind" \in DOMAIN out[1]
Relayed == ~ Quiet /\ "to" \in DOMAIN out[1] /\ out[1].to = "home"
Answer == ~ Quiet /\ "to" \in DOMAIN out[1] /\ out[1].to = "mobile"

\* A request of the node reaches the agent it is sent to, if that is the one
\* on its link.
RelayHearsRequest ==
  /\ Request /\ out[1].dest = fa /\ up = fa
  /\ Relay!relayReq([intact |-> TRUE, home_address |-> mn, home_agent |-> ha, port |-> out[1].port,
                     id |-> out[1].id, lifetime |-> out[1].lifetime, flags |-> {}])
  /\ UNCHANGED <<nodeVars, route, late, placeVars, mishap>>

\* A variant of the next action that purges nothing.
HomeHearsRequest_keeping ==
  /\ Request /\ out[1].dest = ha /\ up = ha
  /\ out' = <<[from |-> ha, dst |-> mn, port |-> out[1].port, id |-> out[1].id,
               lifetime |-> out[1].lifetime]>>
  /\ UNCHANGED <<nodeVars, relayVars, route, late, placeVars, mishap>>

\* RegRep::push for a deregistration.
HomeHearsRequest ==
  /\ Request /\ out[1].dest = ha /\ up = ha
  /\ out' = <<[from |-> ha, dst |-> mn, port |-> out[1].port, id |-> out[1].id,
               lifetime |-> out[1].lifetime]>>
  /\ Home!Deregister(mn)
  /\ UNCHANGED <<nodeVars, relayVars, late, placeVars, mishap>>

\* A variant that grants without a record.
Register_unrecorded(p) ==
  /\ out' = <<[from |-> ha, dst |-> fa, id |-> p.id, lifetime |-> p.lifetime]>>
  /\ UNCHANGED <<nodeVars, relayVars, route, placeVars, mishap>>

\* A variant that grants the lifetime in the other byte order.
Register_swapped(p) ==
  /\ out' = <<[from |-> ha, dst |-> fa, id |-> p.id, lifetime |-> htons(p.lifetime)]>>
  /\ Home!Register(mn, fa)
  /\ UNCHANGED <<nodeVars, relayVars, placeVars, mishap>>

\* RegRep::push for a request that fa has relayed.
Register(p) ==
  /\ out' = <<[from |-> ha, dst |-> fa, id |-> p.id, lifetime |-> p.lifetime]>>
  /\ Home!Register(mn, fa)
  /\ UNCHANGED <<nodeVars, relayVars, placeVars, mishap>>

HomeHearsRelayed == Relayed /\ Register(out[1]) /\ UNCHANGED late
HomeHearsLate == Quiet /\ late # None /\ Register(late) /\ late' = None

RelayHearsAnswer ==
  /\ HomeAnswer /\ out[1].dst = fa
  /\ Relay!relayRep([intact |-> TRUE, home_address |-> mn, code |-> 0,
                     lifetime |-> out[1].lifetime, id |-> out[1].id])
  /\ UNCHANGED <<nodeVars, route, late, placeVars, mishap>>

\* A reply reaches the node, if it receives from that link.
NodeHears(a, code) ==
  /\ down = a
  /\ Node!RegNode_push([src |-> a, port |-> out[1].port, id |-> out[1].id, code |-> code,
                        lifetime |-> out[1].lifetime, intact |-> TRUE])
  /\ NodeStep
NodeHearsAnswer ==
  \/ Answer /\ NodeHears(fa, out[1].code)
  \/ HomeAnswer /\ out[1].dst = mn /\ NodeHears(ha, 0)

\* The packet is lost.
Lose ==
  /\ ~ Quiet
  /\ out' = << >>
  /\ mishap' = (mishap \/ ~ (Request /\ out[1].dest = fa))
  /\ UNCHANGED <<nodeVars, relayVars, route, late, placeVars>>

HoldUp ==
  /\ Late /\ Relayed /\ late = None
  /\ late' = out[1] /\ out' = << >>
  /\ mishap' = TRUE
  /\ UNCHANGED <<nodeVars, relayVars, route, placeVars>>

-----------------------------------------------------------------------------
\* A variant that turns the node's sending side first.
write_switch_first ==
  /\ Quiet
  /\ \/ down' = (IF down = None THEN up ELSE None) /\ UNCHANGED up
     \/ up' = (IF up = ha THEN fa ELSE ha) /\ UNCHANGED down
  /\ UNCHANGED <<nodeVars, relayVars, route, out, late, mishap>>

\* to_foreign.sh and to_home.sh write one switch of glue.click at a time.
write_switch ==
  /\ Quiet
  /\ \/ /\ down' = IF down = None THEN up ELSE None  \* home_mobility, foreign_mobility
        /\ UNCHANGED up
     \/ /\ down = None                               \* mobility
        /\ up' = IF up = ha THEN fa ELSE ha
        /\ UNCHANGED down
  /\ UNCHANGED <<nodeVars, relayVars, route, out, late, mishap>>

Deliver ==
  \/ RelayHearsRequest \/ HomeHearsRequest \/ HomeHearsRelayed \/ RelayHearsAnswer
  \/ NodeHearsAnswer

Timers == AdvertisementAges \/ PendingAges \/ RegistrationAges \/ AttemptAges \/ RelayAges

\* Everything but the node's movements.
Stay == (\E n \in SeqNr : Advertise(n)) \/ Timers \/ Deliver \/ HomeHearsLate \/ Lose \/ HoldUp
Next == Stay \/ write_switch

\* The links are fair: what is sent again and again arrives again and again.
\* fa's timer runs again and again; it waits here until no packet is in
\* flight, which in the program takes no time of its own.  An agent's numbers
\* run through all from 256 on again and again.  Of the node's timers, the
\* advertisements and what is on a link that loses nothing, weak fairness is
\* enough.
Fairness ==
  /\ SF_vars(RelayHearsRequest) /\ SF_vars(HomeHearsRelayed)
  /\ SF_vars(RelayHearsAnswer) /\ SF_vars(NodeHearsAnswer) /\ SF_vars(RelayAges)
  /\ \A n \in SeqNr : WF_vars(Advertise(n))
  /\ WF_vars(PendingAges) /\ WF_vars(RegistrationAges)
  /\ WF_vars(HomeHearsRequest) /\ WF_vars(Lose)

Spec == Init /\ [][Next]_vars
FairSpec == Spec /\ Fairness

-----------------------------------------------------------------------------
Tunnelled == route[mn] = fa
Abroad == up = fa /\ down = fa
AtHome == up = ha /\ down = ha

\* Whether a datagram for the node finds it: HA::push sends it to the home
\* link or through the tunnel, at whose end CheckEncap::push sends it to the
\* link of fa, whoever is registered there.
Reached == down = IF Tunnelled THEN fa ELSE ha

\* Type invariant: one packet at a time, on links the node can be on.
TypeOK ==
  /\ Len(out) <= 1
  /\ up \in {ha, fa} /\ down \in {up, None}
  /\ foreign_agent \in {ha, fa, None} /\ lifetime \in Word
  /\ route \in [{mn} -> {mn, fa}]
  /\ mishap \in BOOLEAN

\* The parts fit together: what each of them sends, a lifetime of zero, a
\* swapped identification and the port of a moved list slot included, is
\* among what the next one's own specification has it receive.  Every step
\* that changes the state of a part is a step of that part's module, so what
\* holds of the states of the parts alone (MobileNode, ForeignAgent,
\* BindingCache) holds here.  What they say of out is not carried over: here
\* out is the one packet in flight.
Composes ==
  /\ Node!Init /\ [][Node!Next]_nodeVars
  /\ Relay!Init /\ [][Relay!Next]_relayVars
  /\ Home!Init /\ [][Home!Next]_route

\* While the node takes fa for its agent (MNInfo::_foreign_agent, through which
\* MNInfo::push sends) its home agent tunnels to fa: whatever is lost or timed
\* out, however late relayed requests are and however the node moves,
\* RegNode::push takes fa only for a request that the home agent has granted
\* and not yet withdrawn.  It says nothing of a node that is connected to the
\* gateway: RegReq::push deregisters a node that is still connected when it
\* comes home and hears a multiple of 256, and leaves _connected as it is.
AgentIsTunnelled == foreign_agent = fa => Tunnelled

\* The node knows of its tunnel: unless something was lost or held up between
\* the two, the home agent tunnels exactly while the node takes fa for its
\* agent, so that RegReq::push deregisters it when it hears home again.
InStep == ~ mishap /\ Quiet => (Tunnelled <=> foreign_agent = fa)

\* A node that stays abroad is found by its datagrams in the end, although
\* any packet may be lost: RegReq::push asks again at every advertisement
\* until the node is connected, and one that is still connected from before
\* asks at a multiple of 256.
AbroadIsReached == <>[]Abroad => <>[]Reached

\* A node that comes home is found there in the end, when nothing but
\* requests to fa was lost: its registration runs out (RegNode::run_timer),
\* and the next advertisement makes RegReq::push deregister it.
ReturnIsReached == <>[]AtHome /\ []~mishap => <>[]Reached
=============================================================================
