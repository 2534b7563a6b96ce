---------------------------- MODULE ForeignAgent ----------------------------
(***************************************************************************)
(* The foreign agent's registration relay: the elements FA (fa.hh) and     *)
(* Relay (relay.cc), wired as in library/fa.click.  Mobile nodes' requests *)
(* become pending and are forwarded to the home agent; its replies are     *)
(* forwarded to the mobile node; a one-second timer ages both lists.       *)
(*                                                                         *)
(* Ports, identifications and lifetimes are words in host order, as the    *)
(* sender meant them; where the code forgets or repeats a conversion the   *)
(* word is swapped here too.  An identification is the low 32 bits, the    *)
(* only part any element compares; its low digit stands for the low 16.    *)
(***************************************************************************)
EXTENDS ByteOrder, ClickVector

CONSTANTS
  HomeAddress,        \* the mobile nodes (ip_src and home_address of a request)
  Agent,              \* home agents
  Port, Id, Lifetime, \* the words requests and replies may carry
  Flags,              \* the sets of flag bits requests may carry
  ReplyCode,          \* the codes home agents may answer with
  IcmpCode,           \* codes of ICMP destination-unreachable messages
  RegistrationLimit,  \* Relay::_registrationLimit, -1 when not configured
  RequestTimeout,     \* the 7 of Relay::run_timer
  MaxRequests         \* bound: pending requests the model lets pile up

ASSUME ForeignAgentAssumption ==
  /\ Port \subseteq Word /\ Id \subseteq Word /\ Lifetime \subseteq Word
  /\ ReplyCode \subseteq Nat /\ IcmpCode \subseteq Nat
  /\ {66, 70} \cap (ReplyCode \cup IcmpCode) = {}  \* those are the relay's own
  /\ RegistrationLimit \in Int
  /\ RequestTimeout \in Nat
  /\ MaxRequests \in Nat

VARIABLES
  requests,       \* FA::requests
  registrations,  \* FA::registrations
  out             \* the packets the last step pushed, in order

vars == <<requests, registrations, out>>

\* struct vEntry, without the addresses that are never read again.
vEntry ==
  [ip_src : HomeAddress, udp_src : Port, home_agent : Agent, id : Id,
   requested_lifetime : Lifetime, remaining_lifetime : Word]

\* A pair of FA::registrations: of its vEntry only the lifetime is used.
Registration == [home_address : HomeAddress, remaining_lifetime : Word]

Request ==
  [intact : BOOLEAN, home_address : HomeAddress, home_agent : Agent,
   port : Port, id : Id, lifetime : Lifetime, flags : Flags]

Reply ==
  [intact : BOOLEAN, home_address : HomeAddress, code : ReplyCode,
   lifetime : Lifetime, id : Id]

Init ==
  /\ requests = << >>
  /\ registrations = << >>
  /\ out = << >>

\* A reply on output 0 and a forwarded request on output 1.
ToMobile(h, port, code, lifetime, id) ==
  [to |-> "mobile", dst |-> h, port |-> port, code |-> code,
   lifetime |-> lifetime, id |-> id]

ToHome(p) ==
  [to |-> "home", dst |-> p.home_agent, home_address |-> p.home_address,
   lifetime |-> p.lifetime, id |-> p.id, flags |-> p.flags]

\* Relay::createRep: a reply of the foreign agent's own.
createRep(code, h, udpd, id) == ToMobile(h, udpd, code, 0, id)

-----------------------------------------------------------------------------
Silent ==
  /\ out' = << >>
  /\ UNCHANGED <<requests, registrations>>

\* A variant that forgets the limit.
reject_code_unlimited(p) ==
  IF p.flags \cap {"x", "r", "G", "M"} # {} THEN 70 ELSE 0

\* The code a request is rejected with, or 0: the last test that holds wins.
reject_code(p) ==
  IF p.flags \cap {"x", "r", "G", "M"} # {} THEN 70
  ELSE IF RegistrationLimit > -1 /\ Len(registrations) >= RegistrationLimit THEN 66
  ELSE 0

pending_entry(p) ==
  [ip_src |-> p.home_address, udp_src |-> p.port, home_agent |-> p.home_agent,
   id |-> p.id, requested_lifetime |-> p.lifetime, remaining_lifetime |-> p.lifetime]

\* Relay::relayReq.  A rejection carries the port as it came off the wire
\* and the identification cut to sixteen bits.
relayReq(p) ==
  \/ /\ ~ p.intact
     /\ Silent
  \/ /\ p.intact /\ reject_code(p) # 0
     /\ out' = <<createRep(reject_code(p), p.home_address, htons(p.port), Truncate(p.id))>>
     /\ UNCHANGED <<requests, registrations>>
  \/ /\ p.intact /\ reject_code(p) = 0
     /\ Len(requests) < MaxRequests
     /\ requests' = Append(requests, pending_entry(p))
     /\ out' = <<ToHome(p)>>
     /\ UNCHANGED registrations

\* A variant that forgets to look for the node's registration.
register_appending(r) ==
  IF r.lifetime # 0
  THEN registrations' = Append(registrations, [home_address |-> r.home_address,
                                               remaining_lifetime |-> htons(r.lifetime)])
  ELSE registrations' = erase(registrations, 1)

\* A variant that always deregisters the first.
register_first(r) ==
  LET at == {k \in 1 .. Len(registrations) : registrations[k].home_address = r.home_address}
      entry == [home_address |-> r.home_address, remaining_lifetime |-> htons(r.lifetime)]
  IN  IF r.lifetime = 0 THEN registrations' = erase(registrations, 1)
      ELSE \/ at = {} /\ registrations' = Append(registrations, entry)
           \/ \E k \in at : IsLast(k, at) /\ registrations' = [registrations EXCEPT ![k] = entry]

\* Relay::relayRep, an accepted reply: the lifetime is stored as it came off
\* the wire; a lifetime of zero erases the registration found, or else the
\* first one.
register(r) ==
  LET at == {k \in 1 .. Len(registrations) :
               registrations[k].home_address = r.home_address}
      entry == [home_address |-> r.home_address,
                remaining_lifetime |-> htons(r.lifetime)]
  IN  IF r.lifetime # 0
      THEN \/ at = {} /\ registrations' = Append(registrations, entry)
           \/ \E k \in at : IsLast(k, at) /\ registrations' = [registrations EXCEPT ![k] = entry]
      ELSE \/ at = {} /\ registrations' = erase(registrations, 1)
           \/ \E k \in at : IsLast(k, at) /\ registrations' = erase(registrations, k)

\* The port of the slot a pending request was erased from: by then the slot
\* holds the request behind it, if there is one.
port_of_slot(i) ==
  requests[IF i < Len(requests) THEN i + 1 ELSE i].udp_src

\* Relay::relayRep: the first pending request of the node is answered.
relayRep(r) ==
  LET at == {i \in 1 .. Len(requests) : requests[i].ip_src = r.home_address}
  IN  \/ /\ ~ r.intact \/ at = {}
         /\ Silent
      \/ /\ r.intact
         /\ \E i \in at :
              /\ IsFirst(i, at)
              /\ requests' = erase(requests, i)
              /\ out' = <<ToMobile(r.home_address, port_of_slot(i), r.code, r.lifetime, r.id)>>
         /\ IF r.code \in {0, 1} THEN register(r) ELSE UNCHANGED registrations

\* A variant that answers the requests and keeps them.
icmp_keeping(a, code) ==
  /\ out' \in Kept([i \in 1 .. Len(requests) |->
                      createRep(code, requests[i].ip_src, requests[i].udp_src, requests[i].id)],
                   {i \in 1 .. Len(requests) : requests[i].home_agent = a})
  /\ UNCHANGED <<requests, registrations>>

\* Relay::push, ICMP destination unreachable from the way to home agent a:
\* the loop erases a matching request, steps over the one that moves into
\* its slot, and answers with the ICMP code itself.
icmp(a, code) ==
  \E erased \in SUBSET (1 .. Len(requests)) :
    /\ \A i \in 1 .. Len(requests) :
         i \in erased <=> requests[i].home_agent = a /\ (i - 1) \notin erased
    /\ requests' \in Kept(requests, (1 .. Len(requests)) \ erased)
    /\ out' \in Kept([i \in 1 .. Len(requests) |->
                        createRep(code, requests[i].ip_src, requests[i].udp_src, requests[i].id)],
                     erased)
    /\ UNCHANGED registrations

\* Variants that lower before they erase without a test, and never lower.
age_registrations_unguarded ==
  registrations' = [i \in 1 .. Len(registrations) |->
                      [registrations[i] EXCEPT !.remaining_lifetime = @ - 1]]
age_registrations_frozen ==
  registrations' \in Kept(registrations,
                          {i \in 1 .. Len(registrations) : registrations[i].remaining_lifetime > 0})

\* A variant with one loop that steps over what moves into an erased slot.
age_registrations_skipping ==
  \E erased \in SUBSET (1 .. Len(registrations)) :
    /\ \A i \in 1 .. Len(registrations) :
         i \in erased <=> registrations[i].remaining_lifetime = 0 /\ (i - 1) \notin erased
    /\ registrations' \in Kept([i \in 1 .. Len(registrations) |->
                                IF (i - 1) \in erased THEN registrations[i]
                                ELSE [registrations[i] EXCEPT !.remaining_lifetime = @ - 1]],
                               (1 .. Len(registrations)) \ erased)

\* Relay::run_timer, the registrations.
age_registrations ==
  \E kept \in Kept(registrations,
                   {i \in 1 .. Len(registrations) : registrations[i].remaining_lifetime > 0}) :
    registrations' = [i \in 1 .. Len(kept) |->
                        [kept[i] EXCEPT !.remaining_lifetime = @ - 1]]

\* One tick of a pending request; the stored word is in host order but is
\* read through ntohs and written through htons.
ticked(e) ==
  [e EXCEPT !.remaining_lifetime = htons(Minus(ntohs(e.remaining_lifetime), 1))]

\* A variant that compares with one second more.
times_out_later(e) ==
  /\ e.requested_lifetime > 0
  /\ e.requested_lifetime - ticked(e).remaining_lifetime > RequestTimeout + 1

times_out(e) ==
  /\ e.requested_lifetime > 0
  /\ e.requested_lifetime - ticked(e).remaining_lifetime > RequestTimeout

\* Relay::run_timer, the pending requests: the loop ends at the first one
\* that times out; requests that asked for no lifetime are dropped.
age_requests ==
  LET late == {i \in 1 .. Len(requests) : times_out(requests[i])}
      alive(i) == requests[i].requested_lifetime > 0
  IN  \/ /\ late = {}
         /\ requests' \in Kept([i \in 1 .. Len(requests) |-> ticked(requests[i])],
                               {i \in 1 .. Len(requests) : alive(i)})
         /\ out' = << >>
      \/ \E t \in late :
           /\ IsFirst(t, late)
           /\ requests' \in Kept([i \in 1 .. Len(requests) |->
                                    IF i < t THEN ticked(requests[i]) ELSE requests[i]],
                                 {i \in 1 .. Len(requests) : i > t \/ (i < t /\ alive(i))})
           /\ out' = <<createRep(78, requests[t].ip_src, requests[t].udp_src,
                                 htons(requests[t].id))>>

run_timer == age_registrations /\ age_requests

\* Relay::push: a packet for port 434 or an ICMP error has arrived.
push ==
  \/ \E p \in Request : relayReq(p)
  \/ \E r \in Reply : relayRep(r)
  \/ \E a \in Agent, code \in IcmpCode : icmp(a, code)

Next == push \/ run_timer

Spec == Init /\ [][Next]_vars

\* The timer is scheduled again at the end of every run_timer, so seconds
\* keep passing.
FairSpec == Spec /\ WF_vars(run_timer)

-----------------------------------------------------------------------------
Packet ==
  [to : {"mobile"}, dst : HomeAddress, port : Word, code : Nat, lifetime : Word, id : Word]
    \cup
  [to : {"home"}, dst : Agent, home_address : HomeAddress, lifetime : Lifetime,
   id : Id, flags : Flags]

\* The lists hold entries of their types and no lifetime leaves its sixteen
\* bits, however often run_timer decrements it.
TypeOK ==
  /\ requests \in Seq(vEntry)
  /\ registrations \in Seq(Registration)
  /\ out \in Seq(Packet)

\* A mobile node has at most one registration, whatever replies relayRep
\* records and whatever run_timer and the erasures move around.
UniqueRegistrations ==
  \A i, j \in 1 .. Len(registrations) :
    registrations[i].home_address = registrations[j].home_address => i = j

Pending(h, q) == Cardinality({i \in 1 .. Len(q) : q[i].ip_src = h})
Lasting(h, q) == Cardinality({i \in 1 .. Len(q) : q[i].ip_src = h /\ q[i].requested_lifetime > 0})

\* The replies of a step to h that answer a pending request: all but the
\* rejections of relayReq.
Answers(h, o) ==
  Cardinality({k \in 1 .. Len(o) : o[k].to = "mobile" /\ o[k].dst = h /\ o[k].code \notin {66, 70}})

\* In every step and for every mobile node, the replies sent on to it and its
\* pending requests balance: none is answered that is not taken off the list,
\* and none that asked for a lifetime is taken off unanswered (relayRep, the
\* ICMP loop and the timeout of run_timer).
AnsweredOnce ==
  [][\A h \in HomeAddress :
       /\ Answers(h, out') >= Lasting(h, requests) - Lasting(h, requests')
       /\ Answers(h, out') > 0 =>
            Answers(h, out') <= Pending(h, requests) - Pending(h, requests')]_vars

Registered(h) == \E i \in 1 .. Len(registrations) : registrations[i].home_address = h
Grants(o, h) == o.to = "mobile" /\ o.dst = h /\ o.code \in {0, 1} /\ o.lifetime # 0
Renews(h) == \E k \in 1 .. Len(out') : Grants(out'[k], h)
Requests(h) == \E k \in 1 .. Len(out') : out'[k].to = "home" /\ out'[k].home_address = h

Deregisters(o) == o.to = "mobile" /\ o.code \in {0, 1} /\ o.lifetime = 0

\* A registration does not end before its time: in a step that ends the one
\* of h it had no second left (run_timer), or a deregistration was accepted,
\* of h or of a node that is not registered, for which relayRep erases the
\* first registration there is.
RegistrationsLast ==
  [][\A h \in HomeAddress :
       Registered(h) /\ ~ Registered(h)' =>
         \/ \E i \in 1 .. Len(registrations) : registrations[i] = [home_address |-> h, remaining_lifetime |-> 0]
         \/ \E k \in 1 .. Len(out') : Deregisters(out'[k]) /\ (out'[k].dst = h \/ ~ Registered(out'[k].dst))
    ]_vars

\* Registrations count down.  The count of a registration starts from the
\* lifetime of the acceptance relayed to its node in that step, in the byte
\* order of the wire, which relayRep does not convert (relay.cc:309): one
\* granted for 100 s starts from 25600.  From then on it is one less when a
\* second has passed and the same otherwise: whatever run_timer and relayRep
\* erase and move, none is created, prolonged, shortened or given to another
\* node.
RegistrationsRunDown ==
  [][\A j \in 1 .. Len(registrations') :
       LET h == registrations'[j].home_address
           left == registrations'[j].remaining_lifetime
       IN  IF Renews(h)
           THEN \E k \in 1 .. Len(out') : Grants(out'[k], h) /\ left = htons(out'[k].lifetime)
           ELSE \E i \in 1 .. Len(registrations) :
                  /\ registrations[i].home_address = h
                  /\ left = registrations[i].remaining_lifetime - (IF run_timer THEN 1 ELSE 0)]_vars

\* _registrationLimit: while as many nodes are registered as it allows, no
\* request is let in.  Registrations and pending requests together do not
\* grow, so that the limit is overrun by no more than the requests that
\* relayReq let in before it was reached.
LimitAdmitsNone ==
  [][RegistrationLimit > -1 /\ Len(registrations) >= RegistrationLimit =>
       Len(registrations') + Len(requests') <= Len(registrations) + Len(requests)]_vars

\* Registrations are soft state: a mobile node for which no further acceptance
\* is relayed ends up unregistered, whatever the other nodes do (run_timer).
RegistrationsLapse ==
  \A h \in HomeAddress : <>[][~ Renews(h)]_vars => <>[](~ Registered(h))

\* No pending request starves: a node that sends no more requests ends up
\* with none pending, although run_timer stops at the first timeout of a
\* second and other nodes' requests keep coming.
PendingRequestsEnd ==
  \A h \in HomeAddress : <>[][~ Requests(h)]_vars => <>[](Pending(h, requests) = 0)
=============================================================================
