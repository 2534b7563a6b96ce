----------------------------- MODULE HomeAgent -----------------------------
(***************************************************************************)
(* The home agent: the elements HA (ha.cc), RegRep (RegRep.cc) and         *)
(* Encapsulator (encapsulation.cc), wired as in library/ha.click.  One     *)
(* Click process handles one packet at a time, so every push is one step.  *)
(*                                                                         *)
(* The vector _mobility_bindings is only ever searched, extended and       *)
(* purged by home address, so it is kept here as one sequence per home     *)
(* address; the order of entries of different addresses is never read.     *)
(***************************************************************************)
EXTENDS ByteOrder, Sequences

CONSTANTS
  HomeAddress,    \* the mobile nodes' addresses on the home network
  CareOfAddress,  \* the care-of addresses requests may name
  Sender,         \* the IP source addresses requests may come from
  Agent,          \* the values of a request's home_agent field
  Broadcast,      \* 255.255.255.255
  Flags,          \* the sets of flag bits requests may carry
  Lifetime,       \* the lifetimes requests may ask for
  Id,             \* identification fields
  Nothing,        \* no packet
  MaxBindings     \* bound: entries of one address the model lets pile up

ASSUME HomeAgentAssumption ==
  /\ Lifetime \subseteq Word
  /\ MaxBindings \in Nat

VARIABLES
  mobility_bindings,  \* HA::_mobility_bindings, per home address
  out,                \* the packet pushed to an output by the last step
  asked               \* the request that step handled, if it handled one

vars == <<mobility_bindings, out, asked>>

\* struct mobile_info; its home address is the index of the sequence.
mobile_info ==
  [careOfAddress : HomeAddress \cup CareOfAddress,
   identification : Id,
   remainingLifetime : 0 .. (Byte - 1)]

\* The fields of a registration request (regreq_h) and its IP source.
Request ==
  {q \in [src : Sender, home_address : HomeAddress, home_agent : Agent,
          care_of_address : HomeAddress \cup CareOfAddress, flags : Flags,
          lifetime : Lifetime, id : Id] :
     q.care_of_address \in CareOfAddress \cup {q.home_address}}

\* The fields of a registration reply (regrep_h), where it goes, and on
\* which side of the agent.
Reply ==
  [side : {"private", "public"}, dst : Sender, code : {0, 128, 134, 135, 136},
   home_address : HomeAddress, home_agent : Agent, lifetime : Lifetime, id : Id]

ASSUME NothingAssumption == Nothing \notin Reply

\* A datagram for a mobile node: delivered on the home link (via its own
\* address) or tunnelled to a care-of address.
Datagram == [dst : HomeAddress, via : HomeAddress \cup CareOfAddress]

Init ==
  /\ mobility_bindings = [h \in HomeAddress |-> << >>]
  /\ out = Nothing /\ asked = Nothing

-----------------------------------------------------------------------------
check_acceptable(q) ==
  IF q.flags \cap {"x", "r"} # {} THEN 134
  ELSE IF "D" \in q.flags THEN 128
  ELSE IF "S" \in q.flags /\ mobility_bindings[q.home_address] # << >> THEN 135
  ELSE IF q.home_agent = Broadcast THEN 136
  ELSE 0

\* Deviation: the field kept at its full width.
binding_untruncated(q) ==
  [careOfAddress |-> q.care_of_address,
   identification |-> q.id,
   remainingLifetime |-> htons(q.lifetime)]

\* Deviation: the sender's address taken for the care-of address.
binding_to_sender(q) ==
  [careOfAddress |-> q.src,
   identification |-> q.id,
   remainingLifetime |-> Truncate(htons(q.lifetime))]

\* The remaining lifetime is the low byte of the field as it came off the wire.
binding_of(q) ==
  [careOfAddress |-> q.care_of_address,
   identification |-> q.id,
   remainingLifetime |-> Truncate(htons(q.lifetime))]

\* Deviation: the purge loop stops after the first entry it erases.
entries_purging_one(entries, q) ==
  IF q.home_address # q.care_of_address THEN Append(entries, binding_of(q))
  ELSE IF entries = << >> THEN << >> ELSE Tail(entries)

\* The entries of the requesting node after its request is accepted: one
\* whose care-of address is the home address purges them all, any other
\* adds one.
entries_after(entries, q) ==
  IF q.home_address = q.care_of_address THEN << >>
  ELSE Append(entries, binding_of(q))

\* RegRep::push: a registration request has arrived.
RegRep_push(q) ==
  LET home == q.home_address = q.care_of_address
      code == check_acceptable(q)
  IN  /\ home \/ Len(mobility_bindings[q.home_address]) < MaxBindings
      /\ mobility_bindings' =
           IF code \in {0, 1}
           THEN [mobility_bindings EXCEPT ![q.home_address] = entries_after(@, q)]
           ELSE mobility_bindings
      /\ out' = [side |-> IF home THEN "private" ELSE "public",
                 dst |-> q.src, code |-> code, home_address |-> q.home_address,
                 home_agent |-> q.home_agent, lifetime |-> q.lifetime, id |-> q.id]
      /\ asked' = q

\* Encapsulator::get_destination_ip: the first entry decides.
get_destination_ip(h) ==
  IF mobility_bindings[h] = << >> THEN h
  ELSE Head(mobility_bindings[h]).careOfAddress

\* HA::push and, on its second output, Encapsulator::push: a datagram for
\* the home network is tunnelled when its destination has an entry.
HA_push(h) ==
  /\ out' = [dst |-> h,
             via |-> IF mobility_bindings[h] # << >> THEN get_destination_ip(h) ELSE h]
  /\ asked' = Nothing
  /\ UNCHANGED mobility_bindings

Next ==
  \/ \E q \in Request : RegRep_push(q)
  \/ \E h \in HomeAddress : HA_push(h)

Spec == Init /\ [][Next]_vars

-----------------------------------------------------------------------------
\* Type invariant: bindings and outgoing packets are well formed.
TypeOK ==
  /\ mobility_bindings \in [HomeAddress -> Seq(mobile_info)]
  /\ out \in Reply \cup Datagram \cup {Nothing}
  /\ asked \in Request \cup {Nothing}

\* A reply tells its mobile node the truth about the tunnel
\* (RegRep::push updates the list before it builds the reply): after an
\* accepted registration there is a tunnel, after an accepted
\* deregistration (answered on the private side) there is none, a denial
\* changes no entry, and no request changes the entries of another node.
TruthfulStep ==
  out' \in Reply =>
    LET h == out'.home_address
    IN  /\ out'.code \notin {0, 1} => UNCHANGED mobility_bindings
        /\ out'.code \in {0, 1} =>
             (mobility_bindings'[h] = << >> <=> out'.side = "private")
        /\ \A g \in HomeAddress \ {h} :
             mobility_bindings'[g] = mobility_bindings[g]

\* Every step that pushes a reply is a TruthfulStep (RegRep::push).
ReplyIsTruthful == [][TruthfulStep]_vars

\* What a reply says of the tunnel.
answer(r) ==
  IF r.code \notin {0, 1} THEN "denied"
  ELSE IF r.side = "private" THEN "released" ELSE "granted"

\* The route of an address is what Encapsulator::get_destination_ip answers
\* for it.
Cache == INSTANCE BindingCache WITH
  route <- [h \in HomeAddress |-> get_destination_ip(h)],
  told <- IF out \in Reply
          THEN [home_address |-> out.home_address,
                care_of_address |-> asked.care_of_address, answer |-> answer(out)]
          ELSE out

\* The home agent implements BindingCache: after any sequence of
\* registrations, renewals, moves and deregistrations (RegRep::push) a
\* datagram (HA::push, Encapsulator::push) is tunnelled to a care-of address
\* its node has named since it was last released, and to none when it was
\* released, however many entries had piled up.
CacheSpec == Cache!Spec
=============================================================================
