------------------------- MODULE ForeignAgentProofs -------------------------
(***************************************************************************)
(* Proofs about the foreign agent, for any number of mobile nodes, home    *)
(* agents, pending requests and any width of a byte.                       *)
(***************************************************************************)
EXTENDS ForeignAgent, ClickLemmas

-----------------------------------------------------------------------------
\* Every reply the agent may send to a mobile node is a packet (createRep,
\* relayRep).
LEMMA ToMobileType ==
  ASSUME NEW h \in HomeAddress, NEW port \in Word, NEW code \in Nat,
         NEW lifetime \in Word, NEW id \in Word
  PROVE  ToMobile(h, port, code, lifetime, id) \in Packet
  BY DEF ToMobile, Packet

\* The fields of a pending request.
LEMMA EntryFields ==
  \A e \in vEntry : /\ e.ip_src \in HomeAddress /\ e.udp_src \in Port /\ e.udp_src \in Word
                    /\ e.id \in Word /\ e.remaining_lifetime \in Word
                    /\ e.requested_lifetime \in Lifetime
  BY ForeignAgentAssumption DEF vEntry

\* A tick of the timer keeps a pending request well formed (run_timer).
LEMMA TickedType == \A e \in vEntry : ticked(e) \in vEntry
<1> TAKE e \in vEntry
<1>1. htons(Minus(ntohs(e.remaining_lifetime), 1)) \in Word
  BY EntryFields, SwapType, MinusType
<1> QED
  BY <1>1 DEF ticked, vEntry

\* relayReq keeps the types.
LEMMA RelayReqType ==
  ASSUME TypeOK, NEW p \in Request, relayReq(p)
  PROVE  TypeOK'
<1>1. /\ p.home_address \in HomeAddress /\ p.port \in Port /\ p.id \in Id
      /\ p.port \in Word /\ p.id \in Word /\ p.lifetime \in Lifetime /\ p.lifetime \in Word
      /\ p.home_agent \in Agent /\ p.flags \in Flags
  BY ForeignAgentAssumption DEF Request
<1>2. CASE Silent
  BY <1>2 DEF Silent, TypeOK
<1>3. CASE /\ out' = <<createRep(reject_code(p), p.home_address, htons(p.port), Truncate(p.id))>>
           /\ UNCHANGED <<requests, registrations>>
  <2>1. reject_code(p) \in Nat
    BY DEF reject_code
  <2>2. createRep(reject_code(p), p.home_address, htons(p.port), Truncate(p.id)) \in Packet
    BY <1>1, <2>1, SwapType, TruncateWord, ZeroWord, ToMobileType DEF createRep
  <2> QED
    BY <1>3, <2>2 DEF TypeOK
<1>4. CASE /\ requests' = Append(requests, pending_entry(p))
           /\ out' = <<ToHome(p)>>
           /\ UNCHANGED registrations
  <2>1. pending_entry(p) \in vEntry
    BY <1>1 DEF pending_entry, vEntry
  <2>2. ToHome(p) \in Packet
    BY <1>1 DEF ToHome, Packet
  <2> QED
    BY <1>4, <2>1, <2>2 DEF TypeOK
<1> QED
  BY <1>2, <1>3, <1>4 DEF relayReq

\* Recording an accepted reply keeps the type of the registrations.
LEMMA RegisterType ==
  ASSUME TypeOK, NEW r \in Reply, register(r)
  PROVE  registrations' \in Seq(Registration)
<1> DEFINE at == {k \in 1 .. Len(registrations) :
                    registrations[k].home_address = r.home_address}
           entry == [home_address |-> r.home_address,
                     remaining_lifetime |-> htons(r.lifetime)]
<1>1. entry \in Registration
  <2>1. r.lifetime \in Word /\ r.home_address \in HomeAddress
    BY ForeignAgentAssumption DEF Reply
  <2> QED
    BY <2>1, SwapType DEF Registration
<1>2. registrations \in Seq(Registration)
  BY DEF TypeOK
<1>3. CASE registrations' = Append(registrations, entry)
  BY <1>1, <1>2, <1>3
<1>4. ASSUME NEW k \in at, registrations' = [registrations EXCEPT ![k] = entry]
      PROVE  registrations' \in Seq(Registration)
  BY <1>1, <1>2, <1>4
<1>5. ASSUME NEW k \in at \cup {1}, registrations' = erase(registrations, k)
      PROVE  registrations' \in Seq(Registration)
  <2>1. k \in Nat
    BY <1>2
  <2> HIDE DEF at
  <2> QED
    BY <1>2, <1>5, <2>1, EraseType
<1>6. \/ registrations' = Append(registrations, entry)
      \/ \E k \in at : registrations' = [registrations EXCEPT ![k] = entry]
      \/ \E k \in at \cup {1} : registrations' = erase(registrations, k)
  <2> HIDE DEF entry, at
  <2>1. IF r.lifetime # 0
        THEN \/ at = {} /\ registrations' = Append(registrations, entry)
             \/ \E k \in at : IsLast(k, at) /\ registrations' = [registrations EXCEPT ![k] = entry]
        ELSE \/ at = {} /\ registrations' = erase(registrations, 1)
             \/ \E k \in at : IsLast(k, at) /\ registrations' = erase(registrations, k)
    BY Zenon DEF register, at, entry
  <2> QED
    BY <2>1
<1> QED
  BY <1>3, <1>4, <1>5, <1>6

\* relayRep keeps the types.
LEMMA RelayRepType ==
  ASSUME TypeOK, NEW r \in Reply, relayRep(r)
  PROVE  TypeOK'
<1> DEFINE at == {i \in 1 .. Len(requests) : requests[i].ip_src = r.home_address}
<1>1. CASE Silent
  BY <1>1 DEF Silent, TypeOK
<1>2. ASSUME NEW i \in at,
             requests' = erase(requests, i),
             out' = <<ToMobile(r.home_address, port_of_slot(i), r.code, r.lifetime, r.id)>>,
             IF r.code \in {0, 1} THEN register(r) ELSE UNCHANGED registrations
      PROVE  TypeOK'
  <2>1. requests \in Seq(vEntry) /\ i \in 1 .. Len(requests)
    BY DEF TypeOK
  <2>2. requests' \in Seq(vEntry)
    BY <1>2, <2>1, EraseType
  <2>3. port_of_slot(i) \in Word
    BY <2>1, EntryFields DEF port_of_slot
  <2>4. /\ r.home_address \in HomeAddress /\ r.code \in Nat
        /\ r.lifetime \in Word /\ r.id \in Word
    BY ForeignAgentAssumption DEF Reply
  <2>5. out' \in Seq(Packet)
    BY <1>2, <2>3, <2>4, ToMobileType
  <2>6. registrations' \in Seq(Registration)
    BY <1>2, RegisterType DEF TypeOK
  <2> QED
    BY <2>2, <2>5, <2>6 DEF TypeOK
<1> QED
  BY <1>1, <1>2 DEF relayRep

\* The ICMP loop keeps the types.
LEMMA IcmpType ==
  ASSUME TypeOK, NEW a \in Agent, NEW code \in IcmpCode, icmp(a, code)
  PROVE  TypeOK'
<1> DEFINE reply(i) == createRep(code, requests[i].ip_src, requests[i].udp_src, requests[i].id)
           replies == [i \in 1 .. Len(requests) |-> reply(i)]
<1>1. requests \in Seq(vEntry)
  BY DEF TypeOK
<1>2. PICK erased \in SUBSET (1 .. Len(requests)) :
        /\ requests' \in Kept(requests, (1 .. Len(requests)) \ erased)
        /\ out' \in Kept(replies, erased)
        /\ UNCHANGED registrations
  BY DEF icmp
<1>3. replies \in Seq(Packet) /\ Len(replies) = Len(requests)
  <2>1. ASSUME NEW i \in 1 .. Len(requests) PROVE reply(i) \in Packet
    <3>1. requests[i] \in vEntry /\ code \in Nat
      BY <1>1, ForeignAgentAssumption
    <3> QED
      BY <3>1, EntryFields, ZeroWord, ToMobileType DEF createRep
  <2>2. Len(requests) \in Nat
    BY <1>1
  <2> HIDE DEF reply
  <2> QED
    BY <2>1, <2>2
<1> HIDE DEF replies
<1>4. out' \in Seq(Packet)
  BY <1>2, <1>3, KeptType
<1>5. requests' \in Seq(vEntry)
  BY <1>1, <1>2, KeptType
<1> QED
  BY <1>2, <1>4, <1>5 DEF TypeOK

\* The aging of registrations: those kept have at least one second left, and
\* are the old ones with a second less.
LEMMA AgedRegistrations ==
  ASSUME TypeOK, age_registrations
  PROVE  \E kept \in Seq(Registration) :
           /\ kept \in Kept(registrations,
                            {i \in 1 .. Len(registrations) :
                               registrations[i].remaining_lifetime > 0})
           /\ registrations' = [i \in 1 .. Len(kept) |->
                                  [kept[i] EXCEPT !.remaining_lifetime = @ - 1]]
           /\ \A i \in 1 .. Len(kept) : kept[i].remaining_lifetime > 0
<1> DEFINE K == {i \in 1 .. Len(registrations) : registrations[i].remaining_lifetime > 0}
<1>1. registrations \in Seq(Registration) /\ K \in SUBSET (1 .. Len(registrations))
  BY DEF TypeOK
<1>2. PICK kept \in Kept(registrations, K) :
        registrations' = [i \in 1 .. Len(kept) |->
                            [kept[i] EXCEPT !.remaining_lifetime = @ - 1]]
  BY DEF age_registrations
<1>3. \A i \in K : registrations[i].remaining_lifetime > 0
  OBVIOUS
<1> HIDE DEF K
<1>4. kept \in Seq(Registration)
  BY <1>1, KeptType
<1>5. \A i \in 1 .. Len(kept) : \E j \in K : kept[i] = registrations[j]
  BY <1>1, KeptPositions DEF Selects
<1>6. \A i \in 1 .. Len(kept) : kept[i].remaining_lifetime > 0
  BY <1>3, <1>5
<1> QED
  BY <1>2, <1>4, <1>6 DEF K

\* run_timer keeps the types.
LEMMA RunTimerType ==
  ASSUME TypeOK, run_timer
  PROVE  TypeOK'
<1>1. requests \in Seq(vEntry) /\ Len(requests) \in Nat
  BY DEF TypeOK
<1>2. registrations' \in Seq(Registration)
  <2>1. PICK kept \in Seq(Registration) :
          /\ registrations' = [i \in 1 .. Len(kept) |->
                                 [kept[i] EXCEPT !.remaining_lifetime = @ - 1]]
          /\ \A i \in 1 .. Len(kept) : kept[i].remaining_lifetime > 0
    BY AgedRegistrations DEF run_timer
  <2>2. ASSUME NEW i \in 1 .. Len(kept)
        PROVE  [kept[i] EXCEPT !.remaining_lifetime = @ - 1] \in Registration
    <3>1. kept[i] \in Registration /\ kept[i].remaining_lifetime > 0
      BY <2>1
    <3>2. kept[i].remaining_lifetime \in Word
      BY <3>1 DEF Registration
    <3>3. Byte * Byte \in Int
      BY ByteAssumption
    <3>4. kept[i].remaining_lifetime - 1 \in Word
      BY <3>1, <3>2, <3>3 DEF Word
    <3> QED
      BY <3>1, <3>4 DEF Registration
  <2> QED
    BY <2>1, <2>2
<1>3. \A i \in 1 .. Len(requests) : requests[i] \in vEntry /\ ticked(requests[i]) \in vEntry
  BY <1>1, TickedType
<1>4. CASE /\ requests' \in Kept([i \in 1 .. Len(requests) |-> ticked(requests[i])],
                                 {i \in 1 .. Len(requests) : requests[i].requested_lifetime > 0})
           /\ out' = << >>
  <2> DEFINE v == [i \in 1 .. Len(requests) |-> ticked(requests[i])]
             K == {i \in 1 .. Len(requests) : requests[i].requested_lifetime > 0}
  <2>1. v \in Seq(vEntry) /\ Len(v) = Len(requests)
    BY <1>1, <1>3
  <2>2. K \in SUBSET (1 .. Len(v))
    BY <2>1
  <2>3. requests' \in Kept(v, K)
    BY <1>4
  <2> HIDE DEF v, K
  <2> QED
    BY <1>2, <1>4, <2>1, <2>2, <2>3, KeptType DEF TypeOK
<1>5. ASSUME NEW t \in 1 .. Len(requests),
             requests' \in Kept([i \in 1 .. Len(requests) |->
                                    IF i < t THEN ticked(requests[i]) ELSE requests[i]],
                                 {i \in 1 .. Len(requests) :
                                    i > t \/ (i < t /\ requests[i].requested_lifetime > 0)}),
             out' = <<createRep(78, requests[t].ip_src, requests[t].udp_src,
                                htons(requests[t].id))>>
      PROVE  TypeOK'
  <2> DEFINE v == [i \in 1 .. Len(requests) |-> IF i < t THEN ticked(requests[i]) ELSE requests[i]]
             K == {i \in 1 .. Len(requests) :
                     i > t \/ (i < t /\ requests[i].requested_lifetime > 0)}
  <2>1. v \in Seq(vEntry) /\ Len(v) = Len(requests)
    BY <1>1, <1>3
  <2>2. K \in SUBSET (1 .. Len(v))
    BY <2>1
  <2>3. requests' \in Kept(v, K)
    BY <1>5
  <2>4. createRep(78, requests[t].ip_src, requests[t].udp_src, htons(requests[t].id)) \in Packet
    BY <1>3, EntryFields, SwapType, ZeroWord, ToMobileType DEF createRep
  <2>5. out' \in Seq(Packet)
    BY <1>5, <2>4
  <2> HIDE DEF v, K
  <2>6. requests' \in Seq(vEntry)
    BY <2>1, <2>2, <2>3, KeptType
  <2> QED
    BY <1>2, <2>5, <2>6 DEF TypeOK
<1> QED
  BY <1>4, <1>5 DEF run_timer, age_requests

\* Type correctness: whatever arrives, in whatever order, and however long
\* the timer runs, the lists and the packets stay well formed.
THEOREM TypeCorrect == Spec => []TypeOK
<1>1. Init => TypeOK
  BY DEF Init, TypeOK
<1>2. TypeOK /\ [Next]_vars => TypeOK'
  <2> SUFFICES ASSUME TypeOK, [Next]_vars
               PROVE  TypeOK'
    OBVIOUS
  <2>1. CASE push
    BY <2>1, RelayReqType, RelayRepType, IcmpType DEF push
  <2>2. CASE run_timer
    BY <2>2, RunTimerType
  <2>3. CASE UNCHANGED vars
    BY <2>3 DEF vars, TypeOK
  <2> QED
    BY <2>1, <2>2, <2>3 DEF Next
<1> QED
  BY <1>1, <1>2, PTL DEF Spec

-----------------------------------------------------------------------------
\* Recording an accepted reply gives no node a second registration: a new
\* entry is added only when the search found none, and a replaced one keeps
\* its address.
LEMMA RegisterUnique ==
  ASSUME TypeOK, UniqueRegistrations, NEW r \in Reply, register(r)
  PROVE  UniqueRegistrations'
<1> DEFINE at == {k \in 1 .. Len(registrations) :
                    registrations[k].home_address = r.home_address}
           entry == [home_address |-> r.home_address,
                     remaining_lifetime |-> htons(r.lifetime)]
<1>1. registrations \in Seq(Registration)
  BY DEF TypeOK
<1>2. ASSUME at = {}, registrations' = Append(registrations, entry)
      PROVE  UniqueRegistrations'
  <2>1. \A k \in 1 .. Len(registrations) : registrations[k].home_address # r.home_address
    BY <1>2
  <2>2. /\ Len(registrations') = Len(registrations) + 1
        /\ \A k \in 1 .. Len(registrations) : registrations'[k] = registrations[k]
        /\ registrations'[Len(registrations) + 1].home_address = r.home_address
    BY <1>1, <1>2
  <2> QED
    BY <1>1, <2>1, <2>2 DEF UniqueRegistrations
<1>3. ASSUME NEW k \in at, registrations' = [registrations EXCEPT ![k] = entry]
      PROVE  UniqueRegistrations'
  <2>1. /\ Len(registrations') = Len(registrations)
        /\ \A j \in 1 .. Len(registrations) :
             registrations'[j].home_address = registrations[j].home_address
    BY <1>1, <1>3
  <2> QED
    BY <2>1 DEF UniqueRegistrations
<1>4. ASSUME NEW k \in at \cup {1}, registrations' = erase(registrations, k)
      PROVE  UniqueRegistrations'
  <2>1. k \in Nat /\ Len(registrations) \in Nat
    BY <1>1
  <2>2. CASE k \in 1 .. Len(registrations)
    <3>1. /\ Len(registrations') = Len(registrations) - 1
          /\ \A j \in 1 .. (Len(registrations) - 1) :
               registrations'[j] = registrations[IF j < k THEN j ELSE j + 1]
      BY <1>4, <2>1, <2>2 DEF erase
    <3> QED
      BY <2>1, <2>2, <3>1 DEF UniqueRegistrations
  <2>3. CASE k \notin 1 .. Len(registrations)
    BY <1>4, <2>3 DEF erase, UniqueRegistrations
  <2> QED
    BY <2>2, <2>3
<1>5. \/ at = {} /\ registrations' = Append(registrations, entry)
      \/ \E k \in at : registrations' = [registrations EXCEPT ![k] = entry]
      \/ \E k \in at \cup {1} : registrations' = erase(registrations, k)
  <2> HIDE DEF entry, at
  <2>1. IF r.lifetime # 0
        THEN \/ at = {} /\ registrations' = Append(registrations, entry)
             \/ \E k \in at : IsLast(k, at) /\ registrations' = [registrations EXCEPT ![k] = entry]
        ELSE \/ at = {} /\ registrations' = erase(registrations, 1)
             \/ \E k \in at : IsLast(k, at) /\ registrations' = erase(registrations, k)
    BY Zenon DEF register, at, entry
  <2> QED
    BY <2>1
<1> QED
  BY <1>2, <1>3, <1>4, <1>5

\* Aging the registrations gives no node a second one: it erases some and
\* changes no address.
LEMMA AgingUnique ==
  ASSUME TypeOK, UniqueRegistrations, age_registrations
  PROVE  UniqueRegistrations'
<1> DEFINE K == {i \in 1 .. Len(registrations) : registrations[i].remaining_lifetime > 0}
<1>1. registrations \in Seq(Registration) /\ K \in SUBSET (1 .. Len(registrations))
  BY DEF TypeOK
<1>2. PICK kept \in Seq(Registration) :
        /\ kept \in Kept(registrations, K)
        /\ registrations' = [i \in 1 .. Len(kept) |->
                               [kept[i] EXCEPT !.remaining_lifetime = @ - 1]]
  BY AgedRegistrations
<1> HIDE DEF K
<1>3. PICK f : Selects(f, kept, registrations, K)
  BY <1>1, <1>2, KeptPositions
<1>4. /\ Len(registrations') = Len(kept)
      /\ \A j \in 1 .. Len(kept) :
           registrations'[j].home_address = registrations[f[j]].home_address
  <2>1. Len(kept) \in Nat
    BY <1>2
  <2>2. Len(registrations') = Len(kept)
    BY <1>2, <2>1
  <2>3. ASSUME NEW j \in 1 .. Len(kept)
        PROVE  registrations'[j].home_address = registrations[f[j]].home_address
    <3>1. kept[j] \in Registration /\ kept[j] = registrations[f[j]]
      BY <1>2, <1>3 DEF Selects
    <3>2. registrations'[j] = [kept[j] EXCEPT !.remaining_lifetime = @ - 1]
      BY <1>2
    <3> QED
      BY <3>1, <3>2 DEF Registration
  <2> QED
    BY <2>2, <2>3
<1>5. ASSUME NEW i \in 1 .. Len(kept), NEW j \in 1 .. Len(kept),
             registrations'[i].home_address = registrations'[j].home_address
      PROVE  i = j
  <2>1. f[i] \in 1 .. Len(registrations) /\ f[j] \in 1 .. Len(registrations)
    BY <1>3 DEF Selects
  <2>2. f[i] = f[j]
    BY <1>4, <1>5, <2>1 DEF UniqueRegistrations
  <2> QED
    BY <1>3, <2>2 DEF Selects
<1> QED
  BY <1>4, <1>5 DEF UniqueRegistrations

\* No mobile node ever has two registrations.  With the type invariant the
\* property is inductive: only relayRep and run_timer touch the list.
THEOREM RegistrationsUnique == Spec => []UniqueRegistrations
<1>1. Init => UniqueRegistrations
  BY DEF Init, UniqueRegistrations
<1>2. TypeOK /\ UniqueRegistrations /\ [Next]_vars => UniqueRegistrations'
  <2> SUFFICES ASSUME TypeOK, UniqueRegistrations, [Next]_vars
               PROVE  UniqueRegistrations'
    OBVIOUS
  <2>1. ASSUME NEW r \in Reply, relayRep(r)
        PROVE  UniqueRegistrations'
    <3>1. UNCHANGED registrations \/ register(r)
      BY <2>1 DEF relayRep, Silent
    <3> QED
      BY <3>1, RegisterUnique DEF UniqueRegistrations
  <2>2. CASE run_timer
    BY <2>2, AgingUnique DEF run_timer
  <2>3. CASE UNCHANGED registrations
    BY <2>3 DEF UniqueRegistrations
  <2> QED
    BY <2>1, <2>2, <2>3 DEF Next, push, relayReq, icmp, Silent, vars
<1> QED
  BY <1>1, <1>2, TypeCorrect, PTL DEF Spec

-----------------------------------------------------------------------------
\* The step behind RegistrationsLast.
Lasts ==
  \A h \in HomeAddress :
    Registered(h) /\ ~ Registered(h)' =>
      \/ \E i \in 1 .. Len(registrations) : registrations[i] = [home_address |-> h, remaining_lifetime |-> 0]
      \/ \E k \in 1 .. Len(out') : Deregisters(out'[k]) /\ (out'[k].dst = h \/ ~ Registered(out'[k].dst))

\* Ageing ends no registration that has a second left.
LEMMA AgingLasts ==
  ASSUME TypeOK, age_registrations PROVE Lasts
<1> DEFINE K == {i \in 1 .. Len(registrations) : registrations[i].remaining_lifetime > 0}
<1>1. registrations \in Seq(Registration) /\ K \in SUBSET (1 .. Len(registrations))
  BY DEF TypeOK
<1>2. PICK kept \in Seq(Registration) :
        /\ kept \in Kept(registrations, K)
        /\ registrations' = [i \in 1 .. Len(kept) |->
                               [kept[i] EXCEPT !.remaining_lifetime = @ - 1]]
  BY AgedRegistrations
<1>3. ASSUME NEW h \in HomeAddress, NEW i \in 1 .. Len(registrations),
             registrations[i].home_address = h,
             registrations[i] # [home_address |-> h, remaining_lifetime |-> 0]
      PROVE  Registered(h)'
  <2>1. registrations[i] \in Registration
    BY <1>1
  <2>2. registrations[i].remaining_lifetime # 0 /\ registrations[i].remaining_lifetime \in Nat
    BY <1>3, <2>1 DEF Registration, Word
  <2>3. i \in K
    BY <2>2
  <2> HIDE DEF K
  <2>4. PICK j \in 1 .. Len(kept) : kept[j] = registrations[i]
    BY <1>1, <1>2, <2>3, KeptAll
  <2>5. Len(registrations') = Len(kept) /\ Len(kept) \in Nat
    BY <1>2
  <2>6. registrations'[j].home_address = h
    BY <1>2, <1>3, <2>1, <2>4 DEF Registration
  <2> QED
    BY <2>5, <2>6 DEF Registered
<1> QED
  BY <1>3 DEF Lasts, Registered

\* What an accepted reply does to the registrations of other nodes.
LEMMA RegisterLasts ==
  ASSUME TypeOK, NEW r \in Reply, register(r), NEW h \in HomeAddress, Registered(h)
  PROVE  \/ Registered(h)'
         \/ r.lifetime = 0 /\ (r.home_address = h \/ ~ Registered(r.home_address))
<1> DEFINE at == {k \in 1 .. Len(registrations) :
                    registrations[k].home_address = r.home_address}
           entry == [home_address |-> r.home_address,
                     remaining_lifetime |-> htons(r.lifetime)]
<1>1. registrations \in Seq(Registration) /\ Len(registrations) \in Nat
  BY DEF TypeOK
<1>2. PICK i \in 1 .. Len(registrations) : registrations[i].home_address = h
  BY DEF Registered
<1>3. CASE registrations' = Append(registrations, entry)
  <2>1. Len(registrations') = Len(registrations) + 1 /\ registrations'[i] = registrations[i]
    BY <1>1, <1>3
  <2> QED
    BY <1>1, <1>2, <2>1 DEF Registered
<1>4. ASSUME NEW k \in at, registrations' = [registrations EXCEPT ![k] = entry]
      PROVE  Registered(h)'
  <2>1. Len(registrations') = Len(registrations) /\ registrations'[i].home_address = h
    BY <1>1, <1>2, <1>4
  <2> QED
    BY <1>2, <2>1 DEF Registered
<1>5. ASSUME NEW k \in at, registrations' = erase(registrations, k), r.home_address # h
      PROVE  Registered(h)'
  <2>1. i # k /\ k \in 1 .. Len(registrations)
    BY <1>2, <1>5
  <2>2. registrations' = [j \in 1 .. (Len(registrations) - 1) |->
                            IF j < k THEN registrations[j] ELSE registrations[j + 1]]
    BY <1>5, <2>1 DEF erase
  <2>3. Len(registrations') = Len(registrations) - 1
    BY <1>1, <2>1, <2>2
  <2>4. CASE i < k
    <3>1. i \in 1 .. (Len(registrations) - 1) /\ registrations'[i] = registrations[i]
      BY <1>1, <2>1, <2>2, <2>4
    <3> QED
      BY <1>2, <2>3, <3>1 DEF Registered
  <2>5. CASE i > k
    <3>1. i - 1 \in 1 .. (Len(registrations) - 1) /\ registrations'[i - 1] = registrations[i]
      BY <1>1, <2>1, <2>2, <2>5
    <3> QED
      BY <1>2, <2>3, <3>1 DEF Registered
  <2> QED
    BY <1>1, <2>1, <2>4, <2>5
<1>6. at = {} => ~ Registered(r.home_address)
  BY DEF Registered
<1> QED
  BY <1>3, <1>4, <1>5, <1>6 DEF register

\* A registration ends when its lifetime is over or a deregistration is
\* accepted (run_timer and relayRep), whatever else arrives.
THEOREM RegistrationsEndInTime == Spec => RegistrationsLast
<1>1. TypeOK /\ [Next]_vars => [Lasts]_vars
  <2> SUFFICES ASSUME TypeOK, Next PROVE Lasts
    OBVIOUS
  <2>1. CASE UNCHANGED registrations
    BY <2>1 DEF Lasts, Registered
  <2>2. ASSUME NEW r \in Reply, relayRep(r)
        PROVE  Lasts
    <3> SUFFICES ASSUME ~ UNCHANGED registrations PROVE Lasts
      BY <2>1
    <3>1. /\ register(r) /\ r.code \in {0, 1}
          /\ \E p : out' = <<ToMobile(r.home_address, p, r.code, r.lifetime, r.id)>>
      BY <2>2 DEF relayRep, Silent
    <3>2. r.lifetime = 0 => 1 \in 1 .. Len(out') /\ Deregisters(out'[1]) /\ out'[1].dst = r.home_address
      BY <3>1 DEF ToMobile, Deregisters
    <3> QED
      BY <3>1, <3>2, RegisterLasts DEF Lasts
  <2> QED
    BY <2>1, <2>2, AgingLasts DEF Next, push, relayReq, Silent, icmp, run_timer
<1>2. [][Lasts]_vars => RegistrationsLast
  BY PTL DEF RegistrationsLast, Lasts
<1> QED
  BY <1>1, <1>2, TypeCorrect, PTL DEF Spec

-----------------------------------------------------------------------------
\* The balance of answers and pending requests, a step's.
Balanced(h) ==
  /\ Answers(h, out') >= Lasting(h, requests) - Lasting(h, requests')
  /\ Answers(h, out') > 0 => Answers(h, out') <= Pending(h, requests) - Pending(h, requests')

\* The pending requests of a node, those that asked for a lifetime, and the
\* packets that answer one.
Of(h) == {e \in vEntry : e.ip_src = h}
LastingOf(h) == {e \in vEntry : e.ip_src = h /\ e.requested_lifetime > 0}
AnswerTo(h) == {o \in Packet : o.to = "mobile" /\ o.dst = h /\ o.code \notin {66, 70}}

\* What is counted.
LEMMA CountedRequests ==
  ASSUME NEW q \in Seq(vEntry), NEW h
  PROVE  /\ Pending(h, q) = Cardinality(Holding(q, Of(h))) /\ Pending(h, q) \in Nat
         /\ Lasting(h, q) = Cardinality(Holding(q, LastingOf(h))) /\ Lasting(h, q) \in Nat
         /\ IsFiniteSet(Holding(q, Of(h))) /\ IsFiniteSet(Holding(q, LastingOf(h)))
<1>1. \A i \in 1 .. Len(q) : q[i] \in vEntry
  OBVIOUS
<1>2. Holding(q, Of(h)) = {i \in 1 .. Len(q) : q[i].ip_src = h}
  BY <1>1 DEF Holding, Of
<1>3. Holding(q, LastingOf(h)) =
        {i \in 1 .. Len(q) : q[i].ip_src = h /\ q[i].requested_lifetime > 0}
  BY <1>1 DEF Holding, LastingOf
<1> QED
  BY <1>2, <1>3, HoldingFinite DEF Pending, Lasting

\* The same of packets.
LEMMA CountedAnswers ==
  ASSUME NEW o \in Seq(Packet), NEW h
  PROVE  Answers(h, o) = Cardinality(Holding(o, AnswerTo(h))) /\ Answers(h, o) \in Nat
<1>1. \A i \in 1 .. Len(o) : o[i] \in Packet
  OBVIOUS
<1>2. Holding(o, AnswerTo(h)) =
        {k \in 1 .. Len(o) : o[k].to = "mobile" /\ o[k].dst = h /\ o[k].code \notin {66, 70}}
  BY <1>1 DEF Holding, AnswerTo
<1> QED
  BY <1>2, HoldingFinite DEF Answers

\* A step that pushes one packet or none.
LEMMA OneAnswer ==
  ASSUME NEW h
  PROVE  /\ out' = << >> => Answers(h, out') = 0
         /\ \A p : out' = <<p>> =>
              Answers(h, out') = IF p.to = "mobile" /\ p.dst = h /\ p.code \notin {66, 70}
                                 THEN 1 ELSE 0
<1> DEFINE at(o) == {k \in 1 .. Len(o) :
                       o[k].to = "mobile" /\ o[k].dst = h /\ o[k].code \notin {66, 70}}
<1>1. \A o : Answers(h, o) = Cardinality(at(o))
  BY DEF Answers
<1>2. at(<< >>) = {}
  OBVIOUS
<1>3. ASSUME NEW p
      PROVE  at(<<p>>) = IF p.to = "mobile" /\ p.dst = h /\ p.code \notin {66, 70} THEN {1} ELSE {}
  OBVIOUS
<1>4. Cardinality({}) = 0 /\ Cardinality({1}) = 1
  BY FS_EmptySet, FS_Singleton
<1> HIDE DEF at
<1>5. out' = << >> => Answers(h, out') = 0
  BY <1>1, <1>2, <1>4
<1>6. ASSUME NEW p, out' = <<p>>
      PROVE  Answers(h, out') = IF p.to = "mobile" /\ p.dst = h /\ p.code \notin {66, 70}
                                THEN 1 ELSE 0
  <2>1. Answers(h, out') = Cardinality(at(<<p>>))
    BY <1>1, <1>6
  <2> QED
    BY <1>3, <1>4, <2>1
<1> QED
  BY <1>5, <1>6

\* A step that answers nobody and leaves the requests of h with a lifetime.
LEMMA NoneAnswered ==
  ASSUME NEW h, requests \in Seq(vEntry), requests' \in Seq(vEntry), Answers(h, out') = 0,
         Lasting(h, requests) <= Lasting(h, requests')
  PROVE  Balanced(h)
BY CountedRequests DEF Balanced

\* Of a vector whose entries differ from the requests only in what ticks away
\* as many are kept as are in the positions kept.
LEMMA TickedCounts ==
  ASSUME NEW v \in Seq(vEntry), requests \in Seq(vEntry), Len(v) = Len(requests),
         \A i \in 1 .. Len(v) : v[i] = requests[i] \/ v[i] = ticked(requests[i]),
         NEW K \in SUBSET (1 .. Len(v)), requests' \in Kept(v, K), NEW h
  PROVE  /\ Pending(h, requests') = Cardinality(Holding(requests, Of(h)) \cap K)
         /\ Lasting(h, requests') = Cardinality(Holding(requests, LastingOf(h)) \cap K)
<1>1. requests' \in Seq(vEntry)
  BY KeptType
<1>2. ASSUME NEW i \in 1 .. Len(v)
      PROVE  /\ v[i] \in Of(h) <=> requests[i] \in Of(h)
             /\ v[i] \in LastingOf(h) <=> requests[i] \in LastingOf(h)
  <2>1. requests[i] \in vEntry /\ v[i] \in vEntry
    OBVIOUS
  <2>2. v[i].ip_src = requests[i].ip_src /\ v[i].requested_lifetime = requests[i].requested_lifetime
    BY <2>1 DEF ticked, vEntry
  <2> QED
    BY <2>1, <2>2 DEF Of, LastingOf
<1>3. Holding(v, Of(h)) = Holding(requests, Of(h)) /\ Holding(v, LastingOf(h)) = Holding(requests, LastingOf(h))
  BY <1>2 DEF Holding
<1>4. \A S : Cardinality(Holding(requests', S)) = Cardinality(Holding(v, S) \cap K)
  BY KeptCounts
<1>5. /\ Pending(h, requests') = Cardinality(Holding(requests', Of(h)))
      /\ Lasting(h, requests') = Cardinality(Holding(requests', LastingOf(h)))
  BY <1>1, CountedRequests
<1> QED
  BY <1>3, <1>4, <1>5, Zenon

\* relayReq answers no pending request.
LEMMA RelayReqBalanced ==
  ASSUME TypeOK, TypeOK', NEW p \in Request, relayReq(p), NEW h
  PROVE  Balanced(h)
<1>1. requests \in Seq(vEntry) /\ requests' \in Seq(vEntry)
  BY DEF TypeOK
<1>2. CASE Silent
  <2>1. Answers(h, out') = 0 /\ requests' = requests
    BY <1>2, OneAnswer DEF Silent
  <2> QED
    BY <1>1, <2>1, NoneAnswered, CountedRequests
<1>3. CASE /\ reject_code(p) # 0
           /\ out' = <<createRep(reject_code(p), p.home_address, htons(p.port), Truncate(p.id))>>
           /\ UNCHANGED <<requests, registrations>>
  <2>1. reject_code(p) \in {66, 70}
    BY <1>3 DEF reject_code
  <2>2. Answers(h, out') = 0
    BY <1>3, <2>1, OneAnswer DEF createRep, ToMobile
  <2> QED
    BY <1>1, <1>3, <2>2, NoneAnswered, CountedRequests
<1>4. CASE requests' = Append(requests, pending_entry(p)) /\ out' = <<ToHome(p)>>
  <2>1. Answers(h, out') = 0
    BY <1>4, OneAnswer DEF ToHome
  <2>2. /\ Len(requests) \in Nat /\ Len(requests') = Len(requests) + 1
        /\ \A i \in 1 .. Len(requests) : requests'[i] = requests[i]
    BY <1>1, <1>4
  <2>3. Holding(requests, LastingOf(h)) \in SUBSET Holding(requests', LastingOf(h))
    BY <2>2 DEF Holding
  <2>4. Lasting(h, requests) <= Lasting(h, requests')
    BY <1>1, <2>3, CountedRequests, FS_Subset
  <2> QED
    BY <1>1, <2>1, <2>4, NoneAnswered
<1> QED
  BY <1>2, <1>3, <1>4 DEF relayReq

\* One request is taken off the list and, if it is of h, answered.
LEMMA OneAnswered ==
  ASSUME NEW h, requests \in Seq(vEntry), requests' \in Seq(vEntry),
         NEW i \in 1 .. Len(requests), Answers(h, out') = IF requests[i].ip_src = h THEN 1 ELSE 0,
         Lasting(h, requests') >= Cardinality(Holding(requests, LastingOf(h)) \ {i}),
         Pending(h, requests') <= Cardinality(Holding(requests, Of(h)) \ {i})
  PROVE  Balanced(h)
<1> DEFINE P == Holding(requests, Of(h))
           L == Holding(requests, LastingOf(h))
<1>1. /\ Pending(h, requests) = Cardinality(P) /\ Lasting(h, requests) = Cardinality(L)
      /\ IsFiniteSet(P) /\ IsFiniteSet(L) /\ Cardinality(P) \in Nat /\ Cardinality(L) \in Nat
      /\ Pending(h, requests') \in Nat /\ Lasting(h, requests') \in Nat
  BY CountedRequests
<1>2. /\ i \in P <=> requests[i].ip_src = h
      /\ i \in L => requests[i].ip_src = h
  <2>1. requests[i] \in vEntry
    OBVIOUS
  <2> QED
    BY <2>1 DEF Holding, Of, LastingOf
<1>3. /\ Cardinality(P \ {i}) = IF i \in P THEN Cardinality(P) - 1 ELSE Cardinality(P)
      /\ Cardinality(L \ {i}) = IF i \in L THEN Cardinality(L) - 1 ELSE Cardinality(L)
  BY <1>1, FS_RemoveElement
<1> HIDE DEF P, L
<1>4. Lasting(h, requests') >= Cardinality(L \ {i}) /\ Pending(h, requests') <= Cardinality(P \ {i})
  BY DEF P, L
<1> QED
  BY <1>1, <1>2, <1>3, <1>4 DEF Balanced

\* relayRep takes the request off the list that it answers.
LEMMA RelayRepBalanced ==
  ASSUME TypeOK, TypeOK', NEW r \in Reply, relayRep(r), NEW h
  PROVE  Balanced(h)
<1>1. requests \in Seq(vEntry) /\ requests' \in Seq(vEntry)
  BY DEF TypeOK
<1>2. CASE Silent
  <2>1. Answers(h, out') = 0 /\ requests' = requests
    BY <1>2, OneAnswer DEF Silent
  <2> QED
    BY <1>1, <2>1, NoneAnswered, CountedRequests
<1>3. ASSUME NEW i \in 1 .. Len(requests), requests[i].ip_src = r.home_address,
             requests' = erase(requests, i),
             NEW port, out' = <<ToMobile(r.home_address, port, r.code, r.lifetime, r.id)>>
      PROVE  Balanced(h)
  <2>1. r.code \notin {66, 70}
    BY ForeignAgentAssumption DEF Reply
  <2>2. Answers(h, out') = IF requests[i].ip_src = h THEN 1 ELSE 0
    BY <1>3, <2>1, OneAnswer DEF ToMobile
  <2>3. \A S : Cardinality(Holding(requests', S)) = Cardinality(Holding(requests, S) \ {i})
    BY <1>1, <1>3, EraseCounts
  <2>4. /\ Lasting(h, requests') = Cardinality(Holding(requests', LastingOf(h)))
        /\ Pending(h, requests') = Cardinality(Holding(requests', Of(h)))
        /\ Lasting(h, requests') \in Nat /\ Pending(h, requests') \in Nat
    BY <1>1, CountedRequests
  <2>5. /\ Lasting(h, requests') >= Cardinality(Holding(requests, LastingOf(h)) \ {i})
        /\ Pending(h, requests') <= Cardinality(Holding(requests, Of(h)) \ {i})
    BY <2>3, <2>4
  <2> QED
    BY <1>1, <2>2, <2>5, OneAnswered
<1> QED
  BY <1>2, <1>3 DEF relayRep

\* The ICMP loop answers exactly the requests that it erases.
LEMMA IcmpBalanced ==
  ASSUME TypeOK, TypeOK', NEW a \in Agent, NEW code \in IcmpCode, icmp(a, code), NEW h
  PROVE  Balanced(h)
<1> DEFINE reply(i) == createRep(code, requests[i].ip_src, requests[i].udp_src, requests[i].id)
           replies == [i \in 1 .. Len(requests) |-> reply(i)]
           P == Holding(requests, Of(h))
           L == Holding(requests, LastingOf(h))
<1>1. /\ requests \in Seq(vEntry) /\ requests' \in Seq(vEntry) /\ out' \in Seq(Packet)
      /\ Len(requests) \in Nat
  BY DEF TypeOK
<1>2. PICK erased \in SUBSET (1 .. Len(requests)) :
        /\ requests' \in Kept(requests, (1 .. Len(requests)) \ erased)
        /\ out' \in Kept(replies, erased)
  BY DEF icmp
<1>3. ASSUME NEW i \in 1 .. Len(requests)
      PROVE  reply(i) \in Packet /\ (reply(i) \in AnswerTo(h) <=> requests[i] \in Of(h))
  <2>1. requests[i] \in vEntry /\ code \in Nat /\ code \notin {66, 70}
    BY <1>1, ForeignAgentAssumption
  <2>2. reply(i) \in Packet
    BY <2>1, EntryFields, ZeroWord, ToMobileType DEF createRep
  <2>3. reply(i).to = "mobile" /\ reply(i).dst = requests[i].ip_src /\ reply(i).code = code
    BY DEF createRep, ToMobile
  <2> QED
    BY <2>1, <2>2, <2>3 DEF AnswerTo, Of
<1> HIDE DEF reply
<1>4. replies \in Seq(Packet) /\ Len(replies) = Len(requests)
  BY <1>1, <1>3
<1>5. Holding(replies, AnswerTo(h)) = P
  BY <1>3, <1>4 DEF Holding
<1> HIDE DEF replies
<1>6. Answers(h, out') = Cardinality(P \cap erased)
  <2>1. Cardinality(Holding(out', AnswerTo(h))) = Cardinality(Holding(replies, AnswerTo(h)) \cap erased)
    BY <1>2, <1>4, KeptCounts
  <2> QED
    BY <1>1, <1>5, <2>1, CountedAnswers
<1>7. ASSUME NEW S
      PROVE  Cardinality(Holding(requests', S)) = Cardinality(Holding(requests, S) \ erased)
  <2>1. PICK K \in SUBSET (1 .. Len(requests)) : K = (1 .. Len(requests)) \ erased
    OBVIOUS
  <2>2. Cardinality(Holding(requests', S)) = Cardinality(Holding(requests, S) \cap K)
    BY <1>1, <1>2, <2>1, KeptCounts
  <2>3. Holding(requests, S) \cap K = Holding(requests, S) \ erased
    BY <2>1 DEF Holding
  <2> QED
    BY <2>2, <2>3
<1>8. /\ Pending(h, requests) = Cardinality(P) /\ Lasting(h, requests) = Cardinality(L)
      /\ IsFiniteSet(P) /\ IsFiniteSet(L) /\ Cardinality(P) \in Nat /\ Cardinality(L) \in Nat
      /\ Pending(h, requests') = Cardinality(P \ erased)
      /\ Lasting(h, requests') = Cardinality(L \ erased)
  BY <1>1, <1>7, CountedRequests
<1>9. L \cap erased \in SUBSET (P \cap erased)
  BY DEF Holding, Of, LastingOf
<1> HIDE DEF P, L
<1>10. /\ Cardinality(P \ erased) = Cardinality(P) - Cardinality(P \cap erased)
       /\ Cardinality(L \ erased) = Cardinality(L) - Cardinality(L \cap erased)
  BY <1>8, FS_Difference
<1>11. IsFiniteSet(P \cap erased) /\ IsFiniteSet(L \cap erased)
  BY <1>8, FS_Intersection
<1>12. /\ Cardinality(P \cap erased) \in Nat /\ Cardinality(L \cap erased) \in Nat
       /\ Cardinality(L \cap erased) <= Cardinality(P \cap erased)
  BY <1>9, <1>11, FS_CardinalityType, FS_Subset
<1> QED
  BY <1>6, <1>8, <1>10, <1>12 DEF Balanced

\* The timer answers the request that it finds timed out, and drops only
\* requests without a lifetime besides.
LEMMA RunTimerBalanced ==
  ASSUME TypeOK, TypeOK', run_timer, NEW h
  PROVE  Balanced(h)
<1> DEFINE P == Holding(requests, Of(h))
           L == Holding(requests, LastingOf(h))
<1>1. requests \in Seq(vEntry) /\ requests' \in Seq(vEntry) /\ Len(requests) \in Nat
  BY DEF TypeOK
<1>2. \A i \in 1 .. Len(requests) : requests[i] \in vEntry /\ ticked(requests[i]) \in vEntry
  BY <1>1, TickedType
<1>3. /\ P \in SUBSET (1 .. Len(requests)) /\ L \in SUBSET (1 .. Len(requests))
      /\ \A i \in L : requests[i].requested_lifetime > 0
  BY DEF Holding, LastingOf
<1>4. CASE /\ requests' \in Kept([i \in 1 .. Len(requests) |-> ticked(requests[i])],
                                 {i \in 1 .. Len(requests) : requests[i].requested_lifetime > 0})
           /\ out' = << >>
  <2> DEFINE v == [i \in 1 .. Len(requests) |-> ticked(requests[i])]
             K == {i \in 1 .. Len(requests) : requests[i].requested_lifetime > 0}
  <2>1. /\ v \in Seq(vEntry) /\ Len(v) = Len(requests) /\ requests' \in Kept(v, K)
        /\ \A i \in 1 .. Len(v) : v[i] = requests[i] \/ v[i] = ticked(requests[i])
    BY <1>1, <1>2, <1>4
  <2>2. K \in SUBSET (1 .. Len(v)) /\ L \cap K = L
    BY <1>3, <2>1
  <2> HIDE DEF v, K
  <2>3. Lasting(h, requests') = Cardinality(L)
    <3>1. Lasting(h, requests') = Cardinality(Holding(requests, LastingOf(h)) \cap K)
      BY <1>1, <2>1, <2>2, TickedCounts
    <3> QED
      BY <2>2, <3>1
  <2>4. Lasting(h, requests) = Cardinality(L) /\ Lasting(h, requests) \in Nat
    BY <1>1, CountedRequests
  <2>5. Answers(h, out') = 0
    BY <1>4, OneAnswer
  <2> QED
    BY <1>1, <2>3, <2>4, <2>5, NoneAnswered
<1>5. ASSUME NEW t \in 1 .. Len(requests), times_out(requests[t]),
             requests' \in Kept([i \in 1 .. Len(requests) |->
                                    IF i < t THEN ticked(requests[i]) ELSE requests[i]],
                                 {i \in 1 .. Len(requests) :
                                    i > t \/ (i < t /\ requests[i].requested_lifetime > 0)}),
             out' = <<createRep(78, requests[t].ip_src, requests[t].udp_src,
                                htons(requests[t].id))>>
      PROVE  Balanced(h)
  <2> DEFINE v == [i \in 1 .. Len(requests) |-> IF i < t THEN ticked(requests[i]) ELSE requests[i]]
             K == {i \in 1 .. Len(requests) :
                     i > t \/ (i < t /\ requests[i].requested_lifetime > 0)}
  <2>1. /\ v \in Seq(vEntry) /\ Len(v) = Len(requests) /\ requests' \in Kept(v, K)
        /\ \A i \in 1 .. Len(v) : v[i] = requests[i] \/ v[i] = ticked(requests[i])
    BY <1>1, <1>2, <1>5
  <2>2. /\ K \in SUBSET (1 .. Len(v)) /\ t \notin K
        /\ \A i \in 1 .. Len(requests) : i # t /\ requests[i].requested_lifetime > 0 => i \in K
    BY <2>1
  <2> HIDE DEF v, K
  <2>3. L \cap K = L \ {t} /\ P \cap K \in SUBSET (P \ {t})
    BY <1>3, <2>2
  <2>4. /\ Lasting(h, requests') = Cardinality(L \cap K)
        /\ Pending(h, requests') = Cardinality(P \cap K)
    BY <1>1, <2>1, <2>2, TickedCounts
  <2>5. IsFiniteSet(P) /\ Lasting(h, requests') \in Nat /\ Pending(h, requests') \in Nat
    BY <1>1, CountedRequests
  <2>6. Answers(h, out') = IF requests[t].ip_src = h THEN 1 ELSE 0
    BY SMTT(30), <1>5, OneAnswer DEF createRep, ToMobile
  <2> HIDE DEF P, L
  <2>7. IsFiniteSet(P \ {t})
    BY <2>5, FS_RemoveElement
  <2>8. /\ Lasting(h, requests') >= Cardinality(L \ {t})
        /\ Pending(h, requests') <= Cardinality(P \ {t})
    <3>1. Cardinality(P \cap K) <= Cardinality(P \ {t})
      BY <2>3, <2>7, FS_Subset
    <3>2. Lasting(h, requests') = Cardinality(L \ {t})
      BY <2>3, <2>4
    <3> QED
      BY <2>4, <2>5, <3>1, <3>2
  <2>9. /\ Lasting(h, requests') >= Cardinality(Holding(requests, LastingOf(h)) \ {t})
        /\ Pending(h, requests') <= Cardinality(Holding(requests, Of(h)) \ {t})
    BY <2>8 DEF P, L
  <2> QED
    BY <1>1, <2>6, <2>9, OneAnswered
<1> QED
  BY <1>4, <1>5 DEF run_timer, age_requests

\* Replies and pending requests balance: whatever arrives and whenever the
\* timer runs, no request is answered twice (relayRep, the ICMP loop,
\* run_timer), and none that asked for a lifetime is forgotten.
THEOREM RequestsAreAnsweredOnce == Spec => AnsweredOnce
<1> DEFINE Balance == \A h \in HomeAddress : Balanced(h)
<1>1. TypeOK /\ TypeOK' /\ [Next]_vars => [Balance]_vars
  <2> SUFFICES ASSUME TypeOK, TypeOK', Next, NEW h \in HomeAddress PROVE Balanced(h)
    OBVIOUS
  <2>1. CASE push
    BY <2>1, RelayReqBalanced, RelayRepBalanced, IcmpBalanced DEF push
  <2>2. CASE run_timer
    BY <2>2, RunTimerBalanced
  <2> QED
    BY <2>1, <2>2 DEF Next
<1>2. [][Balance]_vars => AnsweredOnce
  BY PTL DEF AnsweredOnce, Balanced
<1> QED
  BY <1>1, <1>2, TypeCorrect, PTL DEF Spec

-----------------------------------------------------------------------------
\* A registration after a step is that of the same node before, with the
\* seconds that have passed taken off (the step behind RegistrationsRunDown).
RunDown(j, seconds) ==
  \E i \in 1 .. Len(registrations) :
    /\ registrations[i].home_address = registrations'[j].home_address
    /\ registrations'[j].remaining_lifetime = registrations[i].remaining_lifetime - seconds

\* Ageing takes one second off every registration it keeps.
LEMMA AgingRunsDown ==
  ASSUME TypeOK, age_registrations, NEW j \in 1 .. Len(registrations')
  PROVE  RunDown(j, 1)
<1> DEFINE K == {i \in 1 .. Len(registrations) : registrations[i].remaining_lifetime > 0}
<1>1. registrations \in Seq(Registration) /\ K \in SUBSET (1 .. Len(registrations))
  BY DEF TypeOK
<1>2. PICK kept \in Seq(Registration) :
        /\ kept \in Kept(registrations, K)
        /\ registrations' = [i \in 1 .. Len(kept) |->
                               [kept[i] EXCEPT !.remaining_lifetime = @ - 1]]
  BY AgedRegistrations
<1> HIDE DEF K
<1>3. PICK f : Selects(f, kept, registrations, K)
  BY <1>1, <1>2, KeptPositions
<1>4. j \in 1 .. Len(kept) /\ registrations'[j] = [kept[j] EXCEPT !.remaining_lifetime = @ - 1]
  BY <1>2
<1>5. f[j] \in 1 .. Len(registrations) /\ kept[j] = registrations[f[j]] /\ kept[j] \in Registration
  BY <1>2, <1>3, <1>4 DEF Selects
<1> QED
  BY <1>4, <1>5 DEF RunDown, Registration

\* An accepted reply writes the registration of its own node, which is the
\* only one it has, and moves the others as they are.
LEMMA RegisterRunsDown ==
  ASSUME TypeOK, UniqueRegistrations, NEW r \in Reply, register(r),
         NEW j \in 1 .. Len(registrations')
  PROVE  IF r.lifetime # 0 /\ registrations'[j].home_address = r.home_address
         THEN registrations'[j].remaining_lifetime = htons(r.lifetime)
         ELSE \E i \in 1 .. Len(registrations) : registrations'[j] = registrations[i]
<1> DEFINE at == {k \in 1 .. Len(registrations) :
                    registrations[k].home_address = r.home_address}
           entry == [home_address |-> r.home_address,
                     remaining_lifetime |-> htons(r.lifetime)]
<1>1. registrations \in Seq(Registration) /\ Len(registrations) \in Nat
  BY DEF TypeOK
<1>2. CASE r.lifetime # 0 /\ at = {} /\ registrations' = Append(registrations, entry)
  <2>1. \/ j \in 1 .. Len(registrations) /\ registrations'[j] = registrations[j]
        \/ registrations'[j] = entry
    BY <1>1, <1>2
  <2> QED
    BY <1>2, <2>1
<1>3. ASSUME NEW k \in at, r.lifetime # 0, registrations' = [registrations EXCEPT ![k] = entry]
      PROVE  IF registrations'[j].home_address = r.home_address
             THEN registrations'[j].remaining_lifetime = htons(r.lifetime)
             ELSE \E i \in 1 .. Len(registrations) : registrations'[j] = registrations[i]
  <2>1. j \in 1 .. Len(registrations) /\ k \in 1 .. Len(registrations)
    BY <1>1, <1>3
  <2>2. CASE j = k
    <3>1. registrations'[j] = entry
      BY <1>1, <1>3, <2>1, <2>2
    <3> QED
      BY <3>1
  <2>3. CASE j # k
    <3>1. registrations'[j] = registrations[j]
      BY <1>1, <1>3, <2>1, <2>3
    <3>2. registrations[j].home_address # r.home_address
      BY <2>1, <2>3 DEF UniqueRegistrations
    <3> QED
      BY <2>1, <3>1, <3>2
  <2> QED
    BY <2>2, <2>3
<1>4. ASSUME NEW k, registrations' = erase(registrations, k)
      PROVE  \E i \in 1 .. Len(registrations) : registrations'[j] = registrations[i]
  <2>1. CASE k \notin 1 .. Len(registrations)
    BY <1>4, <2>1 DEF erase
  <2>2. CASE k \in 1 .. Len(registrations)
    <3>1. registrations' = [i \in 1 .. (Len(registrations) - 1) |->
                              IF i < k THEN registrations[i] ELSE registrations[i + 1]]
      BY <1>4, <2>2 DEF erase
    <3>2. j \in 1 .. (Len(registrations) - 1)
      BY <1>1, <2>2, <3>1
    <3>3. registrations'[j] = registrations[j] \/ registrations'[j] = registrations[j + 1]
      BY <3>1, <3>2
    <3>4. j \in 1 .. Len(registrations) /\ j + 1 \in 1 .. Len(registrations)
      BY <1>1, <3>2
    <3> QED
      BY <3>3, <3>4
  <2> QED
    BY <2>1, <2>2
<1>5. CASE r.lifetime # 0
  BY <1>2, <1>3, <1>5 DEF register
<1>6. CASE r.lifetime = 0
  BY <1>4, <1>6 DEF register
<1> QED
  BY <1>5, <1>6

\* What the relay says on its own account (createRep) grants nothing, nor does
\* a request it forwards.
LEMMA OwnRepliesGrantNothing ==
  /\ \A c, g, u, i, h : ~ Grants(createRep(c, g, u, i), h)
  /\ \A p, h : ~ Grants(ToHome(p), h)
  BY DEF Grants, createRep, ToMobile, ToHome

\* Only relayRep passes an acceptance on.
LEMMA OnlyRepliesGrant ==
  ASSUME TypeOK, NEW h
  PROVE  /\ \A p : relayReq(p) => ~ Renews(h)
         /\ \A a, code : icmp(a, code) => ~ Renews(h)
         /\ run_timer => ~ Renews(h)
<1>1. ASSUME NEW o, out' = <<o>>, ~ Grants(o, h) PROVE ~ Renews(h)
  BY <1>1 DEF Renews
<1>2. ASSUME out' = << >> PROVE ~ Renews(h)
  BY <1>2 DEF Renews
<1>3. ASSUME NEW p, relayReq(p) PROVE ~ Renews(h)
  <2>1. \/ out' = << >>
        \/ \E c, g, u, i : out' = <<createRep(c, g, u, i)>>
        \/ out' = <<ToHome(p)>>
    BY <1>3, Zenon DEF relayReq, Silent
  <2> QED
    BY <1>1, <1>2, <2>1, OwnRepliesGrantNothing, Zenon
<1>4. ASSUME NEW a, NEW code, icmp(a, code) PROVE ~ Renews(h)
  <2> DEFINE reply(i) == createRep(code, requests[i].ip_src, requests[i].udp_src, requests[i].id)
             replies == [i \in 1 .. Len(requests) |-> reply(i)]
  <2>1. PICK erased \in SUBSET (1 .. Len(requests)) : out' \in Kept(replies, erased)
    BY <1>4 DEF icmp
  <2>2. requests \in Seq(vEntry) /\ Len(requests) \in Nat
    BY DEF TypeOK
  <2>3. replies \in Seq({reply(i) : i \in 1 .. Len(requests)}) /\ Len(replies) = Len(requests)
    <3> HIDE DEF reply
    <3> QED  BY <2>2
  <2>4. PICK f : Selects(f, out', replies, erased)
    <3> HIDE DEF replies
    <3> QED  BY <2>1, <2>3, KeptPositions
  <2>5. ASSUME NEW k \in 1 .. Len(out') PROVE ~ Grants(out'[k], h)
    <3>1. f[k] \in 1 .. Len(requests) /\ out'[k] = replies[f[k]]
      <4> HIDE DEF replies
      <4> QED  BY SMTT(30), <2>3, <2>4 DEF Selects
    <3>2. out'[k] = reply(f[k])
      <4> HIDE DEF reply
      <4> QED  BY <3>1
    <3> QED  BY <3>2, OwnRepliesGrantNothing, Zenon
  <2> QED
    BY <2>5, Zenon DEF Renews
<1>5. ASSUME run_timer PROVE ~ Renews(h)
  <2>1. \/ out' = << >>
        \/ \E c, g, u, i : out' = <<createRep(c, g, u, i)>>
    BY <1>5, Zenon DEF run_timer, age_requests
  <2> QED
    BY <1>1, <1>2, <2>1, OwnRepliesGrantNothing, Zenon
<1> QED
  BY <1>3, <1>4, <1>5

\* Registrations count down from what was granted, for any number of nodes:
\* only a relayed acceptance starts a count, that of its own node and from
\* its own lifetime with the two bytes exchanged, and only the timer takes
\* seconds off.
THEOREM RegistrationsCountDown == Spec => RegistrationsRunDown
<1> DEFINE Counts(j) ==
      LET h == registrations'[j].home_address
          left == registrations'[j].remaining_lifetime
      IN  IF Renews(h)
          THEN \E k \in 1 .. Len(out') : Grants(out'[k], h) /\ left = htons(out'[k].lifetime)
          ELSE \E i \in 1 .. Len(registrations) :
                 /\ registrations[i].home_address = h
                 /\ left = registrations[i].remaining_lifetime - (IF run_timer THEN 1 ELSE 0)
           Step == \A j \in 1 .. Len(registrations') : Counts(j)
<1>1. TypeOK /\ UniqueRegistrations /\ [Next]_vars => [Step]_vars
  <2> SUFFICES ASSUME TypeOK, UniqueRegistrations, Next, NEW j \in 1 .. Len(registrations')
               PROVE  Counts(j)
    OBVIOUS
  <2> DEFINE h == registrations'[j].home_address
  <2>1. registrations \in Seq(Registration)
    BY DEF TypeOK
  <2>2. ASSUME ~ Renews(h), RunDown(j, IF run_timer THEN 1 ELSE 0)
        PROVE  Counts(j)
    BY <2>2 DEF RunDown
  <2>3. CASE run_timer
    <3>1. RunDown(j, 1)
      BY <2>3, AgingRunsDown DEF run_timer
    <3>2. ~ Renews(h)
      BY <2>3, OnlyRepliesGrant
    <3> QED
      BY <2>2, <2>3, <3>1, <3>2
  <2>4. ASSUME ~ run_timer, NEW i \in 1 .. Len(registrations), registrations'[j] = registrations[i]
        PROVE  RunDown(j, IF run_timer THEN 1 ELSE 0)
    <3>1. registrations[i].remaining_lifetime \in Nat
      <4>1. registrations[i] \in Registration
        BY <2>1
      <4> QED
        BY <4>1 DEF Registration, Word
    <3>2. RunDown(j, 0)
      BY <2>4, <3>1 DEF RunDown
    <3> QED
      BY <2>4, <3>2
  <2>5. CASE ~ run_timer /\ ~ Renews(h) /\ UNCHANGED registrations
    BY <2>2, <2>4, <2>5
  <2>6. ASSUME ~ run_timer, NEW r \in Reply, relayRep(r)
        PROVE  Counts(j)
    <3>1. CASE out' = << >> /\ UNCHANGED registrations
      <4>1. ~ Renews(h)
        BY <3>1 DEF Renews
      <4> QED
        BY <2>5, <2>6, <3>1, <4>1
    <3>2. ASSUME NEW p, out' = <<ToMobile(r.home_address, p, r.code, r.lifetime, r.id)>>
          PROVE  Counts(j)
      <4>1. /\ Len(out') = 1 /\ out'[1].lifetime = r.lifetime
            /\ Grants(out'[1], h) <=> h = r.home_address /\ r.code \in {0, 1} /\ r.lifetime # 0
        BY <3>2 DEF ToMobile, Grants
      <4>2. Renews(h) <=> Grants(out'[1], h)
        BY <4>1 DEF Renews
      <4>3. CASE r.code \notin {0, 1}
        <5>1. UNCHANGED registrations
          BY <2>6, <4>3, Zenon DEF relayRep, Silent
        <5> QED
          BY <2>5, <2>6, <4>1, <4>2, <4>3, <5>1
      <4>4. CASE register(r)
        <5>1. CASE r.lifetime # 0 /\ h = r.home_address /\ Renews(h)
          <6>1. registrations'[j].remaining_lifetime = htons(out'[1].lifetime)
            BY <4>1, <4>4, <5>1, RegisterRunsDown
          <6>2. 1 \in 1 .. Len(out') /\ Grants(out'[1], h)
            BY <4>1, <4>2, <5>1
          <6> QED
            BY <5>1, <6>1, <6>2
        <5>2. CASE ~ (r.lifetime # 0 /\ h = r.home_address)
          <6>1. \E i \in 1 .. Len(registrations) : registrations'[j] = registrations[i]
            BY <4>4, <5>2, RegisterRunsDown
          <6> QED
            BY <2>2, <2>4, <2>6, <4>1, <4>2, <5>2, <6>1
        <5>3. CASE r.lifetime # 0 /\ h = r.home_address /\ r.code \in {0, 1}
          BY <4>1, <4>2, <5>1, <5>3
        <5> QED
          BY <4>3, <5>2, <5>3
      <4> QED
        BY <2>6, <3>2, <4>3, <4>4 DEF relayRep, Silent
    <3> QED
      BY <2>6, <3>1, <3>2, Zenon DEF relayRep, Silent
  <2>7. ASSUME NEW p, relayReq(p) PROVE ~ Renews(h) /\ UNCHANGED registrations
    <3>1. UNCHANGED registrations
      BY <2>7, Zenon DEF relayReq, Silent
    <3> QED  BY <2>7, <3>1, OnlyRepliesGrant
  <2>8. ASSUME NEW a, NEW code, icmp(a, code) PROVE ~ Renews(h) /\ UNCHANGED registrations
    <3>1. UNCHANGED registrations
      BY <2>8, Zenon DEF icmp
    <3> QED  BY <2>8, <3>1, OnlyRepliesGrant
  <2> HIDE DEF Counts, h
  <2> QED
    BY <2>3, <2>5, <2>6, <2>7, <2>8, Zenon DEF Next, push
<1>2. [][Step]_vars => RegistrationsRunDown
  BY PTL DEF RegistrationsRunDown
<1> QED
  BY <1>1, <1>2, TypeCorrect, RegistrationsUnique, PTL DEF Spec

-----------------------------------------------------------------------------
\* An accepted reply adds at most one registration.
LEMMA RegisterLength ==
  ASSUME TypeOK, NEW r \in Reply, register(r)
  PROVE  Len(registrations') \in Nat /\ Len(registrations') <= Len(registrations) + 1
<1>1. registrations \in Seq(Registration) /\ Len(registrations) \in Nat
  BY DEF TypeOK
<1>2. ASSUME NEW k, NEW e, registrations' = [registrations EXCEPT ![k] = e]
      PROVE  Len(registrations') = Len(registrations)
  BY <1>1, <1>2
<1>3. ASSUME NEW e, registrations' = Append(registrations, e)
      PROVE  Len(registrations') = Len(registrations) + 1
  BY <1>1, <1>3
<1>4. ASSUME NEW k, registrations' = erase(registrations, k)
      PROVE  Len(registrations') \in Nat /\ Len(registrations') <= Len(registrations)
  <2>1. CASE k \notin 1 .. Len(registrations)
    BY <1>1, <1>4, <2>1 DEF erase
  <2>2. CASE k \in 1 .. Len(registrations)
    <3>1. Len(registrations) - 1 \in Nat
      BY <1>1, <2>2
    <3>2. registrations' = [i \in 1 .. (Len(registrations) - 1) |->
                              IF i < k THEN registrations[i] ELSE registrations[i + 1]]
      BY <1>4, <2>2 DEF erase
    <3>3. Len(registrations') = Len(registrations) - 1
      BY <3>1, <3>2
    <3> QED
      BY <1>1, <3>1, <3>3
  <2> QED
    BY <2>1, <2>2
<1>5. \/ \E e : registrations' = Append(registrations, e)
      \/ \E k, e : registrations' = [registrations EXCEPT ![k] = e]
      \/ \E k : registrations' = erase(registrations, k)
  BY Zenon DEF register
<1> QED
  BY <1>1, <1>2, <1>3, <1>4, <1>5

\* Ageing adds no registration.
LEMMA AgingLength ==
  ASSUME TypeOK, age_registrations
  PROVE  Len(registrations') \in Nat /\ Len(registrations') <= Len(registrations)
<1> DEFINE K == {i \in 1 .. Len(registrations) : registrations[i].remaining_lifetime > 0}
<1>1. registrations \in Seq(Registration) /\ K \in SUBSET (1 .. Len(registrations))
  BY DEF TypeOK
<1>2. PICK kept \in Seq(Registration) :
        /\ kept \in Kept(registrations, K)
        /\ registrations' = [i \in 1 .. Len(kept) |->
                               [kept[i] EXCEPT !.remaining_lifetime = @ - 1]]
  BY AgedRegistrations
<1> HIDE DEF K
<1>3. Len(kept) \in Nat /\ Len(kept) <= Len(registrations)
  BY <1>1, <1>2, KeptShorter
<1>4. Len(registrations') = Len(kept)
  BY <1>2, <1>3
<1> QED
  BY <1>3, <1>4

\* The timer adds no pending request.
LEMMA RequestsAgingLength ==
  ASSUME TypeOK, age_requests
  PROVE  Len(requests') \in Nat /\ Len(requests') <= Len(requests)
<1>1. requests \in Seq(vEntry) /\ Len(requests) \in Nat
  BY DEF TypeOK
<1>2. \A i \in 1 .. Len(requests) : requests[i] \in vEntry /\ ticked(requests[i]) \in vEntry
  BY <1>1, TickedType
<1>3. ASSUME NEW v \in [1 .. Len(requests) -> vEntry], NEW K \in SUBSET (1 .. Len(requests)),
             requests' \in Kept(v, K)
      PROVE  Len(requests') \in Nat /\ Len(requests') <= Len(requests)
  <2>1. v \in Seq(vEntry) /\ Len(v) = Len(requests)
    BY <1>1
  <2> QED
    BY <1>3, <2>1, KeptShorter
<1>4. CASE requests' \in Kept([i \in 1 .. Len(requests) |-> ticked(requests[i])],
                              {i \in 1 .. Len(requests) : requests[i].requested_lifetime > 0})
  BY <1>2, <1>3, <1>4
<1>5. ASSUME NEW t, requests' \in Kept([i \in 1 .. Len(requests) |->
                                          IF i < t THEN ticked(requests[i]) ELSE requests[i]],
                                       {i \in 1 .. Len(requests) :
                                          i > t \/ (i < t /\ requests[i].requested_lifetime > 0)})
      PROVE  Len(requests') \in Nat /\ Len(requests') <= Len(requests)
  BY <1>2, <1>3, <1>5
<1> QED
  BY <1>4, <1>5 DEF age_requests

\* The limit on registrations holds back new requests, for any limit and any
\* number of nodes: at the limit a reply turns one pending request into at
\* most one registration, and nothing else adds to either list.
THEOREM LimitIsKept == Spec => LimitAdmitsNone
<1> DEFINE Step == RegistrationLimit > -1 /\ Len(registrations) >= RegistrationLimit =>
                     Len(registrations') + Len(requests') <= Len(registrations) + Len(requests)
<1>1. TypeOK /\ [Next]_vars => [Step]_vars
  <2> SUFFICES ASSUME TypeOK, Next, RegistrationLimit > -1, Len(registrations) >= RegistrationLimit
               PROVE  Len(registrations') + Len(requests') <= Len(registrations) + Len(requests)
    OBVIOUS
  <2>1. /\ requests \in Seq(vEntry) /\ registrations \in Seq(Registration)
        /\ Len(requests) \in Nat /\ Len(registrations) \in Nat
    BY DEF TypeOK
  <2>2. CASE UNCHANGED <<requests, registrations>>
    BY <2>1, <2>2
  <2>3. ASSUME NEW p \in Request, relayReq(p) PROVE UNCHANGED <<requests, registrations>>
    <3>1. reject_code(p) # 0
      BY DEF reject_code
    <3> QED
      BY <2>3, <3>1 DEF relayReq, Silent
  <2>4. ASSUME NEW r \in Reply, relayRep(r), ~ UNCHANGED <<requests, registrations>>
        PROVE  Len(registrations') + Len(requests') <= Len(registrations) + Len(requests)
    <3>1. PICK i \in 1 .. Len(requests) : requests' = erase(requests, i)
      BY <2>4 DEF relayRep, Silent
    <3>2. Len(requests) - 1 \in Nat /\ Len(requests') = Len(requests) - 1
      BY <2>1, <3>1 DEF erase
    <3>3. UNCHANGED registrations \/ register(r)
      BY <2>4 DEF relayRep, Silent
    <3>4. Len(registrations') \in Nat /\ Len(registrations') <= Len(registrations) + 1
      BY <2>1, <3>3, RegisterLength
    <3> QED
      BY <2>1, <3>2, <3>4
  <2>5. ASSUME NEW a \in Agent, NEW code \in IcmpCode, icmp(a, code)
        PROVE  Len(registrations') + Len(requests') <= Len(registrations) + Len(requests)
    <3>1. PICK erased \in SUBSET (1 .. Len(requests)) :
            requests' \in Kept(requests, (1 .. Len(requests)) \ erased)
      BY <2>5 DEF icmp
    <3>2. PICK K \in SUBSET (1 .. Len(requests)) : requests' \in Kept(requests, K)
      BY <3>1
    <3>3. Len(requests') \in Nat /\ Len(requests') <= Len(requests)
      BY <2>1, <3>2, KeptShorter
    <3> QED
      BY <2>1, <2>5, <3>3 DEF icmp
  <2>6. CASE run_timer
    <3>1. /\ Len(registrations') \in Nat /\ Len(registrations') <= Len(registrations)
          /\ Len(requests') \in Nat /\ Len(requests') <= Len(requests)
      BY <2>6, AgingLength, RequestsAgingLength DEF run_timer
    <3> QED
      BY <2>1, <3>1
  <2> QED
    BY <2>2, <2>3, <2>4, <2>5, <2>6 DEF Next, push
<1>2. [][Step]_vars => LimitAdmitsNone
  BY PTL DEF LimitAdmitsNone
<1> QED
  BY <1>1, <1>2, TypeCorrect, PTL DEF Spec
=============================================================================
