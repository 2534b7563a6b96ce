----------------------------- MODULE AgentProofs ----------------------------
(***************************************************************************)
(* Proofs about the home agent, for any number of mobile nodes, care-of    *)
(* addresses and requests; and about agents that advertise and restart,    *)
(* for every width of a byte and every pattern of lost advertisements.     *)
(***************************************************************************)
EXTENDS HomeAgent, RebootDetection, SequenceTheorems, TLAPS

\* The low byte of a word is a byte (the width of mobile_info's
\* remainingLifetime).
LEMMA TruncateType == \A w \in Int : Truncate(w) \in 0 .. (Byte - 1)
  BY ByteAssumption DEF Truncate

\* The exchange of two bytes yields an integer.
LEMMA HtonsType == \A w \in Int : htons(w) \in Int
  BY ByteAssumption DEF htons

\* An accepted registration adds a well-formed entry (binding_of).
LEMMA BindingType ==
  ASSUME NEW q \in Request, q.home_address # q.care_of_address
  PROVE  binding_of(q) \in mobile_info
<1>1. q.lifetime \in Int
  <2>1. q.lifetime \in Word
    BY HomeAgentAssumption DEF Request
  <2> QED
    BY <2>1 DEF Word
<1>2. Truncate(htons(q.lifetime)) \in 0 .. (Byte - 1)
  BY <1>1, HtonsType, TruncateType
<1>3. q.care_of_address \in CareOfAddress /\ q.id \in Id
  BY DEF Request
<1> QED
  BY <1>2, <1>3 DEF binding_of, mobile_info

\* The codes check_acceptable can return.
LEMMA CodeType ==
  \A q \in Request : check_acceptable(q) \in {0, 128, 134, 135, 136}
  BY DEF check_acceptable

\* A datagram is routed to its own address or to a care-of address
\* (get_destination_ip).
LEMMA DestinationType ==
  ASSUME TypeOK, NEW h \in HomeAddress
  PROVE  get_destination_ip(h) \in HomeAddress \cup CareOfAddress
<1>1. mobility_bindings[h] \in Seq(mobile_info)
  BY DEF TypeOK
<1>2. CASE mobility_bindings[h] = << >>
  BY <1>2 DEF get_destination_ip
<1>3. CASE mobility_bindings[h] # << >>
  <2>1. Head(mobility_bindings[h]) \in mobile_info
    BY <1>1, <1>3
  <2> QED
    BY <2>1, <1>3 DEF get_destination_ip, mobile_info
<1> QED
  BY <1>2, <1>3

\* Type correctness: whatever requests and datagrams arrive, the list of
\* bindings and the packets the home agent pushes stay well formed.
THEOREM TypeCorrect == Spec => []TypeOK
<1>1. Init => TypeOK
  BY DEF Init, TypeOK
<1>2. TypeOK /\ [Next]_vars => TypeOK'
  <2> SUFFICES ASSUME TypeOK, [Next]_vars
               PROVE  TypeOK'
    OBVIOUS
  <2>1. ASSUME NEW q \in Request, RegRep_push(q)
        PROVE  TypeOK'
    <3>1. q.home_address \in HomeAddress
      BY DEF Request
    <3>2. entries_after(mobility_bindings[q.home_address], q) \in Seq(mobile_info)
      BY <3>1, BindingType DEF TypeOK, entries_after
    <3>3. mobility_bindings' \in [HomeAddress -> Seq(mobile_info)]
      BY <2>1, <3>1, <3>2 DEF TypeOK, RegRep_push
    <3>4. out' \in Reply /\ asked' \in Request
      BY <2>1, <3>1, CodeType DEF RegRep_push, Reply, Request
    <3> QED
      BY <3>3, <3>4 DEF TypeOK
  <2>2. ASSUME NEW h \in HomeAddress, HA_push(h)
        PROVE  TypeOK'
    <3>1. get_destination_ip(h) \in HomeAddress \cup CareOfAddress
      BY DestinationType
    <3> QED
      BY <2>2, <3>1 DEF TypeOK, HA_push, Datagram
  <2>3. CASE UNCHANGED vars
    BY <2>3 DEF vars, TypeOK
  <2> QED
    BY <2>1, <2>2, <2>3 DEF Next
<1> QED
  BY <1>1, <1>2, PTL DEF Spec

\* No entry names the address it is an entry of.
NoSelfTunnel ==
  \A h \in HomeAddress : \A i \in 1 .. Len(mobility_bindings[h]) :
    mobility_bindings[h][i].careOfAddress # h

\* With the type invariant this is inductive: RegRep::push adds an entry only
\* for a request whose care-of address differs from its home address.  It
\* makes a route other than the home link and a non-empty list the same.
LEMMA SelfTunnelFree == Spec => []NoSelfTunnel
<1>1. Init => NoSelfTunnel
  BY DEF Init, NoSelfTunnel
<1>2. TypeOK /\ NoSelfTunnel /\ [Next]_vars => NoSelfTunnel'
  <2> SUFFICES ASSUME TypeOK, NoSelfTunnel, [Next]_vars,
                      NEW h \in HomeAddress, NEW i \in 1 .. Len(mobility_bindings'[h])
               PROVE  mobility_bindings'[h][i].careOfAddress # h
    BY DEF NoSelfTunnel
  <2>1. ASSUME NEW q \in Request, RegRep_push(q)
        PROVE  mobility_bindings'[h][i].careOfAddress # h
    <3>1. mobility_bindings[h] \in Seq(mobile_info) /\ q.home_address \in HomeAddress
      BY DEF TypeOK, Request
    <3>2. CASE mobility_bindings'[h] = mobility_bindings[h]
      BY <3>2 DEF NoSelfTunnel
    <3>3. CASE mobility_bindings'[h] # mobility_bindings[h]
      <4>1. h = q.home_address /\ mobility_bindings'[h] = entries_after(mobility_bindings[h], q)
        BY <2>1, <3>1, <3>3 DEF TypeOK, RegRep_push
      <4>2. CASE q.home_address = q.care_of_address
        BY <4>1, <4>2 DEF entries_after
      <4>3. CASE q.home_address # q.care_of_address
        <5>1. binding_of(q) \in mobile_info /\ binding_of(q).careOfAddress # h
          BY <4>1, <4>3, BindingType DEF binding_of
        <5>2. mobility_bindings'[h] = Append(mobility_bindings[h], binding_of(q))
          BY <4>1, <4>3 DEF entries_after
        <5> QED
          BY <3>1, <5>1, <5>2, AppendProperties DEF NoSelfTunnel
      <4> QED
        BY <4>2, <4>3
    <3> QED
      BY <3>2, <3>3
  <2>2. ASSUME NEW g \in HomeAddress, HA_push(g)
        PROVE  mobility_bindings'[h][i].careOfAddress # h
    BY <2>2 DEF HA_push, NoSelfTunnel
  <2>3. CASE UNCHANGED vars
    BY <2>3 DEF vars, NoSelfTunnel
  <2> QED
    BY <2>1, <2>2, <2>3 DEF Next
<1> QED
  BY <1>1, <1>2, TypeCorrect, PTL DEF Spec

\* Replies are truthful: the code and the side of every reply RegRep::push
\* builds agree with the bindings it leaves behind.
THEOREM TruthfulReplies == Spec => ReplyIsTruthful
<1>1. TypeOK /\ [Next]_vars => [TruthfulStep]_vars
  <2> SUFFICES ASSUME TypeOK, Next, out' \in Reply
               PROVE  TruthfulStep
    BY DEF TruthfulStep
  <2>1. ASSUME NEW q \in Request, RegRep_push(q)
        PROVE  TruthfulStep
    <3> DEFINE h == q.home_address
    <3>1. /\ h \in HomeAddress
          /\ mobility_bindings \in [HomeAddress -> Seq(mobile_info)]
          /\ out'.home_address = h
          /\ out'.code = check_acceptable(q)
          /\ out'.side = "private" <=> h = q.care_of_address
      BY <2>1 DEF TypeOK, Request, RegRep_push
    <3>2. check_acceptable(q) \notin {0, 1} => UNCHANGED mobility_bindings
      BY <2>1 DEF RegRep_push
    <3>3. \A g \in HomeAddress \ {h} : mobility_bindings'[g] = mobility_bindings[g]
      BY <2>1, <3>1 DEF RegRep_push
    <3>4. ASSUME check_acceptable(q) \in {0, 1}
          PROVE  mobility_bindings'[h] = << >> <=> h = q.care_of_address
      <4>1. mobility_bindings'[h] = entries_after(mobility_bindings[h], q)
        BY <2>1, <3>1, <3>4 DEF RegRep_push
      <4>2. ASSUME h # q.care_of_address
            PROVE  mobility_bindings'[h] # << >>
        BY <3>1, <4>1, <4>2, BindingType, AppendProperties DEF entries_after
      <4> QED
        BY <4>1, <4>2 DEF entries_after
    <3> QED
      BY <3>1, <3>2, <3>3, <3>4 DEF TruthfulStep
  <2>2. ASSUME NEW g \in HomeAddress, HA_push(g)
        PROVE  FALSE
    <3>1. "code" \notin DOMAIN out'
      BY <2>2 DEF HA_push
    <3> QED
      BY <3>1 DEF Reply
  <2> QED
    BY <2>1, <2>2 DEF Next
<1> QED
  BY <1>1, TypeCorrect, PTL DEF Spec, ReplyIsTruthful

-----------------------------------------------------------------------------
\* A datagram is not mistaken for a reply: it has other fields.
LEMMA DatagramIsNoReply ==
  ASSUME NEW h \in HomeAddress, HA_push(h)
  PROVE  out' \notin Reply
<1>1. "code" \notin DOMAIN out'
  BY DEF HA_push
<1>2. \A r \in Reply : "code" \in DOMAIN r
  BY DEF Reply
<1> QED
  BY <1>1, <1>2

\* What one request does to the routes the home agent uses: nothing when it
\* is denied, the home link after a deregistration, and after a
\* registration the new care-of address only where there was no tunnel.
LEMMA RouteAfterRequest ==
  ASSUME TypeOK, NEW q \in Request, RegRep_push(q), NEW h \in HomeAddress
  PROVE  get_destination_ip(h)' =
           IF check_acceptable(q) \notin {0, 1} \/ h # q.home_address
           THEN get_destination_ip(h)
           ELSE IF q.home_address = q.care_of_address THEN h
           ELSE IF mobility_bindings[h] = << >> THEN q.care_of_address
           ELSE get_destination_ip(h)
<1> DEFINE entries == mobility_bindings[h]
<1>1. entries \in Seq(mobile_info) /\ q.home_address \in HomeAddress
  BY DEF TypeOK, Request
<1>2. CASE check_acceptable(q) \notin {0, 1} \/ h # q.home_address
  BY <1>1, <1>2 DEF TypeOK, RegRep_push, get_destination_ip
<1>3. CASE check_acceptable(q) \in {0, 1} /\ h = q.home_address
  <2>1. mobility_bindings'[h] = entries_after(entries, q)
    BY <1>1, <1>3 DEF TypeOK, RegRep_push
  <2>2. CASE q.home_address = q.care_of_address
    BY <1>3, <2>1, <2>2 DEF entries_after, get_destination_ip
  <2>3. CASE q.home_address # q.care_of_address
    <3>1. mobility_bindings'[h] = Append(entries, binding_of(q))
      BY <2>1, <2>3 DEF entries_after
    <3>2. binding_of(q) \in mobile_info
      BY <2>3, BindingType
    <3>3. mobility_bindings'[h] # << >>
      BY <1>1, <3>1, <3>2, AppendProperties
    <3>4. Head(mobility_bindings'[h]) =
            IF entries = << >> THEN binding_of(q) ELSE Head(entries)
      BY <1>1, <3>1, HeadTailAppend
    <3> QED
      BY <1>3, <2>3, <3>3, <3>4 DEF get_destination_ip, binding_of
  <2> QED
    BY <2>2, <2>3
<1> QED
  BY <1>2, <1>3

\* The home agent implements BindingCache: whatever requests and datagrams
\* arrive, the tunnel get_destination_ip chooses is one its node has named
\* since it was last released, and there is none after a release.
THEOREM HomeAgentImplementsCache == Spec => CacheSpec
<1> DEFINE r == [h \in HomeAddress |-> get_destination_ip(h)]
           t == IF out \in Reply
                THEN [home_address |-> out.home_address,
                      care_of_address |-> asked.care_of_address, answer |-> answer(out)]
                ELSE out
<1>1. Init => Cache!Init
  BY NothingAssumption DEF Init, Cache!Init, get_destination_ip
<1>2. TypeOK /\ NoSelfTunnel /\ [Next]_vars => [Cache!Next]_(Cache!vars)
  <2> SUFFICES ASSUME TypeOK, NoSelfTunnel, [Next]_vars
               PROVE  [Cache!Next]_(Cache!vars)
    OBVIOUS
  <2>1. ASSUME NEW q \in Request, RegRep_push(q)
        PROVE  Cache!Next
    <3> DEFINE h == q.home_address
               c == q.care_of_address
               code == check_acceptable(q)
    <3>1. h \in HomeAddress /\ c \in CareOfAddress \cup {h}
      BY DEF Request
    <3>2. out' \in Reply
      BY <2>1, <3>1, CodeType DEF RegRep_push, Reply, Request
    <3>3. /\ out'.home_address = h /\ out'.code = code
          /\ out'.side = IF h = c THEN "private" ELSE "public"
          /\ asked'.care_of_address = c
      BY <2>1 DEF RegRep_push
    <3>4. t' = [home_address |-> h, care_of_address |-> c,
                answer |-> IF code \notin {0, 1} THEN "denied"
                           ELSE IF h = c THEN "released" ELSE "granted"]
      BY <3>2, <3>3 DEF answer
    <3>5. CASE code \notin {0, 1}
      <4>1. r' = r
        BY <2>1, <3>5, RouteAfterRequest
      <4>2. t' = [home_address |-> h, care_of_address |-> c, answer |-> "denied"]
        BY <3>4, <3>5
      <4> QED
        BY <3>1, <4>1, <4>2 DEF Cache!Next, Cache!Refuse
    <3>6. CASE code \in {0, 1} /\ h = c
      <4>1. r' = [r EXCEPT ![h] = h]
        BY <2>1, <3>1, <3>6, RouteAfterRequest
      <4>2. t' = [home_address |-> h, care_of_address |-> h, answer |-> "released"]
        BY <3>4, <3>6
      <4> QED
        BY <3>1, <4>1, <4>2 DEF Cache!Next, Cache!Deregister
    <3>7. CASE code \in {0, 1} /\ h # c
      <4>1. PICK s \in {c, r[h]} \ {h} : r' = [r EXCEPT ![h] = s]
        <5>1. CASE mobility_bindings[h] = << >>
          <6>1. r' = [r EXCEPT ![h] = c]
            BY <2>1, <3>1, <3>7, <5>1, RouteAfterRequest
          <6> QED
            BY <3>7, <6>1
        <5>2. CASE mobility_bindings[h] # << >>
          <6>1. r[h] # h
            <7>1. mobility_bindings[h] \in Seq(mobile_info)
              BY <3>1 DEF TypeOK
            <7>2. Head(mobility_bindings[h]).careOfAddress # h
              BY <3>1, <5>2, <7>1 DEF NoSelfTunnel
            <7> QED
              BY <3>1, <5>2, <7>2 DEF get_destination_ip
          <6>2. r' = [r EXCEPT ![h] = r[h]]
            BY <2>1, <3>1, <3>7, <5>2, RouteAfterRequest
          <6> QED
            BY <6>1, <6>2
        <5> QED
          BY <5>1, <5>2
      <4>2. t' = [home_address |-> h, care_of_address |-> c, answer |-> "granted"]
        BY <3>4, <3>7
      <4>3. c \in CareOfAddress
        BY <3>1, <3>7
      <4> QED
        BY <3>1, <3>7, <4>1, <4>2, <4>3 DEF Cache!Next, Cache!Register
    <3> QED
      BY <3>5, <3>6, <3>7
  <2>2. ASSUME NEW h \in HomeAddress, HA_push(h)
        PROVE  Cache!Next
    <3>1. t' = [dst |-> h, via |-> r[h]]
      BY <2>2, DatagramIsNoReply DEF HA_push, get_destination_ip
    <3>2. r' = r
      BY <2>2 DEF HA_push, get_destination_ip
    <3> QED
      BY <3>1, <3>2 DEF Cache!Next, Cache!Forward
  <2>3. CASE UNCHANGED vars
    BY <2>3 DEF vars, Cache!vars, get_destination_ip, answer
  <2> QED
    BY <2>1, <2>2, <2>3 DEF Next
<1> QED
  BY <1>1, <1>2, TypeCorrect, SelfTunnelFree, PTL DEF Spec, CacheSpec, Cache!Spec

-----------------------------------------------------------------------------
\* Zero is a word.
LEMMA ZeroWord == 0 \in Word
<1>1. Byte * Byte \in Nat /\ Byte * Byte > 0
  BY ByteAssumption
<1> QED
  BY <1>1 DEF Word

\* The largest word and the rollover value are words.
LEMMA RolloverType ==
  ASSUME NEW n \in Word
  PROVE  next_sequence_nr(n) \in Word
<1>1. Byte * Byte \in Nat /\ Byte < Byte * Byte
  BY ByteAssumption, SMT
<1>2. CASE n < Byte * Byte - 1
  BY <1>1, <1>2 DEF next_sequence_nr, Word
<1>3. CASE ~ (n < Byte * Byte - 1)
  BY <1>1, <1>3, ByteAssumption DEF next_sequence_nr, Word
<1> QED
  BY <1>2, <1>3

\* While the agent has not restarted, the number it will use next is above
\* the one the node has stored, or beyond the numbers of a restart: this is
\* what makes ReductionMeansRestart inductive.
Ahead ==
  /\ sequenceNr \in Word
  /\ heard \in Word \cup {Unheard}
  /\ restarted \in BOOLEAN
  /\ ~ restarted /\ heard # Unheard => sequenceNr > heard \/ sequenceNr >= Byte

\* A node that has heard nothing compares with nothing.
LEMMA AheadInitially == RebootInit => Ahead
<1>1. 0 \in Word
  BY ZeroWord
<1> QED
  BY <1>1 DEF RebootInit, AdvertiserInit, Ahead

\* Every step keeps Ahead: sending moves the number up, or from the largest
\* word to 256.
LEMMA AheadKept == Ahead /\ [RebootNext]_rebootVars => Ahead'
<1> SUFFICES ASSUME Ahead, [RebootNext]_rebootVars
             PROVE  Ahead'
  OBVIOUS
<1> USE DEF Ahead
<1>1. /\ next_sequence_nr(sequenceNr) \in Word
      /\ \/ next_sequence_nr(sequenceNr) > sequenceNr
         \/ next_sequence_nr(sequenceNr) = Byte
  <2>1. sequenceNr \in Int
    BY ByteAssumption DEF Word
  <2> QED
    BY <2>1, RolloverType DEF next_sequence_nr
<1>2. sequenceNr \in Nat /\ Byte \in Nat /\ \A w \in Word : w \in Nat
  BY ByteAssumption DEF Word
<1>3. ASSUME sequenceNr' = next_sequence_nr(sequenceNr), Hear
      PROVE  Ahead'
  <2>1. heard' = sequenceNr /\ restarted' = FALSE /\ sequenceNr' \in Word
    BY <1>1, <1>3 DEF Hear
  <2>2. sequenceNr' > heard' \/ sequenceNr' >= Byte
    BY <1>1, <1>2, <1>3, <2>1
  <2> QED
    BY <2>1, <2>2
<1>4. ASSUME sequenceNr' = next_sequence_nr(sequenceNr), Miss
      PROVE  Ahead'
  <2>1. UNCHANGED <<heard, restarted>> /\ sequenceNr' \in Word
    BY <1>1, <1>4 DEF Miss
  <2>2. ASSUME ~ restarted, heard # Unheard
        PROVE  sequenceNr' > heard \/ sequenceNr' >= Byte
    <3>1. heard \in Nat /\ (sequenceNr > heard \/ sequenceNr >= Byte)
      BY <1>2, <2>2
    <3>2. sequenceNr' > sequenceNr \/ sequenceNr' = Byte
      BY <1>1, <1>4
    <3>3. sequenceNr' \in Nat
      BY <1>2, <2>1
    <3> QED
      BY <1>2, <3>1, <3>2, <3>3
  <2> QED
    BY <2>1, <2>2
<1>5. ASSUME UNCHANGED sequenceNr, Miss
      PROVE  Ahead'
  BY <1>5 DEF Miss
<1>6. CASE Broadcasts
  BY <1>3, <1>4, <1>6 DEF Broadcasts, run_timer, sendPacket
<1>7. ASSUME NEW p \in Frame, CheckSolicitation_push(p), Miss
      PROVE  Ahead'
  BY <1>4, <1>5, <1>7 DEF CheckSolicitation_push, push, sendPacket
<1>8. CASE Restart /\ restarted' = TRUE /\ UNCHANGED heard
  BY <1>8, ZeroWord DEF Restart
<1>9. CASE UNCHANGED rebootVars
  BY <1>9 DEF rebootVars
<1> QED
  BY <1>6, <1>7, <1>8, <1>9 DEF RebootNext

\* A registered node that hears a smaller number below 256 hears an agent
\* that has restarted, whatever was lost in between
\* (Advertisement::sendPacket).
THEOREM RestartsAreRecognisable == RebootSpec => ReductionMeansRestart
<1>1. Ahead /\ [RebootNext]_rebootVars =>
        [heard # Unheard /\ heard' # heard /\ heard' < heard /\ heard' < Byte
           => restarted]_rebootVars
  <2> SUFFICES ASSUME Ahead, RebootNext, heard # Unheard, heard' # heard, heard' < heard,
                      heard' < Byte, ~ restarted
               PROVE  FALSE
    BY DEF rebootVars
  <2>1. heard' = sequenceNr
    BY DEF RebootNext, Broadcasts, Hear, Miss
  <2>2. sequenceNr \in Int /\ heard \in Int /\ Byte \in Int
    BY ByteAssumption DEF Ahead, Word
  <2> QED
    BY <2>1, <2>2 DEF Ahead
<1> QED
  BY <1>1, AheadInitially, AheadKept, PTL DEF RebootSpec, ReductionMeansRestart

\* Sequence numbers keep to sixteen bits (Advertisement::sendPacket).
THEOREM NumbersTypeCorrect == RebootSpec => []RebootTypeOK
<1>1. RebootInit => RebootTypeOK
  BY ZeroWord DEF RebootInit, AdvertiserInit, RebootTypeOK
<1>2. RebootTypeOK /\ [RebootNext]_rebootVars => RebootTypeOK'
  <2> SUFFICES ASSUME RebootTypeOK, [RebootNext]_rebootVars
               PROVE  RebootTypeOK'
    OBVIOUS
  <2> USE DEF RebootTypeOK
  <2>1. ASSUME NEW d \in Host \cup {Everybody}, sendPacket(d)
        PROVE  /\ sequenceNr' \in Word
               /\ sent' \in [dst : Host \cup {Everybody}, seq_nr : Word]
    BY <2>1, RolloverType DEF sendPacket
  <2>2. ASSUME NEW p \in Frame, CheckSolicitation_push(p)
        PROVE  /\ sequenceNr' \in Word
               /\ sent' \in [dst : Host \cup {Everybody}, seq_nr : Word]
                             \cup Frame \cup {NoPacket}
    <3>1. p.src \in Host \cup {Nobody}
      BY DEF Frame
    <3>2. CASE p.src # Nobody /\ push(p)
      BY <2>1, <3>1, <3>2 DEF push
    <3>3. CASE sent' \in {p, NoPacket} /\ UNCHANGED sequenceNr
      BY <3>3
    <3> QED
      BY <2>2, <3>2, <3>3 DEF CheckSolicitation_push
  <2>3. run_timer => /\ sequenceNr' \in Word
                     /\ sent' \in [dst : Host \cup {Everybody}, seq_nr : Word]
    BY <2>1 DEF run_timer
  <2>4. reboot(sequenceNr, heard) \in BOOLEAN
    BY DEF reboot
  <2>5. Hear \/ Miss => /\ heard' \in Word \cup {Unheard}
                        /\ restarted' \in BOOLEAN /\ again' \in BOOLEAN
    BY <2>4 DEF Hear, Miss
  <2>6. CASE Broadcasts
    BY <2>3, <2>5, <2>6 DEF Broadcasts
  <2>7. ASSUME NEW p \in Frame, CheckSolicitation_push(p), Miss
        PROVE  RebootTypeOK'
    BY <2>2, <2>5, <2>7
  <2>8. CASE Restart /\ restarted' = TRUE /\ again' = FALSE /\ UNCHANGED heard
    BY <2>8, ZeroWord DEF Restart
  <2>9. CASE UNCHANGED rebootVars
    BY <2>9 DEF rebootVars
  <2> QED
    BY <2>6, <2>7, <2>8, <2>9 DEF RebootNext
<1> QED
  BY <1>1, <1>2, PTL DEF RebootSpec
=============================================================================
