-------------------------- MODULE ConversationProofs ---------------------------
(***************************************************************************)
(* What the tracing process sees of a conversation, for every dialogue,    *)
(* pair of ports and layout: nothing of a reply, and no reply where a      *)
(* request should wait; where the decoder reads records as they are laid   *)
(* out, no flow is left of a connection that both ends have closed; and    *)
(* which conversations the process survives.                               *)
(***************************************************************************)
EXTENDS Conversation, SequenceTheorems, WellFoundedInduction, TLAPS

-----------------------------------------------------------------------------
(* The protocol as the server's end detects it.                            *)

\* Changing the byte order of a port twice gives the port.
LEMMA SwapTwice ==
    ASSUME NEW p \in PortNumbers
    PROVE  Swap(p) \in Int /\ Swap(Swap(p)) = p
<1> DEFINE h == p \div 256
           l == p % 256
<1>0. p \in Int /\ p >= 0 /\ p < 65536
  BY DEF PortNumbers
<1>1. /\ h \in Int /\ h >= 0 /\ h < 256 /\ l \in Int /\ l >= 0 /\ l < 256
      /\ p = 256 * h + l
  BY <1>0, SMT
<1> HIDE DEF h, l
<1>2. l * 256 = 256 * l /\ h * 256 = 256 * h
  BY <1>1
<1>3. 256 * l + h \in Int /\ (256 * l + h) % 256 = h /\ (256 * l + h) \div 256 = l
  BY <1>1
<1>4. Swap(p) = 256 * l + h
  BY <1>2 DEF Swap, l, h
<1>5. Swap(256 * l + h) = 256 * h + l
  BY <1>2, <1>3 DEF Swap
<1> QED
  BY <1>1, <1>3, <1>4, <1>5

\* Neither the server's own port nor the client's is one of the table in the order
\* in which detect_protocol compares them, unless one of them is familiar.
LEMMA NoProtocol ==
    ASSUME NEW c \in PortNumbers, NEW s \in PortNumbers, ~Ports(c), ~Ports(Swap(s))
    PROVE  detect_protocol(Swap(c), s) = "unknown"
<1>1. ASSUME NEW p \in HTTPPorts \cup GRPCPorts \cup RedisPorts
      PROVE  Swap(p) \notin {Swap(c), s}
  <2>1. p \in PortNumbers
    <3>1. p \in {80, 8080, 3000, 8000, 9090, 50051, 9000, 7000, 6379}
      BY DEF HTTPPorts, GRPCPorts, RedisPorts
    <3> QED
      BY ONLY <3>1 DEF PortNumbers
  <2>2. p # c /\ p # Swap(s)
    BY DEF Ports
  <2>3. Swap(Swap(p)) = p /\ Swap(Swap(c)) = c
    BY <2>1, SwapTwice
  <2> QED
    BY <2>2, <2>3
<1>2. /\ ~\E p \in HTTPPorts : Swap(p) \in {Swap(c), s}
      /\ ~\E p \in GRPCPorts : Swap(p) \in {Swap(c), s}
      /\ ~\E p \in RedisPorts : Swap(p) \in {Swap(c), s}
  BY <1>1
<1> QED
  BY <1>2 DEF detect_protocol

-----------------------------------------------------------------------------
(* The fields of the records.                                              *)

Fields == {"type", "pid", "protocol", "saddr", "daddr", "sport", "dport", "error", "size",
           "payload", "carried"}

IsRecord(r) == r = [f \in Fields |-> r[f]]

\* A record of no data: what the properties read of it.
IsPlain(r, type) == /\ IsRecord(r) /\ r.type = type /\ r.payload = NulBytes
                    /\ r.carried = <<>> /\ r.size = Word(0)

\* fill_common_info makes such a record, without an error.
LEMMA CommonFields ==
    ASSUME NEW e, NEW t
    PROVE  IsPlain(CommonInfo(e, t), t) /\ CommonInfo(e, t).error = Word(0)
  BY DEF IsPlain, IsRecord, Fields, CommonInfo

\* The endpoints are filled into it in either direction.
LEMMA OutwardFields ==
    ASSUME NEW e, NEW t
    PROVE  /\ IsPlain(Outward(e, t), t) /\ Outward(e, t).error = Word(0)
           /\ Outward(e, t).sport = port[e] /\ Outward(e, t).dport = Swap(port[Peer(e)])
<1> DEFINE r == CommonInfo(e, t)
<1>1. IsPlain(r, t) /\ r.error = Word(0)
  BY CommonFields
<1>2. Outward(e, t) = [r EXCEPT !.saddr = Address[e], !.sport = port[e],
                                !.daddr = Address[Peer(e)], !.dport = Swap(port[Peer(e)])]
  BY DEF Outward
<1> HIDE DEF r
<1> QED
  BY <1>1, <1>2 DEF IsPlain, IsRecord, Fields

\* So are those of an accepted connection and of a receive.
LEMMA InwardFields ==
    ASSUME NEW e, NEW t
    PROVE  IsPlain(Inward(e, t), t) /\ Inward(e, t).error = Word(0)
<1> DEFINE r == CommonInfo(e, t)
<1>1. IsPlain(r, t) /\ r.error = Word(0)
  BY CommonFields
<1>2. Inward(e, t) = [r EXCEPT !.saddr = Address[Peer(e)], !.sport = Swap(port[Peer(e)]),
                               !.daddr = Address[e], !.dport = port[e]]
  BY DEF Inward
<1> HIDE DEF r
<1> QED
  BY <1>1, <1>2 DEF IsPlain, IsRecord, Fields

\* The protocol is added.
LEMMA DetectedFields ==
    ASSUME NEW r, NEW t, IsPlain(r, t)
    PROVE  /\ IsPlain(Detected(r), t) /\ Detected(r).error = r.error
           /\ Detected(r).protocol = detect_protocol(r.dport, r.sport)
  BY DEF Detected, IsPlain, IsRecord, Fields

\* And the error of a refused connection.
LEMMA ErrorFields ==
    ASSUME NEW r, NEW t, NEW v, IsPlain(r, t)
    PROVE  IsPlain([r EXCEPT !.error = v], t)
  BY DEF IsPlain, IsRecord, Fields

\* What a send copies.
LEMMA SendFields ==
    ASSUME NEW e, NEW m
    PROVE  LET r == SendRecord(e, m)
           IN  /\ IsRecord(r) /\ r.type = "send" /\ r.payload = m /\ r.carried = <<m>>
               /\ r.error = Word(0) /\ r.size = Word(m.size)
               /\ r.protocol = detect_protocol(Swap(port[Peer(e)]), port[e])
<1> DEFINE d == Detected(Outward(e, "send"))
<1>1. /\ IsPlain(d, "send") /\ d.error = Word(0)
      /\ d.protocol = detect_protocol(Swap(port[Peer(e)]), port[e])
  BY OutwardFields, DetectedFields
<1>2. SendRecord(e, m) = [d EXCEPT !.payload = m, !.size = Word(m.size), !.carried = <<m>>]
  BY DEF SendRecord
<1> HIDE DEF d
<1> QED
  BY <1>1, <1>2 DEF IsPlain, IsRecord, Fields

\* And a receive does not.
LEMMA RecvFields ==
    ASSUME NEW e, NEW ms
    PROVE  LET r == RecvRecord(e, ms)
           IN  /\ IsRecord(r) /\ r.type = "recv" /\ r.payload = NulBytes /\ r.carried = ms
               /\ r.error = Word(0) /\ r.size = Word(Bytes(ms))
<1> DEFINE d == Detected(Inward(e, "recv"))
<1>1. IsPlain(d, "recv") /\ d.error = Word(0)
  BY InwardFields, DetectedFields
<1>2. RecvRecord(e, ms) = [d EXCEPT !.size = Word(Bytes(ms)), !.carried = ms]
  BY DEF RecvRecord
<1> HIDE DEF d
<1> QED
  BY <1>1, <1>2 DEF IsPlain, IsRecord, Fields

\* A word of zeros.
LEMMA WordZero == Word(0) = <<0, 0>>
  BY DEF Word

\* What the decoder leaves in place, whichever way the layouts go.
LEMMA ParsedFields ==
    ASSUME NEW r, IsRecord(r)
    PROVE  LET q == parseRawEvent(r)
           IN  /\ q.type = r.type /\ q.carried = r.carried /\ q.protocol = r.protocol
               /\ q.payload = r.payload \/ q.payload = NulBytes
               /\ r.error = Word(0) => q.error = Word(0)
<1>1. CASE layout = "packed"
  BY <1>1 DEF parseRawEvent
<1>2. CASE layout # "packed"
  <2>1. parseRawEvent(r) =
          [r EXCEPT !.saddr = <<r.saddr[2], 0>>, !.daddr = <<r.daddr[2], r.saddr[1]>>,
                    !.sport = r.daddr[1], !.dport = r.sport,
                    !.error = <<r.error[2], 0>>, !.size = <<r.size[2], r.error[1]>>,
                    !.payload = NulBytes]
    BY <1>2 DEF parseRawEvent
  <2> DEFINE q == parseRawEvent(r)
  <2>2. /\ q.type = r.type /\ q.carried = r.carried /\ q.protocol = r.protocol
        /\ q.payload = NulBytes /\ q.error = <<r.error[2], 0>>
    BY <2>1 DEF IsRecord, Fields
  <2>3. r.error = Word(0) => <<r.error[2], 0>> = Word(0)
    BY WordZero
  <2> QED
    BY <2>2, <2>3
<1> QED
  BY <1>1, <1>2

-----------------------------------------------------------------------------
(* The invariants.                                                         *)

\* What was chosen at the beginning.
Chosen == dialogue \in Dialogues /\ port["client"] \in PortNumbers /\ port["server"] \in PortNumbers

\* What the probes send: what either end writes, what an end receives, and the rest.
ClientSends == {SendRecord("client", m) : m \in dialogue.requests}
ServerSends == {SendRecord("server", m) : m \in dialogue.replies}
Messages == dialogue.requests \cup dialogue.replies
Receives == {RecvRecord(e, ms) : e \in Ends, ms \in Seq(Messages)}
Opens == {Detected(Outward("client", "connect")),
          [CommonInfo("client", "connect") EXCEPT !.error = <<65535, 65425>>],
          Detected(Inward("server", "accept"))}
Closes == {Outward(e, "close") : e \in Ends}
Records == ClientSends \cup ServerSends \cup Receives \cup Opens \cup Closes

\* The records and the messages that are on their way.
Underway == events \in Seq(Records) /\ net \in [Ends -> Seq(Messages)]

\* The spans that may wait for a response.
Waiters == {SpanOf(parseRawEvent(r)) : r \in ClientSends}

\* Only they wait.
Waits == ~Familiar => \A k \in DOMAIN flows : flows[k] \in Seq(Waiters)

ConvInv == Chosen /\ Underway /\ RepliesUnread

\* A message of the client is no reply.
LEMMA ClientSendDecoded ==
    ASSUME Chosen, NEW r \in ClientSends
    PROVE  LET q == parseRawEvent(r)
           IN  q.type = "send" /\ \A i \in DOMAIN q.carried : ~IsReply(q.carried[i])
<1>1. PICK m \in dialogue.requests : r = SendRecord("client", m)
  BY DEF ClientSends
<1> DEFINE q == parseRawEvent(r)
<1>2. q.type = "send" /\ q.carried = <<m>>
  <2>1. IsRecord(r) /\ r.type = "send" /\ r.carried = <<m>>
    BY <1>1, SendFields
  <2>2. q.type = r.type /\ q.carried = r.carried
    BY <2>1, ParsedFields
  <2> HIDE DEF q
  <2> QED
    BY <2>1, <2>2
<1>3. ~IsReply(m)
  BY RepliesAssumption DEF Chosen, IsReply
<1>4. \A i \in DOMAIN <<m>> : <<m>>[i] = m
  OBVIOUS
<1> HIDE DEF q
<1>5. \A i \in DOMAIN q.carried : ~IsReply(q.carried[i])
  BY <1>2, <1>3, <1>4
<1> QED
  BY <1>2, <1>5 DEF q

\* What a server sends is of no known protocol.
LEMMA ServerSendDecoded ==
    ASSUME Chosen, NEW r \in ServerSends
    PROVE  LET q == parseRawEvent(r)
           IN  /\ q.type = "send" /\ q.error = Word(0)
               /\ ~Familiar => q.protocol = "unknown"
               /\ q.payload = NulBytes \/ q.payload \in dialogue.replies
<1>1. PICK m \in dialogue.replies : r = SendRecord("server", m)
  BY DEF ServerSends
<1> DEFINE q == parseRawEvent(r)
<1>2. /\ q.type = "send" /\ q.error = Word(0)
      /\ q.payload = NulBytes \/ q.payload = m
      /\ q.protocol = detect_protocol(Swap(port[Peer("server")]), port["server"])
  BY <1>1, SendFields, ParsedFields
<1>3. Peer("server") = "client"
  BY DEF Peer
<1>4. ~Familiar => detect_protocol(Swap(port["client"]), port["server"]) = "unknown"
  BY NoProtocol DEF Chosen, Familiar
<1> HIDE DEF q
<1>5. /\ q.type = "send" /\ q.error = Word(0)
      /\ ~Familiar => q.protocol = "unknown"
      /\ q.payload = NulBytes \/ q.payload \in dialogue.replies
  BY <1>2, <1>3, <1>4
<1> QED
  BY <1>5 DEF q

\* What is received has no payload (tcp_cleanup_rbuf).
LEMMA ReceiveDecoded ==
    ASSUME NEW r \in Receives
    PROVE  LET q == parseRawEvent(r)
           IN  q.type = "recv" /\ q.payload = NulBytes /\ q.error = Word(0)
<1>1. PICK e \in Ends, ms \in Seq(Messages) : r = RecvRecord(e, ms)
  BY DEF Receives
<1> QED
  BY <1>1, RecvFields, ParsedFields

\* The records of the other probes carry nothing (tcp_connect, inet_csk_accept,
\* tcp_close).
LEMMA OtherDecoded ==
    ASSUME NEW r \in Opens \cup Closes
    PROVE  LET q == parseRawEvent(r)
           IN  q.type \in {"connect", "accept", "close"} /\ q.carried = <<>>
<1>1. \E t \in {"connect", "accept", "close"} : IsPlain(r, t)
  <2>1. CASE r \in Closes
    <3>1. PICK e \in Ends : r = Outward(e, "close")
      BY <2>1 DEF Closes
    <3> QED
      BY <3>1, OutwardFields
  <2>2. CASE r = Detected(Outward("client", "connect"))
    <3>1. IsPlain(Outward("client", "connect"), "connect")
      BY OutwardFields
    <3>2. IsPlain(Detected(Outward("client", "connect")), "connect")
      BY <3>1, DetectedFields
    <3> QED
      BY <2>2, <3>2
  <2>3. CASE r = Detected(Inward("server", "accept"))
    <3>1. IsPlain(Inward("server", "accept"), "accept")
      BY InwardFields
    <3>2. IsPlain(Detected(Inward("server", "accept")), "accept")
      BY <3>1, DetectedFields
    <3> QED
      BY <2>3, <3>2
  <2>4. CASE r = [CommonInfo("client", "connect") EXCEPT !.error = <<65535, 65425>>]
    <3>1. IsPlain(CommonInfo("client", "connect"), "connect")
      BY CommonFields
    <3> QED
      BY <2>4, <3>1, ErrorFields
  <2> QED
    BY <2>1, <2>2, <2>3, <2>4 DEF Opens
<1>2. PICK t \in {"connect", "accept", "close"} : IsPlain(r, t)
  BY <1>1
<1> QED
  BY <1>2, ParsedFields DEF IsPlain

\* The parsers find nothing in a payload of zeros, or in one of no known protocol.
LEMMA NothingParsed ==
    ASSUME NEW q, q.error = Word(0), q.payload = NulBytes \/ q.protocol = "unknown"
    PROVE  Parse(q).trace = NoID /\ Parse(q).error = Word(0)
<1>1. CASE q.protocol = "unknown"
  BY <1>1 DEF Parse, Unparsed
<1>2. CASE q.payload = NulBytes
  <2>1. InnerPayload(q.payload) = "0" /\ q.payload.id = NoID
    BY <1>2 DEF InnerPayload, Framed, NulBytes
  <2>2. HTTPParsed("0", q) = Unparsed(q) /\ GRPCParsed("0", q) = [trace |-> NoID, error |-> Word(0)]
    BY <2>1 DEF HTTPParsed, GRPCParsed
  <2> QED
    BY <2>1, <2>2 DEF Parse, Unparsed
<1> QED
  BY <1>1, <1>2

\* No end's receive looks like a response.
LEMMA NoResponse ==
    ASSUME NEW q, q.payload = NulBytes
    PROVE  ~isResponsePayload(q)
  BY DEF isResponsePayload, NulBytes

-----------------------------------------------------------------------------
(* The steps.                                                              *)

\* The ports of a connection and what is said on it stay the same.
LEMMA RecordsKept ==
    ASSUME UNCHANGED <<port, dialogue>>
    PROVE  /\ ClientSends' = ClientSends /\ ServerSends' = ServerSends
           /\ Receives' = Receives /\ Opens' = Opens /\ Closes' = Closes
           /\ Records' = Records /\ Messages' = Messages
<1>1. ClientSends' = ClientSends
  BY DEF ClientSends, SendRecord, Outward, Detected, CommonInfo
<1>2. ServerSends' = ServerSends
  BY DEF ServerSends, SendRecord, Outward, Detected, CommonInfo
<1>3. Messages' = Messages
  BY DEF Messages
<1>4. Receives' = Receives
  BY <1>3 DEF Receives, RecvRecord, Inward, Detected, CommonInfo
<1>5. Opens' = Opens /\ Closes' = Closes
  BY DEF Opens, Closes, Inward, Outward, Detected, CommonInfo
<1> QED
  BY <1>1, <1>2, <1>3, <1>4, <1>5 DEF Records

\* What the probes send joins what is on its way (send_event).
LEMMA Emitted ==
    ASSUME Underway, UNCHANGED <<port, dialogue>>, NEW rs \in Seq(Records), Emit(rs),
           net' \in [Ends -> Seq(Messages)]
    PROVE  Underway'
<1>1. events' \in Seq(Records)
  BY ConcatProperties DEF Underway, Emit
<1> QED
  BY <1>1, RecordsKept DEF Underway

\* The probes send nothing but these records, and handle none.
Probed == \/ Connect \/ Accept
          \/ \E e \in Ends : \/ \E m \in Messages : Write(e, m)
                             \/ Read(e) \/ Close(e)

\* What they send is one of the records (tcp_connect, inet_csk_accept, tcp_sendmsg,
\* tcp_cleanup_rbuf, tcp_close).
LEMMA ProbesKeep ==
    ASSUME ConvInv, Probed
    PROVE  Underway' /\ UNCHANGED <<layout, port, dialogue, flows, handled, overtaken>>
<1>1. UNCHANGED <<layout, port, dialogue, flows, handled, overtaken>>
  <2>1. CASE Connect \/ Accept
    BY <2>1 DEF Connect, Accept, chosen
  <2>2. ASSUME NEW e \in Ends, NEW m \in Messages, Write(e, m)
        PROVE  UNCHANGED <<layout, port, dialogue, flows, handled, overtaken>>
    BY <2>2 DEF Write, chosen
  <2>3. ASSUME NEW e \in Ends, Read(e) \/ Close(e)
        PROVE  UNCHANGED <<layout, port, dialogue, flows, handled, overtaken>>
    BY <2>3 DEF Read, Close, chosen
  <2> QED
    BY <2>1, <2>2, <2>3 DEF Probed
<1>2. UNCHANGED <<port, dialogue>> /\ Underway
  BY <1>1 DEF ConvInv
<1>3. CASE Connect
  <2> DEFINE a == Detected(Outward("client", "connect"))
             b == [CommonInfo("client", "connect") EXCEPT !.error = <<65535, 65425>>]
  <2>1. (Emit(<<a>>) \/ Emit(<<a, b>>)) /\ net' = net
    BY <1>3 DEF Connect
  <2>2. a \in Records /\ b \in Records
    BY DEF Records, Opens
  <2> HIDE DEF a, b
  <2>3. <<a>> \in Seq(Records)
    BY <2>2
  <2>7. <<a, b>> \in Seq(Records)
    BY <2>2
  <2>4. net' \in [Ends -> Seq(Messages)]
    BY <2>1 DEF ConvInv, Underway
  <2>5. CASE Emit(<<a>>)
    BY <1>1, <1>2, <2>3, <2>4, <2>5, Emitted
  <2>6. CASE Emit(<<a, b>>)
    BY <1>1, <1>2, <2>7, <2>4, <2>6, Emitted
  <2> QED
    BY <2>1, <2>5, <2>6
<1>4. CASE Accept
  <2> DEFINE a == Detected(Inward("server", "accept"))
  <2>1. Emit(<<a>>) /\ net' = net
    BY <1>4 DEF Accept
  <2>2. a \in Records
    BY DEF Records, Opens
  <2> HIDE DEF a
  <2>3. <<a>> \in Seq(Records)
    BY <2>2
  <2>4. net' \in [Ends -> Seq(Messages)]
    BY <2>1 DEF ConvInv, Underway
  <2> QED
    BY <1>1, <1>2, <2>1, <2>3, <2>4, Emitted
<1>5. ASSUME NEW e \in Ends, NEW m \in Messages, Write(e, m)
      PROVE  Underway'
  <2> DEFINE a == SendRecord(e, m)
  <2>1. Emit(<<a>>) /\ net' = [net EXCEPT ![Peer(e)] = Append(@, m)]
    BY <1>5 DEF Write
  <2>2. a \in Records
    <3>1. m \in IF e = "client" THEN dialogue.requests ELSE dialogue.replies
      BY <1>5 DEF Write
    <3>2. e = "client" \/ e = "server"
      BY DEF Ends
    <3>3. CASE e = "client"
      BY <3>1, <3>3 DEF Records, ClientSends
    <3>4. CASE e = "server"
      BY <3>1, <3>4 DEF Records, ServerSends
    <3> QED
      BY <3>2, <3>3, <3>4
  <2> HIDE DEF a
  <2>3. <<a>> \in Seq(Records)
    BY <2>2
  <2>4. net' \in [Ends -> Seq(Messages)]
    <3> DEFINE o == Peer(e)
    <3>1. o \in Ends
      BY DEF Peer, Ends
    <3> HIDE DEF o
    <3>2. net \in [Ends -> Seq(Messages)] /\ net[o] \in Seq(Messages)
      BY <3>1 DEF ConvInv, Underway
    <3>3. Append(net[o], m) \in Seq(Messages)
      BY <3>2
    <3>4. net' = [net EXCEPT ![o] = Append(net[o], m)]
      BY <2>1 DEF o
    <3> QED
      BY <3>1, <3>2, <3>3, <3>4
  <2> QED
    BY <1>2, <2>1, <2>3, <2>4, Emitted
<1>6. ASSUME NEW e \in Ends, Read(e)
      PROVE  Underway'
  <2>1. PICK n \in 1..Len(net[e]) :
               /\ net' = [net EXCEPT ![e] = SubSeq(@, n + 1, Len(@))]
               /\ Emit(<<RecvRecord(e, SubSeq(net[e], 1, n))>>)
    BY <1>6 DEF Read
  <2> DEFINE ms == SubSeq(net[e], 1, n)
             rest == SubSeq(net[e], n + 1, Len(net[e]))
             a == RecvRecord(e, ms)
  <2>2. net \in [Ends -> Seq(Messages)] /\ net[e] \in Seq(Messages)
    BY DEF ConvInv, Underway
  <2>3. ms \in Seq(Messages) /\ rest \in Seq(Messages)
    BY <2>2
  <2>4. a \in Records
    <3>1. \A x \in Seq(Messages) : RecvRecord(e, x) \in Receives
      BY DEF Receives
    <3> HIDE DEF ms, rest
    <3>2. a \in Receives
      BY <2>3, <3>1
    <3> QED
      BY <3>2 DEF Records
  <2>5. net' = [net EXCEPT ![e] = rest] /\ Emit(<<a>>)
    BY <2>1
  <2> HIDE DEF a, rest, ms
  <2>6. <<a>> \in Seq(Records)
    BY <2>4
  <2>7. net' \in [Ends -> Seq(Messages)]
    BY <2>2, <2>3, <2>5
  <2> QED
    BY <1>2, <2>5, <2>6, <2>7, Emitted
<1>7. ASSUME NEW e \in Ends, Close(e)
      PROVE  Underway'
  <2> DEFINE a == Outward(e, "close")
  <2>1. Emit(<<a>>) /\ net' = net
    BY <1>7 DEF Close
  <2>2. a \in Records
    BY DEF Records, Closes
  <2> HIDE DEF a
  <2>3. <<a>> \in Seq(Records)
    BY <2>2
  <2>4. net' \in [Ends -> Seq(Messages)]
    BY <2>1 DEF ConvInv, Underway
  <2> QED
    BY <1>2, <2>1, <2>3, <2>4, Emitted
<1> QED
  BY <1>1, <1>3, <1>4, <1>5, <1>6, <1>7 DEF Probed

\* What is left of a sequence without one of its elements.
LEMMA Removed ==
    ASSUME NEW S, NEW q \in Seq(S), NEW i \in 1..Len(q)
    PROVE  LET r == RemoveAt(q, i)
           IN  /\ r \in Seq(S) /\ Len(r) = Len(q) - 1
               /\ \A j \in 1..(i - 1) : r[j] = q[j] /\ j \in 1..Len(q)
               /\ \A j \in i..(Len(q) - 1) : r[j] = q[j + 1] /\ j + 1 \in 1..Len(q)
<1> DEFINE a == SubSeq(q, 1, i - 1)
           b == SubSeq(q, i + 1, Len(q))
           n == Len(q)
<1>1. n \in Nat /\ i \in Nat /\ 1 <= i /\ i <= n
  OBVIOUS
<1>2. /\ a \in Seq(S) /\ Len(a) = i - 1 /\ \A j \in 1..(i - 1) : a[j] = q[j]
      /\ b \in Seq(S) /\ Len(b) = n - i /\ \A j \in 1..(n - i) : b[j] = q[i + j]
  BY <1>1
<1>3. RemoveAt(q, i) = a \o b
  BY DEF RemoveAt
<1> HIDE DEF a, b, n
<1>4. /\ a \o b \in Seq(S) /\ Len(a \o b) = n - 1
      /\ \A j \in 1..(i - 1) : (a \o b)[j] = a[j]
      /\ \A j \in i..(n - 1) : (a \o b)[j] = b[j - (i - 1)]
  <2>1. /\ a \o b \in Seq(S) /\ Len(a \o b) = Len(a) + Len(b)
        /\ \A j \in 1..(Len(a) + Len(b)) :
              (a \o b)[j] = IF j <= Len(a) THEN a[j] ELSE b[j - Len(a)]
    BY <1>2, ConcatProperties
  <2>2. (i - 1) + (n - i) = n - 1 /\ \A j \in 1..(i - 1) : j \in 1..(n - 1) /\ j <= i - 1
    BY <1>1
  <2>3. \A j \in i..(n - 1) : j \in 1..(n - 1) /\ ~(j <= i - 1)
    BY <1>1
  <2> QED
    BY <1>2, <2>1, <2>2, <2>3
<1>5. \A j \in i..(n - 1) : j - (i - 1) \in 1..(n - i) /\ i + (j - (i - 1)) = j + 1
  BY <1>1
<1>6. /\ \A j \in 1..(i - 1) : (a \o b)[j] = q[j] /\ j \in 1..n
      /\ \A j \in i..(n - 1) : (a \o b)[j] = q[j + 1] /\ j + 1 \in 1..n
  BY <1>1, <1>2, <1>4, <1>5
<1> QED
  BY <1>3, <1>4, <1>6 DEF n

\* A handler takes one of those records.
LEMMA Taken ==
    ASSUME ConvInv, NEW i \in InHand, NEW types, Handles(i, types)
    PROVE  /\ UNCHANGED <<layout, port, dialogue>> /\ Underway'
           /\ i \in 1..Len(events) /\ events[i] \in Records
           /\ Event(i) = parseRawEvent(events[i]) /\ Event(i).type \in types
<1>1. /\ UNCHANGED <<layout, port, dialogue, net>> /\ events' = RemoveAt(events, i)
      /\ Event(i).type \in types
  BY DEF Handles, chosen
<1>2. events \in Seq(Records) /\ net \in [Ends -> Seq(Messages)]
  BY DEF ConvInv, Underway
<1>3. i \in 1..Len(events) /\ events[i] \in Records
  BY <1>2 DEF InHand
<1>4. RemoveAt(events, i) \in Seq(Records)
  BY <1>2, <1>3, Removed
<1>5. Underway'
  BY <1>1, <1>2, <1>4, RecordsKept DEF Underway
<1>6. Event(i) = parseRawEvent(events[i])
  BY DEF Event
<1> QED
  BY <1>1, <1>3, <1>5, <1>6

\* A span that says nothing of a reply.
Unread(span) ==
    /\ ~span.matched
    /\ ~Familiar /\ (\E i \in DOMAIN span.carried : IsReply(span.carried[i])) =>
          span.trace = NoID /\ span.error = Word(0)

\* Whatever the record, its span is one.
LEMMA SpanUnread ==
    ASSUME Chosen, NEW r \in Records
    PROVE  Unread(SpanOf(parseRawEvent(r)))
<1> DEFINE q == parseRawEvent(r)
           p == SpanOf(q)
<1>1. /\ ~p.matched /\ p.carried = q.carried
      /\ p.trace = Parse(q).trace /\ p.error = Parse(q).error
  BY DEF SpanOf
<1>2. \/ \A i \in DOMAIN q.carried : ~IsReply(q.carried[i])
      \/ q.error = Word(0) /\ (q.payload = NulBytes \/ (~Familiar => q.protocol = "unknown"))
  <2>1. CASE r \in ClientSends
    BY <2>1, ClientSendDecoded
  <2>2. CASE r \in ServerSends
    BY <2>2, ServerSendDecoded
  <2>3. CASE r \in Receives
    BY <2>3, ReceiveDecoded
  <2>4. CASE r \in Opens \cup Closes
    BY <2>4, OtherDecoded
  <2> QED
    BY <2>1, <2>2, <2>3, <2>4 DEF Records
<1> HIDE DEF q, p
<1>3. Unread(p)
  BY <1>1, <1>2, NothingParsed DEF Unread
<1> QED
  BY <1>3 DEF p, q

\* No response is ever recognised at the end that receives it.
LEMMA NeverMatched ==
    ASSUME ConvInv, NEW i \in InHand, HandleRecv(i)
    PROVE  LET k == ConnKey(Event(i))
           IN  flows' = With(k, Flow(k)) /\ Reports(SpanOf(Event(i)))
<1>1. Handles(i, {"recv"})
  BY DEF HandleRecv
<1> DEFINE r == events[i]
<1>2. r \in Records /\ Event(i) = parseRawEvent(r) /\ parseRawEvent(r).type \in {"recv"}
  BY <1>1, Taken
<1> HIDE DEF r
<1>3. r \in Receives
  BY <1>2, ClientSendDecoded, ServerSendDecoded, OtherDecoded DEF Records, ConvInv
<1>4. ~isResponsePayload(Event(i))
  BY <1>2, <1>3, ReceiveDecoded, NoResponse
<1> QED
  BY <1>4 DEF HandleRecv

Handler(i) == HandleOpen(i) \/ HandleSend(i) \/ HandleRecv(i) \/ HandleClose(i)
Handled == \E i \in InHand : Handler(i)
Panicked == \E i \in InHand : Panic(i)

\* Whatever the handler, it takes its record and reports its span.
LEMMA HandlerReports ==
    ASSUME ConvInv, NEW i \in InHand, Handler(i)
    PROVE  (\E types : Handles(i, types)) /\ handled' = handled \cup {SpanOf(Event(i))}
<1>1. \E types : Handles(i, types)
  BY DEF Handler, HandleOpen, HandleSend, HandleRecv, HandleClose
<1>2. Reports(SpanOf(Event(i)))
  <2>1. CASE HandleRecv(i)
    BY <2>1, NeverMatched
  <2> QED
    BY <2>1 DEF Handler, HandleOpen, HandleSend, HandleClose
<1> QED
  BY <1>1, <1>2 DEF Reports

\* What a handler reports says nothing of a reply.
LEMMA HandlersKeep ==
    ASSUME ConvInv, Handled
    PROVE  ConvInv' /\ UNCHANGED <<layout, port, dialogue>>
<1>1. PICK i \in InHand : Handler(i)
  BY DEF Handled
<1>2. PICK types : Handles(i, types)
  BY <1>1, HandlerReports
<1> DEFINE r == events[i]
<1>3. /\ UNCHANGED <<layout, port, dialogue>> /\ Underway'
      /\ r \in Records /\ Event(i) = parseRawEvent(r)
  BY <1>2, Taken
<1> HIDE DEF r
<1>5. handled' = handled \cup {SpanOf(Event(i))}
  BY <1>1, HandlerReports
<1>6. \A span \in handled' : Unread(span)
  BY <1>3, <1>5, SpanUnread DEF ConvInv, RepliesUnread, Unread
<1>7. Chosen'
  BY <1>3 DEF ConvInv, Chosen
<1>8. RepliesUnread'
  BY <1>3, <1>6 DEF RepliesUnread, Unread, Familiar, IsReply, Word, Ports, Swap
<1> QED
  BY <1>3, <1>7, <1>8 DEF ConvInv

\* At first nothing is sent or handled.
LEMMA ConvInit == Init => ConvInv
<1> SUFFICES ASSUME Init PROVE ConvInv
  OBVIOUS
<1>1. PICK p \in ClientPorts : port = [client |-> p, server |-> dialogue.port]
  BY DEF Init
<1>2. dialogue \in Dialogues
  BY DEF Init
<1>3. p \in PortNumbers /\ dialogue.port \in PortNumbers
  BY <1>2, PortsAssumption
<1>4. port["client"] = p /\ port["server"] = dialogue.port
  BY <1>1
<1>5. Chosen
  BY <1>2, <1>3, <1>4 DEF Chosen
<1>6. Underway
  BY DEF Init, Underway
<1>7. RepliesUnread
  BY DEF Init, RepliesUnread
<1> QED
  BY <1>5, <1>6, <1>7 DEF ConvInv

\* The steps are these.
LEMMA Steps == [Next]_vars => Probed \/ Handled \/ Panicked \/ UNCHANGED vars
  BY DEF Next, Probed, Handled, Handler, Panicked, Messages

\* Panic leaves an empty ring buffer behind.
LEMMA ConvNext == ConvInv /\ [Next]_vars => ConvInv'
<1> SUFFICES ASSUME ConvInv, [Next]_vars PROVE ConvInv'
  OBVIOUS
<1>1. CASE Probed
  <2>1. Underway' /\ UNCHANGED <<layout, port, dialogue, flows, handled>>
    BY <1>1, ProbesKeep
  <2> QED
    BY <2>1 DEF ConvInv, Chosen, RepliesUnread, Familiar, IsReply
<1>2. CASE Handled
  BY <1>2, HandlersKeep
<1>3. CASE Panicked
  <2>1. UNCHANGED <<port, dialogue, handled, net>> /\ events' = <<>>
    BY <1>3 DEF Panicked, Panic, chosen
  <2>2. Underway'
    BY <2>1, RecordsKept DEF ConvInv, Underway
  <2> QED
    BY <2>1, <2>2 DEF ConvInv, Chosen, RepliesUnread, Familiar, IsReply
<1>4. CASE UNCHANGED vars
  <2>1. UNCHANGED <<port, dialogue, handled, net, events>>
    BY <1>4 DEF vars, chosen
  <2>2. Underway'
    BY <2>1, RecordsKept DEF ConvInv, Underway
  <2> QED
    BY <2>1, <2>2 DEF ConvInv, Chosen, RepliesUnread, Familiar, IsReply
<1> QED
  BY <1>1, <1>2, <1>3, <1>4, Steps

\* Nothing a reply says reaches a span: whatever the dialogue, the ports and the
\* layout, no request is matched with its response, and unless a port is familiar
\* neither the trace id nor the status of a reply is seen (tcp_cleanup_rbuf,
\* detect_protocol, Parse, isResponsePayload).
THEOREM RepliesNeverRead == Spec => []RepliesUnread
<1>1. Spec => []ConvInv
  BY ConvInit, ConvNext, PTL DEF Spec
<1>2. ConvInv => RepliesUnread
  BY DEF ConvInv
<1> QED
  BY <1>1, <1>2, PTL

-----------------------------------------------------------------------------
(* What waits.                                                             *)

\* A reply is no request for isRequestPayload, if its protocol is not known.
LEMMA NoRequest ==
    ASSUME Chosen, ~Familiar, NEW r \in ServerSends
    PROVE  ~isRequestPayload(parseRawEvent(r))
<1> DEFINE q == parseRawEvent(r)
<1>1. q.protocol = "unknown" /\ (q.payload = NulBytes \/ q.payload \in dialogue.replies)
  BY ServerSendDecoded
<1>2. \A m \in dialogue.replies : m.start \notin {"GET", "POST"}
  BY RepliesAssumption DEF Chosen
<1> HIDE DEF q
<1>3. q.payload.start \notin {"GET", "POST"}
  BY <1>1, <1>2 DEF NulBytes
<1>4. ~isRequestPayload(q)
  BY <1>1, <1>3 DEF isRequestPayload
<1> QED
  BY <1>4 DEF q

\* The handler of a send, and no other, adds to a list, and what it adds was sent
\* by the client.
LEMMA AddsAWaiter ==
    ASSUME ConvInv, ~Familiar, NEW i \in InHand, Handles(i, {"send"}), isRequestPayload(Event(i))
    PROVE  SpanOf(Event(i)) \in Waiters
<1> DEFINE r == events[i]
<1>1. r \in Records /\ Event(i) = parseRawEvent(r) /\ parseRawEvent(r).type \in {"send"}
  BY Taken
<1> HIDE DEF r
<1>2. r \notin ServerSends
  BY <1>1, NoRequest DEF ConvInv
<1>3. r \notin Receives /\ r \notin Opens \cup Closes
  BY <1>1, ReceiveDecoded, OtherDecoded
<1>4. r \in ClientSends
  BY <1>1, <1>2, <1>3 DEF Records
<1> QED
  BY <1>1, <1>4 DEF Waiters

\* The lists of a flow hold waiters, whichever operation replaces one.
LEMMA ListsOfWaiters ==
    ASSUME \A k \in DOMAIN flows : flows[k] \in Seq(Waiters)
    PROVE  /\ \A k : Flow(k) \in Seq(Waiters)
           /\ \A k : \A list \in Seq(Waiters) :
                 \A x \in DOMAIN With(k, list) : With(k, list)[x] \in Seq(Waiters)
           /\ \A k : \A x \in DOMAIN Without(k) : Without(k)[x] \in Seq(Waiters)
<1>1. \A k : Flow(k) \in Seq(Waiters)
  BY DEF Flow
<1>2. ASSUME NEW k, NEW list \in Seq(Waiters), NEW x \in DOMAIN With(k, list)
      PROVE  With(k, list)[x] \in Seq(Waiters)
  BY <1>2 DEF With
<1>3. ASSUME NEW k, NEW x \in DOMAIN Without(k)
      PROVE  Without(k)[x] \in Seq(Waiters)
  BY <1>3 DEF Without
<1> QED
  BY <1>1, <1>2, <1>3

\* The span of a record does not change.
LEMMA WaitersKept ==
    ASSUME UNCHANGED <<layout, port, dialogue>>
    PROVE  Waiters' = Waiters
  BY RecordsKept DEF Waiters, SpanOf, parseRawEvent, Parse, HTTPParsed, GRPCParsed, Unparsed

\* What the flows hold after a handler (handleConnect, handleSend, handleRecv,
\* handleClose).
LEMMA HandlersWait ==
    ASSUME ConvInv, Waits, ~Familiar, Handled
    PROVE  \A k \in DOMAIN flows' : flows'[k] \in Seq(Waiters)
<1>9. PICK i \in InHand : Handler(i)
  BY DEF Handled
<1> DEFINE k == ConnKey(Event(i))
           Good(f) == \A x \in DOMAIN f : f[x] \in Seq(Waiters)
<1>0. Good(flows)
  BY DEF Waits
<1>1. Flow(k) \in Seq(Waiters)
  BY <1>0, ListsOfWaiters
<1>2. \A list \in Seq(Waiters) : Good(With(k, list))
  BY <1>0, ListsOfWaiters
<1>3. CASE HandleOpen(i)
  <2>1. flows' = With(k, <<>>)
    BY <1>3 DEF HandleOpen
  <2>2. <<>> \in Seq(Waiters)
    OBVIOUS
  <2> QED
    BY <1>2, <2>1, <2>2
<1>4. CASE HandleSend(i)
  <2> DEFINE kept == IF Len(Flow(k)) >= maxInflight THEN Tail(Flow(k)) ELSE Flow(k)
             list == IF isRequestPayload(Event(i)) THEN Append(kept, SpanOf(Event(i))) ELSE Flow(k)
  <2>1. Handles(i, {"send"}) /\ flows' = With(k, list)
    BY <1>4 DEF HandleSend
  <2>2. isRequestPayload(Event(i)) => SpanOf(Event(i)) \in Waiters
    BY <2>1, AddsAWaiter
  <2>3. kept \in Seq(Waiters)
    <3> DEFINE held == Flow(k)
    <3> HIDE DEF held
    <3>1. held \in Seq(Waiters)
      BY <1>1 DEF held
    <3>2. Len(held) >= maxInflight => Tail(held) \in Seq(Waiters)
      BY <3>1, InflightAssumption
    <3> QED
      BY <3>1, <3>2 DEF held
  <2> HIDE DEF kept
  <2>4. list \in Seq(Waiters)
    BY <1>1, <2>2, <2>3
  <2> HIDE DEF list
  <2> QED
    BY <1>2, <2>1, <2>4
<1>5. CASE HandleRecv(i)
  <2>1. flows' = With(k, Flow(k))
    BY <1>5, NeverMatched
  <2> QED
    BY <1>1, <1>2, <2>1
<1>6. CASE HandleClose(i)
  <2>1. flows' = Without(k)
    BY <1>6 DEF HandleClose
  <2> QED
    BY <1>0, <2>1, ListsOfWaiters
<1> QED
  BY <1>3, <1>4, <1>5, <1>6, <1>9 DEF Handler

\* Only what the client has sent waits for a response, with every step.
LEMMA WaitsNext == ConvInv /\ Waits /\ [Next]_vars => Waits'
<1> SUFFICES ASSUME ConvInv, Waits, [Next]_vars PROVE Waits'
  OBVIOUS
<1>1. CASE Handled
  <2>1. UNCHANGED <<layout, port, dialogue>>
    BY <1>1, HandlersKeep
  <2>2. Waiters' = Waiters /\ Familiar' = Familiar
    BY <2>1, WaitersKept DEF Familiar
  <2> QED
    BY <1>1, <2>2, HandlersWait DEF Waits
<1>2. CASE Probed \/ Panicked \/ UNCHANGED vars
  <2>1. UNCHANGED <<layout, port, dialogue, flows>>
    BY <1>2, ProbesKeep DEF Panicked, Panic, vars, chosen
  <2>2. Waiters' = Waiters /\ Familiar' = Familiar
    BY <2>1, WaitersKept DEF Familiar
  <2> QED
    BY <2>1, <2>2 DEF Waits
<1> QED
  BY <1>1, <1>2, Steps

\* Whatever the dialogue, what waits for a response is what the client has sent,
\* and never a reply that begins as a request does, unless a port is familiar: the
\* wrong byte order of the server's own port keeps it out (isRequestPayload,
\* detect_protocol).
THEOREM OnlyRequestsEverWait == Spec => []OnlyRequestsWait
<1>1. Init => Waits
  BY DEF Init, Waits
<1>2. Spec => [](ConvInv /\ Waits)
  BY <1>1, ConvInit, ConvNext, WaitsNext, PTL DEF Spec
<1>3. ConvInv /\ Waits => OnlyRequestsWait
  <2> SUFFICES ASSUME ConvInv, Waits, ~Familiar,
                      NEW k \in DOMAIN flows, NEW i \in DOMAIN flows[k],
                      NEW j \in DOMAIN flows[k][i].carried
               PROVE  ~IsReply(flows[k][i].carried[j])
    BY DEF OnlyRequestsWait
  <2>1. flows[k] \in Seq(Waiters)
    BY DEF Waits
  <2>2. flows[k][i] \in Waiters
    BY <2>1
  <2>3. PICK r \in ClientSends : flows[k][i] = SpanOf(parseRawEvent(r))
    BY <2>2 DEF Waiters
  <2>4. flows[k][i].carried = parseRawEvent(r).carried
    BY <2>3 DEF SpanOf
  <2> QED
    BY <2>4, ClientSendDecoded DEF ConvInv
<1> QED
  BY <1>2, <1>3, PTL

-----------------------------------------------------------------------------
(* The keys under which the five probes name a connection.                 *)

\* What an end's connection is called, in any of its records.
EndKey(e) == [pid |-> e, ends |-> {<<Address[e], Swap(port[e])>>,
                                   <<Address[Peer(e)], port[Peer(e)]>>}]

\* What a connection without endpoints is called.
NoEndsKey == ConnKey(CommonInfo("client", "connect"))

\* A record of an end that names its endpoints.
Names(r, e) == IsRecord(r) /\ r.pid = e /\ ConnKey(r) = EndKey(e)

\* Byte order and direction differ, and the key is the same (tcp_connect, tcp_sendmsg,
\* tcp_close).
LEMMA OutwardNames ==
    ASSUME Chosen, NEW e \in Ends, NEW t
    PROVE  Names(Outward(e, t), e) /\ Outward(e, t).type = t
<1> DEFINE r == CommonInfo(e, t)
           o == Outward(e, t)
           p == Peer(e)
<1>1. IsRecord(r) /\ r.pid = e /\ r.type = t
  BY DEF IsRecord, Fields, CommonInfo
<1>2. o = [r EXCEPT !.saddr = Address[e], !.sport = port[e],
                    !.daddr = Address[p], !.dport = Swap(port[p])]
  BY DEF Outward
<1>3. Swap(Swap(port[p])) = port[p]
  <2>1. port[p] \in PortNumbers
    BY DEF Chosen, Peer
  <2> QED
    BY <2>1, SwapTwice
<1> HIDE DEF r, o, p
<1>4. /\ IsRecord(o) /\ o.pid = e /\ o.type = t
      /\ o.saddr = Address[e] /\ o.sport = port[e]
      /\ o.daddr = Address[p] /\ o.dport = Swap(port[p])
  BY <1>1, <1>2 DEF IsRecord, Fields
<1>5. ConnKey(o) = EndKey(e)
  BY <1>3, <1>4 DEF ConnKey, EndKey, p
<1> QED
  BY <1>4, <1>5 DEF Names, o

\* So it is for inet_csk_accept and tcp_cleanup_rbuf.
LEMMA InwardNames ==
    ASSUME Chosen, NEW e \in Ends, NEW t
    PROVE  Names(Inward(e, t), e) /\ Inward(e, t).type = t
<1> DEFINE r == CommonInfo(e, t)
           o == Inward(e, t)
           p == Peer(e)
<1>1. IsRecord(r) /\ r.pid = e /\ r.type = t
  BY DEF IsRecord, Fields, CommonInfo
<1>2. o = [r EXCEPT !.saddr = Address[p], !.sport = Swap(port[p]),
                    !.daddr = Address[e], !.dport = port[e]]
  BY DEF Inward
<1>3. Swap(Swap(port[p])) = port[p]
  <2>1. port[p] \in PortNumbers
    BY DEF Chosen, Peer
  <2> QED
    BY <2>1, SwapTwice
<1> HIDE DEF r, o, p
<1>4. /\ IsRecord(o) /\ o.pid = e /\ o.type = t
      /\ o.saddr = Address[p] /\ o.sport = Swap(port[p])
      /\ o.daddr = Address[e] /\ o.dport = port[e]
  BY <1>1, <1>2 DEF IsRecord, Fields
<1>5. ConnKey(o) = EndKey(e)
  BY <1>3, <1>4 DEF ConnKey, EndKey, p
<1> QED
  BY <1>4, <1>5 DEF Names, o

\* Neither protocol nor data are part of the name.
LEMMA DetectedNames ==
    ASSUME NEW r, NEW e, Names(r, e)
    PROVE  Names(Detected(r), e) /\ Detected(r).type = r.type
  BY DEF Names, Detected, IsRecord, Fields, ConnKey

\* So it is with what a send copies (tcp_sendmsg).
LEMMA SendNames ==
    ASSUME Chosen, NEW e \in Ends, NEW m
    PROVE  Names(SendRecord(e, m), e) /\ SendRecord(e, m).type = "send"
<1> DEFINE d == Detected(Outward(e, "send"))
<1>1. Names(d, e) /\ d.type = "send"
  BY OutwardNames, DetectedNames
<1>2. SendRecord(e, m) = [d EXCEPT !.payload = m, !.size = Word(m.size), !.carried = <<m>>]
  BY DEF SendRecord
<1> HIDE DEF d
<1> QED
  BY <1>1, <1>2 DEF Names, IsRecord, Fields, ConnKey

\* And with the size of what is received (tcp_cleanup_rbuf).
LEMMA RecvNames ==
    ASSUME Chosen, NEW e \in Ends, NEW ms
    PROVE  Names(RecvRecord(e, ms), e) /\ RecvRecord(e, ms).type = "recv"
<1> DEFINE d == Detected(Inward(e, "recv"))
<1>1. Names(d, e) /\ d.type = "recv"
  BY InwardNames, DetectedNames
<1>2. RecvRecord(e, ms) = [d EXCEPT !.size = Word(Bytes(ms)), !.carried = ms]
  BY DEF RecvRecord
<1> HIDE DEF d
<1> QED
  BY <1>1, <1>2 DEF Names, IsRecord, Fields, ConnKey

\* The record of a refused connection names none.
Refusal == [CommonInfo("client", "connect") EXCEPT !.error = <<65535, 65425>>]

\* Its key is that of the client's process and of no endpoint (tcp_connect_ret).
LEMMA RefusalNames ==
    Refusal.pid = "client" /\ Refusal.type = "connect" /\ ConnKey(Refusal) = NoEndsKey
<1> DEFINE r == CommonInfo("client", "connect")
<1>1. IsRecord(r) /\ r.pid = "client" /\ r.type = "connect"
  BY DEF IsRecord, Fields, CommonInfo
<1>2. Refusal = [r EXCEPT !.error = <<65535, 65425>>] /\ NoEndsKey = ConnKey(r)
  BY DEF Refusal, NoEndsKey
<1> HIDE DEF r
<1> QED
  BY <1>1, <1>2 DEF IsRecord, Fields, ConnKey

\* A record is one of an end, and is of the end's connection unless it is that one.
LEMMA RecordNames ==
    ASSUME Chosen, NEW r \in Records
    PROVE  r = Refusal \/ \E e \in Ends : Names(r, e)
<1>1. CASE r \in ClientSends
  <2>1. PICK m \in dialogue.requests : r = SendRecord("client", m)
    BY <1>1 DEF ClientSends
  <2> QED
    BY <2>1, SendNames DEF Ends
<1>2. CASE r \in ServerSends
  <2>1. PICK m \in dialogue.replies : r = SendRecord("server", m)
    BY <1>2 DEF ServerSends
  <2> QED
    BY <2>1, SendNames DEF Ends
<1>3. CASE r \in Receives
  <2>1. PICK e \in Ends, ms \in Seq(Messages) : r = RecvRecord(e, ms)
    BY <1>3 DEF Receives
  <2> QED
    BY <2>1, RecvNames
<1>4. CASE r \in Closes
  <2>1. PICK e \in Ends : r = Outward(e, "close")
    BY <1>4 DEF Closes
  <2> QED
    BY <2>1, OutwardNames
<1>5. CASE r \in Opens
  <2>1. "client" \in Ends /\ "server" \in Ends
    BY DEF Ends
  <2>2. Names(Detected(Outward("client", "connect")), "client")
    BY <2>1, OutwardNames, DetectedNames
  <2>3. Names(Detected(Inward("server", "accept")), "server")
    BY <2>1, InwardNames, DetectedNames
  <2> QED
    BY <1>5, <2>1, <2>2, <2>3 DEF Opens, Refusal
<1> QED
  BY <1>1, <1>2, <1>3, <1>4, <1>5 DEF Records

\* What the handlers need of that.
LEMMA RecordKey ==
    ASSUME Chosen, NEW r \in Records
    PROVE  /\ r.pid \in Ends /\ ConnKey(r).pid = r.pid
           /\ ConnKey(r) = EndKey(r.pid) \/ ConnKey(r) = NoEndsKey
           /\ r.type = "close" => ConnKey(r) = EndKey(r.pid)
<1>1. ConnKey(r).pid = r.pid
  BY DEF ConnKey
<1>2. "client" \in Ends
  BY DEF Ends
<1> QED
  BY <1>1, <1>2, RecordNames, RefusalNames DEF Names

-----------------------------------------------------------------------------
(* The close of an end is the last of its records.                         *)

NoneOf(e) == \A j \in 1..Len(events) : events[j].pid # e

LastIsClose(e) ==
    \E i \in 1..Len(events) : /\ events[i].type = "close" /\ events[i].pid = e
                              /\ \A j \in 1..Len(events) : j > i => events[j].pid # e

\* Nothing is left of the end's connection, or will be.
Silent(e) == NoneOf(e) /\ EndKey(e) \notin DOMAIN flows

\* The order of the calls on the two sockets.
SocketOrder ==
    /\ sock \in [Ends -> {"none", "open", "refused", "closed"}]
    /\ sock["client"] = "none" => sock["server"] = "none"

\* While the tracing process lives and reads records as they are laid out.
Tidy ==
    layout = "packed" /\ alive =>
        /\ DOMAIN flows \subseteq {EndKey("client"), EndKey("server"), NoEndsKey}
        /\ \A e \in Ends : /\ sock[e] = "none" => Silent(e)
                           /\ sock[e] = "closed" =>
                                Silent(e) \/ LastIsClose(e) \/ e \in overtaken

GoneInv == ConvInv /\ SocketOrder /\ Tidy

\* Keys stay what they are.
LEMMA KeysKept ==
    ASSUME UNCHANGED port
    PROVE  NoEndsKey' = NoEndsKey /\ \A e : EndKey(e)' = EndKey(e)
  BY DEF NoEndsKey, EndKey, ConnKey, CommonInfo

\* What one end sends leaves what the other end has sent where it is.
LEMMA OthersSend ==
    ASSUME Underway, NEW e, NEW f, e # f, NEW rs \in Seq(Records), Emit(rs),
           \A i \in 1..Len(rs) : rs[i].pid = e
    PROVE  /\ NoneOf(f) => NoneOf(f)'
           /\ LastIsClose(f) => LastIsClose(f)'
<1> DEFINE n == Len(events)
           m == Len(rs)
           es == events'
<1>1. events \in Seq(Records) /\ es = events \o rs
  BY DEF Underway, Emit
<1>2. /\ n \in Nat /\ m \in Nat /\ Len(es) = n + m
      /\ \A j \in 1..n : es[j] = events[j]
      /\ \A j \in (n + 1)..(n + m) : es[j] = rs[j - n] /\ j - n \in 1..m
  BY <1>1
<1>3. \A j \in 1..(n + m) : j \in 1..n \/ j \in (n + 1)..(n + m)
  BY <1>2
<1>4. \A j \in (n + 1)..(n + m) : es[j].pid # f
  BY <1>2
<1>5. ASSUME NoneOf(f)
      PROVE  NoneOf(f)'
  <2>1. \A j \in 1..n : es[j].pid # f
    BY <1>2, <1>5 DEF NoneOf
  <2> QED
    BY <1>2, <1>3, <1>4, <2>1 DEF NoneOf
<1>6. ASSUME LastIsClose(f)
      PROVE  LastIsClose(f)'
  <2>1. PICK i \in 1..n : /\ events[i].type = "close" /\ events[i].pid = f
                          /\ \A j \in 1..n : j > i => events[j].pid # f
    BY <1>6 DEF LastIsClose
  <2>2. i \in 1..(n + m) /\ es[i].type = "close" /\ es[i].pid = f
    BY <1>2, <2>1
  <2>3. \A j \in 1..(n + m) : j > i => es[j].pid # f
    BY <1>2, <1>3, <1>4, <2>1
  <2> QED
    BY <1>2, <2>2, <2>3 DEF LastIsClose
<1> QED
  BY <1>5, <1>6

\* The record of a close is the last one.
LEMMA CloseSends ==
    ASSUME Underway, NEW e, NEW r \in Records, Emit(<<r>>), r.type = "close", r.pid = e
    PROVE  LastIsClose(e)'
<1> DEFINE n == Len(events)
           es == events'
<1>1. events \in Seq(Records) /\ es = events \o <<r>>
  BY DEF Underway, Emit
<1>2. n \in Nat /\ Len(es) = n + 1 /\ es[n + 1] = r
  BY <1>1
<1>3. n + 1 \in 1..Len(es) /\ \A j \in 1..Len(es) : ~(j > n + 1)
  BY <1>2
<1> HIDE DEF n
<1> QED
  BY <1>2, <1>3 DEF LastIsClose

\* Taking a record leaves the order of the others. If it is the close of an end, no
\* record of that end is left, unless there was one before it.
LEMMA RecordTaken ==
    ASSUME Underway, NEW i \in 1..Len(events), events' = RemoveAt(events, i), NEW e
    PROVE  /\ NoneOf(e) => NoneOf(e)' /\ events[i].pid # e
           /\ LastIsClose(e) => \/ LastIsClose(e)'
                                \/ /\ events[i].type = "close" /\ events[i].pid = e
                                   /\ NoneOf(e)' \/ Behind(i)
<1> DEFINE n == Len(events)
           es == events'
           From(j) == IF j < i THEN j ELSE j + 1
<1>1. events \in Seq(Records) /\ es = RemoveAt(events, i) /\ n \in Nat /\ i \in 1..n
  BY DEF Underway
<1>2. /\ Len(es) = n - 1
      /\ \A j \in 1..(i - 1) : es[j] = events[j] /\ j \in 1..n
      /\ \A j \in i..(n - 1) : es[j] = events[j + 1] /\ j + 1 \in 1..n
  BY <1>1, Removed
<1>3. ASSUME NEW j \in 1..(n - 1)
      PROVE  es[j] = events[From(j)] /\ From(j) \in 1..n /\ From(j) # i
  <2>1. CASE j < i
    <3>1. j \in 1..(i - 1)
      BY <1>1, <2>1
    <3> QED
      BY <1>2, <2>1, <3>1
  <2>2. CASE ~(j < i)
    <3>1. j \in i..(n - 1) /\ j + 1 # i
      BY <1>1, <2>2
    <3> QED
      BY <1>2, <2>2, <3>1
  <2> QED
    BY <2>1, <2>2
<1>4. ASSUME NoneOf(e)
      PROVE  NoneOf(e)' /\ events[i].pid # e
  <2> HIDE DEF From
  <2>1. \A j \in 1..(n - 1) : es[j].pid # e
    BY <1>3, <1>4 DEF NoneOf
  <2> QED
    BY <1>2, <1>4, <2>1 DEF NoneOf
<1>5. ASSUME LastIsClose(e)
      PROVE  \/ LastIsClose(e)'
             \/ /\ events[i].type = "close" /\ events[i].pid = e
                /\ NoneOf(e)' \/ Behind(i)
  <2>1. PICK p \in 1..n : /\ events[p].type = "close" /\ events[p].pid = e
                          /\ \A j \in 1..n : j > p => events[j].pid # e
    BY <1>5 DEF LastIsClose
  <2>2. CASE p = i /\ ~Behind(i)
    <3>1. \A j \in 1..(i - 1) : events[j].pid # e
      BY <2>1, <2>2 DEF Behind
    <3>2. ASSUME NEW j \in 1..(n - 1)
          PROVE  es[j].pid # e
      <4>1. From(j) \in 1..n /\ From(j) # i /\ es[j] = events[From(j)]
        BY <1>3
      <4> HIDE DEF From
      <4>2. From(j) \in 1..(i - 1) \/ From(j) > i
        BY <1>1, <4>1
      <4> QED
        BY <2>1, <2>2, <3>1, <4>1, <4>2
    <3> QED
      BY <1>2, <2>1, <2>2, <3>2 DEF NoneOf
  <2>3. CASE p # i
    <3> DEFINE k == IF p < i THEN p ELSE p - 1
    <3>1. k \in 1..(n - 1) /\ From(k) = p
      BY <1>1, <2>3
    <3>2. \A j \in 1..(n - 1) : j > k => From(j) > p
      BY <1>1, <2>3
    <3> HIDE DEF k, From
    <3>3. es[k].type = "close" /\ es[k].pid = e
      BY <1>3, <2>1, <3>1
    <3>4. \A j \in 1..(n - 1) : j > k => es[j].pid # e
      BY <1>3, <2>1, <3>2
    <3> QED
      BY <1>2, <3>1, <3>3, <3>4 DEF LastIsClose
  <2> QED
    BY <2>1, <2>2, <2>3
<1> QED
  BY <1>4, <1>5

\* A probe of one end leaves nothing of the other behind.
LEMMA SendTidy ==
    ASSUME GoneInv, UNCHANGED <<layout, port, flows, alive, overtaken>>,
           NEW e \in Ends, NEW rs \in Seq(Records), Emit(rs), \A i \in 1..Len(rs) : rs[i].pid = e,
           sock'[e] # "none", sock'[e] = "closed" => LastIsClose(e)',
           \A f \in Ends \ {e} : sock'[f] = sock[f] \/ (sock[f] = "none" /\ sock'[f] = "closed")
    PROVE  Tidy'
<1> SUFFICES ASSUME layout = "packed", alive PROVE Tidy'
  BY DEF Tidy
<1>1. /\ DOMAIN flows \subseteq {EndKey("client"), EndKey("server"), NoEndsKey}
      /\ \A f \in Ends : /\ sock[f] = "none" => Silent(f)
                         /\ sock[f] = "closed" => Silent(f) \/ LastIsClose(f) \/ f \in overtaken
  BY DEF GoneInv, Tidy
<1>2. NoEndsKey' = NoEndsKey /\ \A f : EndKey(f)' = EndKey(f)
  BY KeysKept
<1>3. DOMAIN flows' \subseteq {EndKey("client")', EndKey("server")', NoEndsKey'}
  BY <1>1, <1>2
<1>4. ASSUME NEW f \in Ends
      PROVE  /\ sock'[f] = "none" => Silent(f)'
             /\ sock'[f] = "closed" => Silent(f)' \/ LastIsClose(f)' \/ f \in overtaken'
  <2>1. CASE f = e
    BY <2>1
  <2>2. CASE f # e
    <3>1. /\ NoneOf(f) => NoneOf(f)'
          /\ LastIsClose(f) => LastIsClose(f)'
      BY <2>2, OthersSend DEF GoneInv, ConvInv
    <3>2. Silent(f) => Silent(f)'
      BY <1>2, <3>1 DEF Silent
    <3>3. sock'[f] = sock[f] \/ (sock[f] = "none" /\ sock'[f] = "closed")
      BY <2>2
    <3> QED
      BY <1>1, <3>1, <3>2, <3>3
  <2> QED
    BY <2>1, <2>2
<1> QED
  BY <1>3, <1>4 DEF Tidy

\* Each probe is of one end, and that of tcp_close the last.
LEMMA ProbesTidy ==
    ASSUME GoneInv, Probed
    PROVE  SocketOrder' /\ Tidy'
<1>1. /\ Chosen /\ Underway /\ sock \in [Ends -> {"none", "open", "refused", "closed"}]
      /\ sock["client"] = "none" => sock["server"] = "none"
  BY DEF GoneInv, ConvInv, SocketOrder
<1>2. Ends = {"client", "server"} /\ "client" \in Ends /\ "server" \in Ends
  BY DEF Ends
<1>3. CASE Connect
  <2> DEFINE a == Detected(Outward("client", "connect"))
             b == Refusal
             Opened == sock' = [sock EXCEPT !["client"] = "open"] /\ Emit(<<a>>)
             Refused == /\ sock' = [sock EXCEPT !["client"] = "refused", !["server"] = "closed"]
                        /\ Emit(<<a, b>>)
  <2>1. /\ sock["client"] = "none" /\ UNCHANGED <<layout, port, flows, alive, overtaken>>
        /\ Opened \/ Refused
    <3>1. sock["client"] = "none" /\ (Opened \/ Refused)
      BY <1>3 DEF Connect, Refusal
    <3>2. UNCHANGED <<layout, port, flows, alive, overtaken>>
      BY <1>3 DEF Connect, chosen
    <3> QED
      BY <3>1, <3>2
  <2>2. a \in Records /\ b \in Records
    BY DEF Records, Opens, Refusal
  <2>3. a.pid = "client" /\ b.pid = "client"
    BY <1>1, <1>2, OutwardNames, DetectedNames, RefusalNames DEF Names
  <2> HIDE DEF a, b
  <2>4. CASE Opened
    <3>1. /\ sock' \in [Ends -> {"none", "open", "refused", "closed"}]
          /\ sock'["client"] = "open" /\ sock'["server"] = sock["server"]
      BY <1>1, <1>2, <2>4
    <3>2. SocketOrder'
      BY <3>1 DEF SocketOrder
    <3>3. <<a>> \in Seq(Records) /\ \A i \in 1..Len(<<a>>) : <<a>>[i].pid = "client"
      BY <2>2, <2>3
    <3>4. \A f \in Ends \ {"client"} : sock'[f] = sock[f]
      BY <1>2, <3>1
    <3>5. Emit(<<a>>)
      BY <2>4
    <3>6. Tidy'
      BY <1>2, <2>1, <3>1, <3>3, <3>4, <3>5, SendTidy
    <3> QED
      BY <3>2, <3>6
  <2>5. CASE Refused
    <3>1. /\ sock' \in [Ends -> {"none", "open", "refused", "closed"}]
          /\ sock'["client"] = "refused" /\ sock'["server"] = "closed"
      BY <1>1, <1>2, <2>5
    <3>2. SocketOrder'
      BY <3>1 DEF SocketOrder
    <3>3. <<a, b>> \in Seq(Records) /\ \A i \in 1..Len(<<a, b>>) : <<a, b>>[i].pid = "client"
      BY <2>2, <2>3
    <3>4. \A f \in Ends \ {"client"} : sock[f] = "none" /\ sock'[f] = "closed"
      <4>1. sock["server"] = "none" /\ sock'["server"] = "closed"
        BY <1>1, <2>1, <3>1
      <4>2. \A f \in Ends \ {"client"} : f = "server"
        BY <1>2
      <4> QED
        BY <4>1, <4>2
    <3>5. Emit(<<a, b>>)
      BY <2>5
    <3> DEFINE rs == <<a, b>>
    <3> HIDE DEF rs, Opened, Refused
    <3>6. /\ rs \in Seq(Records) /\ \A i \in 1..Len(rs) : rs[i].pid = "client"
          /\ Emit(rs)
      BY <3>3, <3>5 DEF rs
    <3>7. Tidy'
      BY <1>2, <2>1, <3>1, <3>4, <3>6, SendTidy
    <3> QED
      BY <3>2, <3>7
  <2> QED
    BY <2>1, <2>4, <2>5
<1>4. CASE Accept
  <2> DEFINE a == Detected(Inward("server", "accept"))
  <2>1. /\ sock["client"] \in {"open", "closed"} /\ UNCHANGED <<layout, port, flows, alive, overtaken>>
        /\ sock' = [sock EXCEPT !["server"] = "open"] /\ Emit(<<a>>)
    BY <1>4 DEF Accept, Emit, chosen
  <2>2. a \in Records
    BY DEF Records, Opens
  <2>3. a.pid = "server"
    BY <1>1, <1>2, InwardNames, DetectedNames DEF Names
  <2> HIDE DEF a
  <2>4. /\ sock' \in [Ends -> {"none", "open", "refused", "closed"}]
        /\ sock'["server"] = "open" /\ sock'["client"] = sock["client"]
    BY <1>1, <1>2, <2>1
  <2>5. SocketOrder'
    BY <2>1, <2>4 DEF SocketOrder
  <2>6. <<a>> \in Seq(Records) /\ \A i \in 1..Len(<<a>>) : <<a>>[i].pid = "server"
    BY <2>2, <2>3
  <2>7. \A f \in Ends \ {"server"} : sock'[f] = sock[f]
    BY <1>2, <2>4
  <2>8. Tidy'
    BY <1>2, <2>1, <2>4, <2>6, <2>7, SendTidy
  <2> QED
    BY <2>5, <2>8
<1>5. ASSUME NEW e \in Ends, NEW m \in Messages, Write(e, m)
      PROVE  SocketOrder' /\ Tidy'
  <2> DEFINE a == SendRecord(e, m)
  <2>1. /\ sock[e] = "open" /\ sock' = sock /\ UNCHANGED <<layout, port, flows, alive, overtaken>>
        /\ Emit(<<a>>)
    BY <1>5 DEF Write, Emit, chosen
  <2>2. a \in Records
    <3>1. m \in IF e = "client" THEN dialogue.requests ELSE dialogue.replies
      BY <1>5 DEF Write, Emit, chosen
    <3>2. CASE e = "client"
      BY <3>1, <3>2 DEF Records, ClientSends
    <3>3. CASE e = "server"
      BY <3>1, <3>3 DEF Records, ServerSends
    <3> QED
      BY <1>2, <3>2, <3>3
  <2>3. a.pid = e
    BY <1>1, SendNames DEF Names
  <2> HIDE DEF a
  <2>4. SocketOrder'
    BY <1>1, <2>1 DEF SocketOrder
  <2>5. <<a>> \in Seq(Records) /\ \A i \in 1..Len(<<a>>) : <<a>>[i].pid = e
    BY <2>2, <2>3
  <2>6. Tidy'
    BY <2>1, <2>5, SendTidy
  <2> QED
    BY <2>4, <2>6
<1>6. ASSUME NEW e \in Ends, Read(e)
      PROVE  SocketOrder' /\ Tidy'
  <2>1. PICK n \in 1..Len(net[e]) : Emit(<<RecvRecord(e, SubSeq(net[e], 1, n))>>)
    BY <1>6 DEF Read, Emit, chosen
  <2> DEFINE ms == SubSeq(net[e], 1, n)
             a == RecvRecord(e, ms)
  <2>2. /\ sock[e] = "open" /\ sock' = sock /\ UNCHANGED <<layout, port, flows, alive, overtaken>>
        /\ Emit(<<a>>)
    BY <1>6, <2>1 DEF Read, Emit, chosen
  <2>3. ms \in Seq(Messages)
    <3>1. net[e] \in Seq(Messages)
      BY <1>1 DEF Underway
    <3> QED
      BY <3>1
  <2> HIDE DEF ms
  <2>4. a \in Receives /\ a.pid = e
    BY <1>1, <2>3, RecvNames DEF Receives, Names
  <2>5. a \in Records
    BY <2>4 DEF Records
  <2> HIDE DEF a
  <2>6. SocketOrder'
    BY <1>1, <2>2 DEF SocketOrder
  <2>7. <<a>> \in Seq(Records) /\ \A i \in 1..Len(<<a>>) : <<a>>[i].pid = e
    BY <2>4, <2>5
  <2>8. Tidy'
    BY <2>2, <2>7, SendTidy
  <2> QED
    BY <2>6, <2>8
<1>7. ASSUME NEW e \in Ends, Close(e)
      PROVE  SocketOrder' /\ Tidy'
  <2> DEFINE a == Outward(e, "close")
  <2>1. /\ sock[e] \in {"open", "refused"} /\ UNCHANGED <<layout, port, flows, alive, overtaken>>
        /\ sock' = [sock EXCEPT ![e] = "closed"] /\ Emit(<<a>>)
    BY <1>7 DEF Close, Emit, chosen
  <2>2. a \in Records
    BY DEF Records, Closes
  <2>3. a.pid = e /\ a.type = "close"
    BY <1>1, OutwardNames DEF Names
  <2> HIDE DEF a
  <2>4. /\ sock' \in [Ends -> {"none", "open", "refused", "closed"}]
        /\ sock'[e] = "closed" /\ \A f \in Ends \ {e} : sock'[f] = sock[f]
    BY <1>1, <2>1
  <2>5. SocketOrder'
    <3>1. sock'["client"] = "none" => sock["client"] = "none"
      BY <1>2, <2>4
    <3>2. sock["client"] = "none" => sock'["server"] = "none"
      BY <1>1, <1>2, <2>1, <2>4
    <3> QED
      BY <2>4, <3>1, <3>2 DEF SocketOrder
  <2>6. LastIsClose(e)'
    BY <1>1, <2>1, <2>2, <2>3, CloseSends
  <2>7. <<a>> \in Seq(Records) /\ \A i \in 1..Len(<<a>>) : <<a>>[i].pid = e
    BY <2>2, <2>3
  <2>8. Tidy'
    BY <2>1, <2>4, <2>6, <2>7, SendTidy
  <2> QED
    BY <2>5, <2>8
<1> QED
  BY <1>3, <1>4, <1>5, <1>6, <1>7 DEF Probed

\* A handler changes the flow of the record it takes, and no other; that of a close
\* removes it.
LEMMA HandlersTidy ==
    ASSUME GoneInv, Handled
    PROVE  SocketOrder' /\ Tidy'
<1>0. PICK i \in InHand : Handler(i)
  BY DEF Handled
<1>1. PICK types : Handles(i, types)
  BY <1>0, HandlerReports DEF GoneInv
<1>2. /\ UNCHANGED <<layout, port, dialogue, sock, alive>>
      /\ events' = RemoveAt(events, i)
  BY <1>1 DEF Handles, chosen
<1>3. SocketOrder'
  BY <1>2 DEF GoneInv, SocketOrder
<1> SUFFICES ASSUME layout = "packed", alive PROVE Tidy'
  BY <1>2, <1>3 DEF Tidy
<1> DEFINE h == events[i]
           k == ConnKey(h)
<1>4. Event(i) = h
  BY DEF Event, parseRawEvent
<1>5. h \in Records /\ i \in 1..Len(events)
  BY <1>1, Taken DEF GoneInv
<1>6. /\ h.pid \in Ends /\ k.pid = h.pid
      /\ k = EndKey(h.pid) \/ k = NoEndsKey
      /\ h.type = "close" => k = EndKey(h.pid)
  BY <1>5, RecordKey DEF GoneInv, ConvInv
<1>7. /\ DOMAIN flows' \subseteq DOMAIN flows \cup {k}
      /\ h.type = "close" => k \notin DOMAIN flows' /\ (Behind(i) => h.pid \in overtaken')
      /\ overtaken \subseteq overtaken'
  <2>1. CASE HandleOpen(i)
    <3>1. /\ Event(i).type \in {"connect", "accept"} /\ flows' = With(ConnKey(Event(i)), <<>>)
          /\ overtaken' = overtaken
      BY <2>1 DEF HandleOpen, Handles
    <3> QED
      BY <1>4, <3>1 DEF With
  <2>2. CASE HandleSend(i)
    <3>1. /\ Event(i).type \in {"send"} /\ \E list : flows' = With(ConnKey(Event(i)), list)
          /\ overtaken' = overtaken
      BY <2>2 DEF HandleSend, Handles
    <3> QED
      BY <1>4, <3>1 DEF With
  <2>3. CASE HandleRecv(i)
    <3>1. /\ Event(i).type \in {"recv"} /\ \E list : flows' = With(ConnKey(Event(i)), list)
          /\ overtaken' = overtaken
      BY <2>3 DEF HandleRecv, Handles
    <3> QED
      BY <1>4, <3>1 DEF With
  <2>4. CASE HandleClose(i)
    <3>1. /\ flows' = Without(ConnKey(Event(i)))
          /\ overtaken' = IF Behind(i) THEN overtaken \cup {h.pid} ELSE overtaken
      BY <2>4 DEF HandleClose
    <3> QED
      BY <1>4, <3>1 DEF Without
  <2> QED
    BY <1>0, <2>1, <2>2, <2>3, <2>4 DEF Handler
<1>8. NoEndsKey' = NoEndsKey /\ \A f : EndKey(f)' = EndKey(f)
  BY <1>2, KeysKept
<1>9. /\ DOMAIN flows \subseteq {EndKey("client"), EndKey("server"), NoEndsKey}
      /\ \A f \in Ends : /\ sock[f] = "none" => Silent(f)
                         /\ sock[f] = "closed" =>
                              Silent(f) \/ LastIsClose(f) \/ f \in overtaken
  BY DEF GoneInv, Tidy
<1>10. DOMAIN flows' \subseteq {EndKey("client")', EndKey("server")', NoEndsKey'}
  BY <1>6, <1>7, <1>8, <1>9 DEF Ends
<1>11. ASSUME NEW f \in Ends
       PROVE  /\ Silent(f) => Silent(f)'
              /\ LastIsClose(f) => Silent(f)' \/ LastIsClose(f)' \/ f \in overtaken'
  <2>1. /\ NoneOf(f) => NoneOf(f)' /\ h.pid # f
        /\ LastIsClose(f) => \/ LastIsClose(f)'
                             \/ /\ h.type = "close" /\ h.pid = f
                                /\ NoneOf(f)' \/ Behind(i)
    BY <1>2, <1>5, RecordTaken DEF GoneInv, ConvInv
  <2>2. EndKey(f).pid = f
    BY DEF EndKey
  <2> HIDE DEF h, k
  <2>3. ASSUME Silent(f) PROVE Silent(f)'
    BY <1>6, <1>7, <1>8, <2>1, <2>2, <2>3 DEF Silent
  <2>4. ASSUME LastIsClose(f) PROVE Silent(f)' \/ LastIsClose(f)' \/ f \in overtaken'
    BY <1>6, <1>7, <1>8, <2>1, <2>4 DEF Silent
  <2> QED
    BY <2>3, <2>4
<1>12. \A f \in Ends : /\ sock'[f] = "none" => Silent(f)'
                       /\ sock'[f] = "closed" =>
                            Silent(f)' \/ LastIsClose(f)' \/ f \in overtaken'
  BY <1>2, <1>7, <1>9, <1>11
<1> QED
  BY <1>10, <1>12 DEF Tidy

\* So the flows stay tidy.
THEOREM GoneInductive == Spec => []GoneInv
<1>1. Init => GoneInv
  <2> SUFFICES ASSUME Init PROVE GoneInv
    OBVIOUS
  <2>1. events = <<>> /\ DOMAIN flows = {} /\ sock = [e \in Ends |-> "none"]
    BY DEF Init
  <2>2. Tidy
    BY <2>1 DEF Tidy, Silent, NoneOf
  <2>3. SocketOrder
    BY <2>1 DEF SocketOrder, Ends
  <2> QED
    BY <2>2, <2>3, ConvInit DEF GoneInv
<1>2. GoneInv /\ [Next]_vars => GoneInv'
  <2> SUFFICES ASSUME GoneInv, [Next]_vars PROVE GoneInv'
    OBVIOUS
  <2>1. ConvInv'
    BY ConvNext DEF GoneInv
  <2>2. SocketOrder' /\ Tidy'
    <3>1. CASE Probed
      BY <3>1, ProbesTidy
    <3>2. CASE Handled
      BY <3>2, HandlersTidy
    <3>3. CASE Panicked
      BY <3>3 DEF Panicked, Panic, GoneInv, SocketOrder, Tidy
    <3>4. CASE UNCHANGED vars
      <4>1. UNCHANGED <<layout, port, sock, events, flows, overtaken, alive>>
        BY <3>4 DEF vars, chosen
      <4> QED
        BY <4>1, KeysKept DEF GoneInv, SocketOrder, Tidy, Silent, NoneOf, LastIsClose
    <3> QED
      BY <3>1, <3>2, <3>3, <3>4, Steps
  <2> QED
    BY <2>1, <2>2 DEF GoneInv
<1> QED
  BY <1>1, <1>2, PTL DEF Spec

\* When both ends have closed their sockets and all records are handled, no flow is left
\* of an end whose close was the last of its records to be handled, for any ports and
\* any number of workers: all five probes name the connection by the same key, if the
\* decoder reads a record as it is laid out (getConnectionKey, handleClose).
THEOREM ClosedFlowsAreGone == Spec => []ClosedFlowsGone
<1>1. GoneInv => ClosedFlowsGone
  <2> SUFFICES ASSUME GoneInv, layout = "packed", alive, events = <<>>,
                      \A e \in Ends : sock[e] = "closed",
                      NEW k \in DOMAIN flows
               PROVE  k = NoEndsKey \/ k.pid \in overtaken
    BY DEF ClosedFlowsGone, NoEndsKey
  <2>1. \A e \in Ends : ~LastIsClose(e)
    BY DEF LastIsClose
  <2>2. \A e \in Ends : EndKey(e) \notin DOMAIN flows \/ e \in overtaken
    BY <2>1 DEF GoneInv, Tidy, Silent
  <2>3. k \in {EndKey("client"), EndKey("server"), NoEndsKey}
    BY DEF GoneInv, Tidy
  <2>4. \A e : EndKey(e).pid = e
    BY DEF EndKey
  <2> QED
    BY <2>2, <2>3, <2>4 DEF Ends
<1> QED
  BY <1>1, GoneInductive, PTL

-----------------------------------------------------------------------------
(* Adding up bytes.  The recursive function of a fold, and induction over  *)
(* the natural numbers as the least element of a set of them.              *)

\* A set of natural numbers has a least element.
LEMMA Least ==
    ASSUME NEW S, S \subseteq Nat, S # {}
    PROVE  \E n \in S : \A m \in S : n <= m
<1>1. IsWellFoundedOn(OpToRel(<, Nat), Nat)
  BY NatLessThanWellFounded
<1>2. PICK n \in S : \A m \in S : ~(<<m, n>> \in OpToRel(<, Nat))
  BY <1>1, WFMin
<1>3. \A m \in S : ~(m < n)
  BY <1>2, Zenon DEF OpToRel
<1> QED
  <2>1. \A m \in S : m \in Nat
    OBVIOUS
  <2> QED
    BY <1>3, <2>1

\* So a set with 0 and all successors has every natural number.
LEMMA NatInd ==
    ASSUME NEW S, 0 \in S, \A n \in Nat : n \in S => n + 1 \in S
    PROVE  Nat \subseteq S
<1> SUFFICES ASSUME Nat \ S # {} PROVE FALSE
  OBVIOUS
<1>1. PICK n \in Nat \ S : \A m \in Nat \ S : n <= m
  BY Least
<1>2. n # 0 /\ n - 1 \in Nat
  BY <1>1
<1>3. n - 1 \in S
  BY <1>1, <1>2
<1> QED
  BY <1>1, <1>2, <1>3


\* One step of the fold that adds up sizes, and a function that satisfies the recursion.
Added(s, it, T) == IF T = {} THEN 0 ELSE it[T \ {Max(T)}] + s[Max(T)].size
AddsUp(s, n, it) == it = [T \in SUBSET (1..n) |-> Added(s, it, T)]

\* The greatest element of a set of numbers up to n + 1 that holds n + 1.
LEMMA MaxOf ==
    ASSUME NEW n \in Nat, NEW T \in SUBSET (1..(n + 1)), n + 1 \in T
    PROVE  Max(T) = n + 1 /\ T \ {Max(T)} \in SUBSET (1..n)
<1>1. \A x \in T : n + 1 >= x
  OBVIOUS
<1>2. \A x \in T : (\A y \in T : x >= y) => x = n + 1
  BY <1>1
<1>3. Max(T) = n + 1
  BY <1>1, <1>2 DEF Max
<1> QED
  BY <1>3

\* The recursion of the fold has a solution.
LEMMA AddsUpExists ==
    ASSUME NEW s
    PROVE  \A n \in Nat : \E it : AddsUp(s, n, it)
<1> DEFINE P == {n \in Nat : \E it : AddsUp(s, n, it)}
<1>1. 0 \in P
  <2>1. 1..0 = {}
    OBVIOUS
  <2>2. AddsUp(s, 0, [T \in SUBSET (1..0) |-> 0])
    BY <2>1 DEF AddsUp, Added
  <2> QED
    BY <2>2
<1>2. ASSUME NEW n \in Nat, n \in P
      PROVE  n + 1 \in P
  <2>1. PICK f : AddsUp(s, n, f)
    BY <1>2
  <2> DEFINE g == [T \in SUBSET (1..(n + 1)) |->
                     IF n + 1 \in T THEN f[T \ {n + 1}] + s[n + 1].size ELSE f[T]]
  <2>2. ASSUME NEW T \in SUBSET (1..(n + 1))
        PROVE  g[T] = Added(s, g, T)
    <3>1. CASE n + 1 \in T
      <4>1. Max(T) = n + 1 /\ T \ {Max(T)} \in SUBSET (1..n)
        BY <3>1, MaxOf
      <4>2. g[T \ {n + 1}] = f[T \ {n + 1}]
        BY <4>1
      <4> QED
        BY <3>1, <4>1, <4>2 DEF Added
    <3>2. CASE n + 1 \notin T
      <4>1. T \in SUBSET (1..n)
        BY <3>2
      <4>2. f[T] = Added(s, f, T)
        BY <4>1, <2>1 DEF AddsUp
      <4>3. \A x : T \ {x} \in SUBSET (1..(n + 1)) /\ n + 1 \notin T \ {x}
        BY <3>2
      <4>4. \A x : g[T \ {x}] = f[T \ {x}]
        BY <4>3
      <4> QED
        BY <4>2, <4>4, <3>2 DEF Added
    <3> QED
      BY <3>1, <3>2
  <2>3. AddsUp(s, n + 1, g)
    BY <2>2 DEF AddsUp
  <2> QED
    BY <2>3
<1>3. Nat \subseteq P
  <2> HIDE DEF P
  <2> QED
    BY <1>1, <1>2, NatInd
<1> QED
  BY <1>3

\* So Bytes is the value of such a function.
LEMMA BytesFold ==
    ASSUME NEW M, NEW s \in Seq(M)
    PROVE  \E it : AddsUp(s, Len(s), it) /\ Bytes(s) = it[1..Len(s)]
<1>1. DOMAIN s = 1..Len(s)
  OBVIOUS
<1> DEFINE f == CHOOSE it : AddsUp(s, Len(s), it)
<1>2. Bytes(s) = f[1..Len(s)]
  BY <1>1, Zenon DEF Bytes, FoldLeft, MapThenFoldSet, AddsUp, Added
<1>3. AddsUp(s, Len(s), f)
  <2>1. Len(s) \in Nat
    OBVIOUS
  <2> QED
    BY <2>1, AddsUpExists, Zenon
<1> QED
  BY <1>2, <1>3

\* The greatest element is added last.
LEMMA AddsUpStep ==
    ASSUME NEW s, NEW m \in Nat, NEW f, AddsUp(s, m, f), NEW n \in Nat, n + 1 <= m
    PROVE  f[1..(n + 1)] = f[1..n] + s[n + 1].size
<1> DEFINE T == 1..(n + 1)
<1>1. T \in SUBSET (1..m) /\ T # {} /\ n + 1 \in T /\ T \in SUBSET (1..(n + 1))
  <2>1. \A i \in 1..(n + 1) : i \in 1..m
    OBVIOUS
  <2> QED
    BY <2>1
<1>2. T \ {n + 1} = 1..n
  OBVIOUS
<1> HIDE DEF T
<1>3. Max(T) = n + 1
  BY <1>1, MaxOf
<1>4. f[T] = Added(s, f, T)
  BY <1>1 DEF AddsUp
<1>5. f[T] = f[T \ {n + 1}] + s[n + 1].size
  BY <1>1, <1>3, <1>4 DEF Added
<1> QED
  BY <1>2, <1>5 DEF T

\* What the function gives for 1..n depends on the first n elements only.
LEMMA AddsUpAgree ==
    ASSUME NEW s, NEW r, NEW m \in Nat, NEW k \in Nat, k <= m,
           NEW f, AddsUp(s, m, f), NEW g, AddsUp(r, k, g),
           \A i \in 1..k : r[i] = s[i]
    PROVE  f[1..k] = g[1..k]
<1> DEFINE P == {n \in Nat : n <= k => f[1..n] = g[1..n]}
<1>1. 0 \in P
  <2>0. {} \in SUBSET (1..m) /\ {} \in SUBSET (1..k)
    OBVIOUS
  <2>1. f[{}] = 0 /\ g[{}] = 0
    BY <2>0 DEF AddsUp, Added
  <2>2. 1..0 = {}
    OBVIOUS
  <2> QED
    BY <2>1, <2>2
<1>2. ASSUME NEW n \in Nat, n \in P
      PROVE  n + 1 \in P
  <2> SUFFICES ASSUME n + 1 <= k
               PROVE  f[1..(n + 1)] = g[1..(n + 1)]
    OBVIOUS
  <2>4. f[1..(n + 1)] = f[1..n] + s[n + 1].size
    BY AddsUpStep
  <2>5. g[1..(n + 1)] = g[1..n] + r[n + 1].size
    BY AddsUpStep
  <2>6. f[1..n] = g[1..n] /\ r[n + 1] = s[n + 1]
    BY <1>2
  <2> QED
    BY <2>4, <2>5, <2>6
<1>3. Nat \subseteq P
  <2> HIDE DEF P
  <2> QED
    BY <1>1, <1>2, NatInd
<1> QED
  BY <1>3

\* No messages have no bytes.
LEMMA BytesNone == Bytes(<<>>) = 0
<1>1. <<>> \in Seq({}) /\ Len(<<>>) = 0 /\ 1..0 = {}
  OBVIOUS
<1>2. PICK it : AddsUp(<<>>, 0, it) /\ Bytes(<<>>) = it[{}]
  BY <1>1, BytesFold
<1> QED
  BY <1>2 DEF AddsUp, Added

\* The bytes of some messages and one more.
LEMMA BytesSnoc ==
    ASSUME NEW M, NEW s \in Seq(M), NEW r \in Seq(M),
           Len(s) = Len(r) + 1, \A i \in 1..Len(r) : r[i] = s[i]
    PROVE  Bytes(s) = Bytes(r) + s[Len(s)].size
<1> DEFINE n == Len(r)
<1>0. n \in Nat
  OBVIOUS
<1>1. PICK f : AddsUp(s, n + 1, f) /\ Bytes(s) = f[1..(n + 1)]
  BY BytesFold
<1>2. PICK g : AddsUp(r, n, g) /\ Bytes(r) = g[1..n]
  BY BytesFold
<1>3. f[1..n] = g[1..n]
  BY <1>0, <1>1, <1>2, AddsUpAgree
<1>6. f[1..(n + 1)] = f[1..n] + s[n + 1].size
  BY <1>0, <1>1, AddsUpStep
<1> QED
  BY <1>1, <1>2, <1>3, <1>6

\* Messages have a number of bytes, and as many in two parts as in one.
LEMMA BytesNat ==
    ASSUME NEW M, \A m \in M : m.size \in Nat
    PROVE  \A s \in Seq(M) : Bytes(s) \in Nat
<1> DEFINE P == {n \in Nat : \A s \in Seq(M) : Len(s) = n => Bytes(s) \in Nat}
<1>1. 0 \in P
  <2>1. \A s \in Seq(M) : Len(s) = 0 => s = <<>>
    OBVIOUS
  <2> QED
    BY <2>1, BytesNone
<1>2. ASSUME NEW n \in Nat, n \in P
      PROVE  n + 1 \in P
  <2> SUFFICES ASSUME NEW s \in Seq(M), Len(s) = n + 1
               PROVE  Bytes(s) \in Nat
    OBVIOUS
  <2> DEFINE r == SubSeq(s, 1, n)
  <2>1. r \in Seq(M) /\ Len(r) = n /\ \A i \in 1..Len(r) : r[i] = s[i]
    OBVIOUS
  <2>2. s[n + 1] \in M
    OBVIOUS
  <2> HIDE DEF r
  <2>3. Bytes(r) \in Nat
    BY <1>2, <2>1
  <2>4. Bytes(s) = Bytes(r) + s[n + 1].size
    BY <2>1, BytesSnoc
  <2> QED
    BY <2>2, <2>3, <2>4
<1>3. Nat \subseteq P
  <2> HIDE DEF P
  <2> QED
    BY <1>1, <1>2, NatInd
<1> QED
  <2>1. \A s \in Seq(M) : Len(s) \in Nat
    OBVIOUS
  <2> QED
    BY <1>3, <2>1

\* One receive takes a part of what is on its way, and leaves the rest.
LEMMA BytesSplit ==
    ASSUME NEW M, \A m \in M : m.size \in Nat, NEW s \in Seq(M), NEW k \in 0..Len(s)
    PROVE  Bytes(s) = Bytes(SubSeq(s, 1, k)) + Bytes(SubSeq(s, k + 1, Len(s)))
<1> DEFINE A == SubSeq(s, 1, k)
           B(n) == SubSeq(s, k + 1, k + n)
           C(n) == SubSeq(s, 1, k + n)
           P == {n \in Nat : k + n <= Len(s) => Bytes(C(n)) = Bytes(A) + Bytes(B(n))}
<1>0. k \in Nat /\ Len(s) \in Nat
  OBVIOUS
<1>1. 0 \in P
  <2>1. C(0) = A /\ B(0) = <<>> /\ A \in Seq(M)
    BY <1>0
  <2>2. Bytes(A) \in Nat
    BY <2>1, BytesNat
  <2> HIDE DEF A, B, C
  <2>3. Bytes(C(0)) = Bytes(A) + Bytes(B(0))
    BY <2>1, <2>2, BytesNone
  <2> QED
    BY <2>3
<1>2. ASSUME NEW n \in Nat, n \in P
      PROVE  n + 1 \in P
  <2> SUFFICES ASSUME k + (n + 1) <= Len(s)
               PROVE  Bytes(C(n + 1)) = Bytes(A) + Bytes(B(n + 1))
    OBVIOUS
  <2>1. /\ C(n) \in Seq(M) /\ C(n + 1) \in Seq(M) /\ Len(C(n + 1)) = Len(C(n)) + 1
        /\ (C(n + 1))[Len(C(n + 1))] = s[k + n + 1]
    BY <1>0
  <2>2. \A i \in 1..Len(C(n)) : C(n)[i] = C(n + 1)[i]
    BY <1>0
  <2>3. /\ B(n) \in Seq(M) /\ B(n + 1) \in Seq(M) /\ Len(B(n + 1)) = Len(B(n)) + 1
        /\ (B(n + 1))[Len(B(n + 1))] = s[k + n + 1]
    BY <1>0
  <2>4. \A i \in 1..Len(B(n)) : B(n)[i] = B(n + 1)[i]
    BY <1>0
  <2>5. A \in Seq(M) /\ s[k + n + 1] \in M
    BY <1>0
  <2>6. Bytes(C(n)) = Bytes(A) + Bytes(B(n))
    BY <1>2, <1>0
  <2> HIDE DEF A, B, C
  <2>7. Bytes(C(n + 1)) = Bytes(C(n)) + s[k + n + 1].size
    BY <2>1, <2>2, BytesSnoc
  <2>8. Bytes(B(n + 1)) = Bytes(B(n)) + s[k + n + 1].size
    BY <2>3, <2>4, BytesSnoc
  <2>9. Bytes(A) \in Nat /\ Bytes(B(n)) \in Nat /\ s[k + n + 1].size \in Nat
    BY <2>3, <2>5, BytesNat
  <2> QED
    BY <2>6, <2>7, <2>8, <2>9
<1>3. Nat \subseteq P
  <2> HIDE DEF P
  <2> QED
    BY <1>1, <1>2, NatInd
<1>4. Len(s) - k \in Nat /\ k + (Len(s) - k) = Len(s)
  BY <1>0
<1>5. Bytes(C(Len(s) - k)) = Bytes(A) + Bytes(B(Len(s) - k))
  BY <1>0, <1>3, <1>4
<1>6. C(Len(s) - k) = s
  BY <1>0, <1>4
<1> QED
  BY <1>4, <1>5, <1>6

\* The bytes of one message.
LEMMA BytesOne ==
    ASSUME NEW m, m.size \in Nat
    PROVE  Bytes(<<m>>) = m.size
<1> DEFINE s == <<m>>
           r == <<>>
<1>1. s \in Seq({m}) /\ r \in Seq({m}) /\ Len(s) = Len(r) + 1 /\ s[Len(s)] = m
      /\ \A i \in 1..Len(r) : r[i] = s[i]
  OBVIOUS
<1>2. Bytes(r) = 0
  BY BytesNone
<1> HIDE DEF s, r
<1>3. Bytes(s) = Bytes(r) + s[Len(s)].size
  BY <1>1, BytesSnoc
<1> QED
  BY <1>1, <1>2, <1>3 DEF s

-----------------------------------------------------------------------------
(* What the tracing process survives.                                      *)

\* A record says how many bytes it stands for, and only that of a refused connection
\* has an error.
Measured(r) == /\ IsRecord(r) /\ r.size = Word(Bytes(r.carried)) /\ r.carried \in Seq(Messages)
               /\ r.error = Word(0) \/ r = Refusal

\* Each of the records is of this kind (tcp_sendmsg, tcp_cleanup_rbuf, tcp_connect_ret).
LEMMA RecordMeasured ==
    ASSUME Chosen, NEW r \in Records
    PROVE  Measured(r)
<1>1. ASSUME NEW e, NEW m \in Messages
      PROVE  Measured(SendRecord(e, m))
  <2>1. Bytes(<<m>>) = m.size /\ <<m>> \in Seq(Messages)
    BY SizesAssumption, BytesOne DEF Chosen, Messages
  <2> DEFINE r1 == SendRecord(e, m)
  <2>2. /\ IsRecord(r1) /\ r1.carried = <<m>> /\ r1.error = Word(0)
        /\ r1.size = Word(m.size)
    BY SendFields
  <2> HIDE DEF r1
  <2>3. Measured(r1)
    BY <2>1, <2>2 DEF Measured
  <2> QED
    BY <2>3 DEF r1
<1>2. ASSUME NEW e, NEW ms \in Seq(Messages)
      PROVE  Measured(RecvRecord(e, ms))
  BY RecvFields DEF Measured
<1>3. ASSUME NEW x, NEW t, IsPlain(x, t), x.error = Word(0) \/ x = Refusal
      PROVE  Measured(x)
  <2>1. x.carried = <<>> /\ x.size = Word(0) /\ IsRecord(x)
    BY <1>3 DEF IsPlain
  <2>2. <<>> \in Seq(Messages)
    OBVIOUS
  <2> QED
    BY <1>3, <2>1, <2>2, BytesNone DEF Measured
<1>4. CASE r \in ClientSends
  <2>1. PICK m \in dialogue.requests : r = SendRecord("client", m)
    BY <1>4 DEF ClientSends
  <2> QED
    BY <1>1, <2>1 DEF Messages
<1>5. CASE r \in ServerSends
  <2>1. PICK m \in dialogue.replies : r = SendRecord("server", m)
    BY <1>5 DEF ServerSends
  <2> QED
    BY <1>1, <2>1 DEF Messages
<1>6. CASE r \in Receives
  <2>1. PICK e \in Ends, ms \in Seq(Messages) : r = RecvRecord(e, ms)
    BY <1>6 DEF Receives
  <2> QED
    BY <1>2, <2>1
<1>7. CASE r \in Closes
  <2>1. PICK e \in Ends : r = Outward(e, "close")
    BY <1>7 DEF Closes
  <2>2. IsPlain(r, "close") /\ r.error = Word(0)
    BY <2>1, OutwardFields
  <2> QED
    BY <2>2, <1>3
<1>8. CASE r = Detected(Outward("client", "connect"))
  <2>1. IsPlain(Outward("client", "connect"), "connect")
        /\ Outward("client", "connect").error = Word(0)
    BY OutwardFields
  <2>2. IsPlain(r, "connect") /\ r.error = Word(0)
    BY <2>1, <1>8, DetectedFields
  <2> QED
    BY <2>2, <1>3
<1>9. CASE r = Detected(Inward("server", "accept"))
  <2>1. IsPlain(Inward("server", "accept"), "accept")
        /\ Inward("server", "accept").error = Word(0)
    BY InwardFields
  <2>2. IsPlain(r, "accept") /\ r.error = Word(0)
    BY <2>1, <1>9, DetectedFields
  <2> QED
    BY <2>2, <1>3
<1>10. CASE r = Refusal
  <2>1. IsPlain(CommonInfo("client", "connect"), "connect")
    BY CommonFields
  <2>2. IsPlain(r, "connect")
    BY <1>10, <2>1, ErrorFields DEF Refusal
  <2> QED
    BY <1>10, <2>2, <1>3
<1> QED
  BY <1>4, <1>5, <1>6, <1>7, <1>8, <1>9, <1>10 DEF Records, Opens, Refusal

\* The halves of a word.
LEMMA WordHalves ==
    ASSUME NEW b \in Nat
    PROVE  /\ Word(b)[1] \in Nat /\ Word(b)[2] \in Nat
           /\ Word(b)[2] = b % 65536
           /\ Word(b)[1] > 0 \/ Word(b)[2] > MAX_PAYLOAD_SIZE => b > MAX_PAYLOAD_SIZE
           /\ Word(b)[2] > 0 => b > 0
  BY DEF Word, MAX_PAYLOAD_SIZE

\* The error of a refused connection.
LEMMA RefusalError == Refusal.error = <<65535, 65425>>
<1> DEFINE c == CommonInfo("client", "connect")
<1>1. IsRecord(c)
  BY CommonFields DEF IsPlain
<1>2. Refusal = [c EXCEPT !.error = <<65535, 65425>>]
  BY DEF Refusal
<1> HIDE DEF c
<1> QED
  BY <1>1, <1>2 DEF IsRecord, Fields

\* Its high half, and that of any other record.
LEMMA ErrorHalves ==
    ASSUME NEW r, r.error = Word(0) \/ r = Refusal
    PROVE  r.error[1] \in Nat /\ (r.error[1] > 0 => r = Refusal)
<1>1. CASE r.error = Word(0)
  BY <1>1, WordZero
<1>2. CASE r = Refusal
  <2>1. Refusal.error = <<65535, 65425>>
    BY RefusalError
  <2> QED
    BY <1>2, <2>1
<1> QED
  BY <1>1, <1>2

\* What reaches Parse: the record as it was sent, or the low half of its size over the
\* high half of its error, and no data.
LEMMA DecodedSize ==
    ASSUME NEW r, IsRecord(r)
    PROVE  /\ layout = "packed" => parseRawEvent(r) = r
           /\ layout = "aligned" => /\ parseRawEvent(r).size = <<r.size[2], r.error[1]>>
                                    /\ parseRawEvent(r).payload = NulBytes
<1>1. CASE layout = "aligned"
  <2>1. parseRawEvent(r) =
          [r EXCEPT !.saddr = <<r.saddr[2], 0>>, !.daddr = <<r.daddr[2], r.saddr[1]>>,
                    !.sport = r.daddr[1], !.dport = r.sport,
                    !.error = <<r.error[2], 0>>, !.size = <<r.size[2], r.error[1]>>,
                    !.payload = NulBytes]
    BY <1>1 DEF parseRawEvent
  <2>2. /\ parseRawEvent(r).size = <<r.size[2], r.error[1]>>
        /\ parseRawEvent(r).payload = NulBytes
    BY <2>1 DEF IsRecord, Fields
  <2> QED
    BY <1>1, <2>2
<1>2. CASE layout # "aligned"
  BY <1>2 DEF parseRawEvent
<1> QED
  BY <1>1, <1>2

\* A panic needs a record of more bytes than the array holds, or of a number that
\* RedisParser has no room for; as the layouts are, one of any bytes or of a refused
\* connection, and then every record that was handled is of whole multiples of 64 KiB
\* (Parse, parseRESPArray, parseRESPResponse).
LEMMA FatalNeeds ==
    ASSUME Chosen, NEW r \in Records
    PROVE  LET q == parseRawEvent(r)
               b == Bytes(r.carried)
           IN  /\ q.carried = r.carried /\ b \in Nat
               /\ layout = "packed" /\ Fatal(q) => b > MAX_PAYLOAD_SIZE \/ r.payload.huge
               /\ layout = "aligned" /\ Fatal(q) => b > 0 \/ r = Refusal
               /\ layout = "aligned" /\ ~Fatal(q) => b % 65536 = 0
<1> DEFINE q == parseRawEvent(r)
           b == Bytes(r.carried)
<1>1. /\ IsRecord(r) /\ r.size = Word(b) /\ r.carried \in Seq(Messages)
      /\ r.error = Word(0) \/ r = Refusal
  BY RecordMeasured DEF Measured
<1>2. q.carried = r.carried
  BY <1>1, ParsedFields
<1>3. b \in Nat
  <2>1. \A m \in Messages : m.size \in Nat
    BY SizesAssumption DEF Chosen, Messages
  <2> QED
    BY <1>1, <2>1, BytesNat
<1> HIDE DEF b
<1>4. /\ r.size[1] \in Nat /\ r.size[2] \in Nat /\ r.size[2] = b % 65536
      /\ r.size[1] > 0 \/ r.size[2] > MAX_PAYLOAD_SIZE => b > MAX_PAYLOAD_SIZE
      /\ r.size[2] > 0 => b > 0
  BY <1>1, <1>3, WordHalves
<1>5. r.error[1] \in Nat /\ (r.error[1] > 0 => r = Refusal)
  BY <1>1, ErrorHalves
<1>6. layout = "packed" /\ Fatal(q) => b > MAX_PAYLOAD_SIZE \/ r.payload.huge
  <2>1. SUFFICES ASSUME layout = "packed" PROVE Fatal(r) => b > MAX_PAYLOAD_SIZE \/ r.payload.huge
    BY <1>1, DecodedSize
  <2>2. SliceFails(r) => b > MAX_PAYLOAD_SIZE
    BY <1>4 DEF SliceFails
  <2>3. RedisFails(r) => r.payload.huge
    BY DEF RedisFails
  <2> QED
    BY <2>2, <2>3 DEF Fatal
<1>7. ASSUME layout = "aligned"
      PROVE  Fatal(q) <=> r.size[2] > 0 \/ r.error[1] > MAX_PAYLOAD_SIZE
  <2>1. q.size = <<r.size[2], r.error[1]>> /\ q.payload = NulBytes
    BY <1>1, <1>7, DecodedSize
  <2> HIDE DEF q
  <2>2. ~q.payload.huge
    BY <2>1 DEF NulBytes
  <2>3. SliceFails(q) <=> r.size[2] > 0 \/ r.error[1] > MAX_PAYLOAD_SIZE
    BY <2>1 DEF SliceFails
  <2>4. ~RedisFails(q)
    BY <2>2 DEF RedisFails
  <2> QED
    BY <2>3, <2>4 DEF Fatal
<1>8. layout = "aligned" /\ Fatal(q) => b > 0 \/ r = Refusal
  BY <1>4, <1>5, <1>7 DEF MAX_PAYLOAD_SIZE
<1>9. layout = "aligned" /\ ~Fatal(q) => b % 65536 = 0
  BY <1>4, <1>7
<1> QED
  BY <1>2, <1>3, <1>6, <1>8, <1>9 DEF b

\* What is written and not yet received is no more than was written.
Writing ==
    /\ written \in [Ends -> Nat] /\ writes \in Nat
    /\ writes = 0 => \A e \in Ends : written[e] = 0
    /\ \A e \in Ends : Bytes(net[e]) <= written[Peer(e)]

Over == {"refused", "closed"}

\* No record stands for more bytes than an end has written, the client of a connection
\* whose record has an error has been refused, and a number that is too large was written.
EventsShort ==
    \A j \in 1..Len(events) :
        /\ \E e \in Ends : Bytes(events[j].carried) <= written[e]
        /\ events[j] = Refusal => sock["client"] \in Over
        /\ events[j].payload.huge => overlong

SizeInv == Writing /\ EventsShort /\ TracerSurvives

\* Records of this kind join the others (send_event).
LEMMA SendsShort ==
    ASSUME GoneInv, Writing, EventsShort, UNCHANGED port,
           NEW rs \in Seq(Records), Emit(rs),
           \A e \in Ends : written'[e] \in Nat /\ written[e] <= written'[e],
           sock["client"] \in Over => sock'["client"] \in Over, overlong => overlong',
           \A i \in 1..Len(rs) : /\ \E e \in Ends : Bytes(rs[i].carried) <= written'[e]
                                 /\ rs[i] = Refusal => sock'["client"] \in Over
                                 /\ rs[i].payload.huge => overlong'
    PROVE  EventsShort'
<1> DEFINE n == Len(events)
           es == events'
<1>1. events \in Seq(Records) /\ es = events \o rs
  BY DEF GoneInv, ConvInv, Underway, Emit
<1>2. /\ Len(es) = n + Len(rs) /\ n \in Nat /\ Len(rs) \in Nat
      /\ \A j \in 1..n : es[j] = events[j]
      /\ \A j \in 1..(n + Len(rs)) : j > n => j - n \in 1..Len(rs) /\ es[j] = rs[j - n]
  BY <1>1
<1>3. Refusal' = Refusal
  BY DEF Refusal, CommonInfo
<1>4. ASSUME NEW j \in 1..Len(es)
      PROVE  /\ \E e \in Ends : Bytes(es[j].carried) <= written'[e]
             /\ es[j] = Refusal => sock'["client"] \in Over
             /\ es[j].payload.huge => overlong'
  <2>1. CASE j <= n
    <3>1. j \in 1..n /\ es[j] = events[j]
      BY <1>2, <2>1
    <3>2. PICK e \in Ends : Bytes(events[j].carried) <= written[e]
      BY <3>1 DEF EventsShort
    <3>3. Bytes(events[j].carried) \in Nat
      <4>1. events[j] \in Records
        BY <1>1, <3>1
      <4> QED
        BY <4>1, FatalNeeds DEF GoneInv, ConvInv
    <3>4. written[e] \in Nat /\ written'[e] \in Nat /\ written[e] <= written'[e]
      BY DEF Writing
    <3> DEFINE b == Bytes(events[j].carried)
               w == written'[e]
    <3> HIDE DEF b, w
    <3>5. b <= w
      BY <3>2, <3>3, <3>4 DEF b, w
    <3>6. /\ es[j] = Refusal => sock'["client"] \in Over
          /\ es[j].payload.huge => overlong'
      BY <3>1 DEF EventsShort
    <3> QED
      BY <3>1, <3>5, <3>6 DEF b, w
  <2>2. CASE ~(j <= n)
    <3>1. j - n \in 1..Len(rs) /\ es[j] = rs[j - n]
      BY <1>2, <2>2
    <3> QED
      BY <3>1
  <2> QED
    BY <2>1, <2>2
<1> QED
  BY <1>3, <1>4 DEF EventsShort, Over

\* A record of no data stands for no bytes and has no number.
LEMMA PlainShort ==
    ASSUME NEW r, NEW t, IsPlain(r, t), NEW w \in Nat
    PROVE  Bytes(r.carried) <= w /\ ~r.payload.huge
  BY BytesNone DEF IsPlain, NulBytes

\* A record that some probe of tcp_connect, inet_csk_accept or tcp_close sends.
LEMMA PlainRecords ==
    /\ IsPlain(Detected(Outward("client", "connect")), "connect")
    /\ Detected(Outward("client", "connect")) # Refusal
    /\ IsPlain(Detected(Inward("server", "accept")), "accept")
    /\ Detected(Inward("server", "accept")) # Refusal
    /\ IsPlain(Refusal, "connect")
    /\ \A e \in Ends : IsPlain(Outward(e, "close"), "close") /\ Outward(e, "close") # Refusal
<1>1. IsPlain(Outward("client", "connect"), "connect")
      /\ Outward("client", "connect").error = Word(0)
  BY OutwardFields
<1>2. IsPlain(Inward("server", "accept"), "accept")
      /\ Inward("server", "accept").error = Word(0)
  BY InwardFields
<1>3. IsPlain(CommonInfo("client", "connect"), "connect")
  BY CommonFields
<1>4. IsPlain(Refusal, "connect")
  BY <1>3, ErrorFields DEF Refusal
<1>5. Refusal.error = <<65535, 65425>>
  BY RefusalError
<1>6. \A r : r.error = Word(0) => r # Refusal
  BY <1>5, WordZero
<1>7. Detected(Outward("client", "connect")) # Refusal
      /\ IsPlain(Detected(Outward("client", "connect")), "connect")
  BY <1>1, <1>6, DetectedFields
<1>8. Detected(Inward("server", "accept")) # Refusal
      /\ IsPlain(Detected(Inward("server", "accept")), "accept")
  BY <1>2, <1>6, DetectedFields
<1>9. \A e \in Ends : IsPlain(Outward(e, "close"), "close") /\ Outward(e, "close") # Refusal
  BY <1>6, OutwardFields
<1> QED
  BY <1>4, <1>7, <1>8, <1>9

\* The probes add their records, and the messages on their way stay within what was
\* written (tcp_connect, inet_csk_accept, tcp_sendmsg, tcp_cleanup_rbuf, tcp_close).
LEMMA ProbesShort ==
    ASSUME GoneInv, SizeInv, Probed
    PROVE  Writing' /\ EventsShort'
<1>0. /\ UNCHANGED port /\ Writing /\ EventsShort
      /\ sock \in [Ends -> {"none", "open", "refused", "closed"}]
      /\ net \in [Ends -> Seq(Messages)]
      /\ \A m \in Messages : m.size \in Nat
      /\ "client" \in Ends /\ "server" \in Ends
  <2>1. UNCHANGED port
    BY ProbesKeep DEF GoneInv
  <2>2. \A m \in Messages : m.size \in Nat
    BY SizesAssumption DEF GoneInv, ConvInv, Chosen, Messages
  <2> QED
    BY <2>1, <2>2 DEF GoneInv, SocketOrder, ConvInv, Underway, SizeInv, Ends
<1>1. written["client"] \in Nat /\ \A e \in Ends : written[e] \in Nat /\ Peer(e) \in Ends
  BY <1>0 DEF Writing, Ends, Peer
<1>2. ASSUME UNCHANGED <<written, overlong>>,
             sock["client"] \in Over => sock'["client"] \in Over,
             NEW rs \in Seq(Records), Emit(rs),
             \A i \in 1..Len(rs) : /\ \E t : IsPlain(rs[i], t)
                                   /\ rs[i] = Refusal => sock'["client"] \in Over
      PROVE  EventsShort'
  <2>1. \A i \in 1..Len(rs) : Bytes(rs[i].carried) <= written["client"] /\ ~rs[i].payload.huge
    BY <1>1, <1>2, PlainShort
  <2>2. \A i \in 1..Len(rs) : /\ \E e \in Ends : Bytes(rs[i].carried) <= written'[e]
                              /\ rs[i] = Refusal => sock'["client"] \in Over
                              /\ rs[i].payload.huge => overlong'
    BY <1>0, <1>2, <2>1
  <2>3. \A e \in Ends : written'[e] \in Nat /\ written[e] <= written'[e]
    BY <1>1, <1>2
  <2> QED
    BY <1>0, <1>2, <2>2, <2>3, SendsShort
<1>3. ASSUME UNCHANGED <<written, writes, net>>
      PROVE  Writing'
  BY <1>0, <1>3 DEF Writing
<1>4. CASE Connect
  <2> DEFINE a == Detected(Outward("client", "connect"))
             b == Refusal
  <2>1. /\ UNCHANGED <<written, writes, net, overlong>> /\ sock["client"] = "none"
        /\ \/ Emit(<<a>>)
           \/ Emit(<<a, b>>) /\ sock' = [sock EXCEPT !["client"] = "refused",
                                                      !["server"] = "closed"]
    BY <1>4 DEF Connect, Refusal
  <2>2. /\ a \in Records /\ b \in Records /\ a # Refusal /\ b = Refusal
        /\ IsPlain(a, "connect") /\ IsPlain(b, "connect")
    BY PlainRecords DEF Records, Opens, Refusal
  <2>3. sock["client"] \notin Over
    BY <2>1 DEF Over
  <2> HIDE DEF a, b
  <2>4. CASE Emit(<<a>>)
    <3>1. <<a>> \in Seq(Records) /\ \A i \in 1..Len(<<a>>) : <<a>>[i] = a
      BY <2>2
    <3> QED
      BY <1>2, <1>3, <2>1, <2>2, <2>3, <2>4, <3>1
  <2>5. CASE Emit(<<a, b>>) /\ sock' = [sock EXCEPT !["client"] = "refused",
                                                     !["server"] = "closed"]
    <3>1. /\ <<a, b>> \in Seq(Records) /\ Len(<<a, b>>) = 2
          /\ \A i \in 1..2 : <<a, b>>[i] = a \/ <<a, b>>[i] = b
      BY <2>2
    <3>2. sock'["client"] \in Over
      BY <1>0, <2>5 DEF Over
    <3> QED
      BY <1>2, <1>3, <2>1, <2>2, <2>5, <3>1, <3>2
  <2> QED
    BY <2>1, <2>4, <2>5
<1>5. CASE Accept
  <2> DEFINE a == Detected(Inward("server", "accept"))
  <2>1. /\ UNCHANGED <<written, writes, net, overlong>> /\ Emit(<<a>>)
        /\ sock' = [sock EXCEPT !["server"] = "open"]
    BY <1>5 DEF Accept
  <2>2. a \in Records /\ a # Refusal /\ IsPlain(a, "accept")
    BY PlainRecords DEF Records, Opens
  <2>3. sock'["client"] = sock["client"]
    BY <1>0, <2>1
  <2> HIDE DEF a
  <2>4. <<a>> \in Seq(Records) /\ \A i \in 1..Len(<<a>>) : <<a>>[i] = a
    BY <2>2
  <2> QED
    BY <1>2, <1>3, <2>1, <2>2, <2>3, <2>4
<1>6. ASSUME NEW f \in Ends, Close(f)
      PROVE  Writing' /\ EventsShort'
  <2> DEFINE a == Outward(f, "close")
  <2>1. /\ UNCHANGED <<written, writes, net, overlong>> /\ Emit(<<a>>)
        /\ sock' = [sock EXCEPT ![f] = "closed"]
    BY <1>6 DEF Close
  <2>2. a \in Records /\ a # Refusal /\ IsPlain(a, "close")
    BY PlainRecords DEF Records, Closes
  <2>3. sock["client"] \in Over => sock'["client"] \in Over
    BY <1>0, <2>1 DEF Over
  <2> HIDE DEF a
  <2>4. <<a>> \in Seq(Records) /\ \A i \in 1..Len(<<a>>) : <<a>>[i] = a
    BY <2>2
  <2> QED
    BY <1>2, <1>3, <2>1, <2>2, <2>3, <2>4
<1>7. ASSUME NEW f \in Ends, NEW m \in Messages, Write(f, m)
      PROVE  Writing' /\ EventsShort'
  <2> DEFINE a == SendRecord(f, m)
             o == Peer(f)
             s == Append(net[o], m)
  <2>1. /\ UNCHANGED sock /\ Emit(<<a>>) /\ writes' = writes + 1
        /\ written' = [written EXCEPT ![f] = @ + m.size]
        /\ overlong' = (overlong \/ m.huge)
        /\ net' = [net EXCEPT ![o] = s]
    BY <1>7 DEF Write
  <2>2. a \in Records /\ a.carried = <<m>> /\ a.payload = m /\ a.error = Word(0)
    <3>1. m \in IF f = "client" THEN dialogue.requests ELSE dialogue.replies
      BY <1>7 DEF Write
    <3>2. f = "client" \/ f = "server"
      BY DEF Ends
    <3>3. a \in Records
      BY <3>1, <3>2 DEF Records, ClientSends, ServerSends
    <3> QED
      BY <3>3, SendFields
  <2>3. o \in Ends /\ Peer(o) = f /\ \A e \in Ends : e # o => Peer(e) # f
    BY DEF Peer, Ends
  <2>4. Bytes(s) = Bytes(net[o]) + m.size /\ m.size \in Nat /\ Bytes(net[o]) \in Nat
    <3>1. net[o] \in Seq(Messages) /\ s \in Seq(Messages) /\ Len(s) = Len(net[o]) + 1
          /\ s[Len(s)] = m /\ \A i \in 1..Len(net[o]) : net[o][i] = s[i]
      BY <1>0, <2>3
    <3> HIDE DEF s, o
    <3>2. Bytes(s) = Bytes(net[o]) + s[Len(s)].size
      BY <3>1, BytesSnoc
    <3> QED
      BY <1>0, <3>1, <3>2, BytesNat
  <2>5. Bytes(<<m>>) = m.size
    BY <2>4, BytesOne
  <2>6. a # Refusal
    BY <2>2, RefusalError, WordZero
  <2> HIDE DEF a, o, s
  <2>7. /\ written'[f] = written[f] + m.size /\ net'[o] = s
        /\ \A e \in Ends : /\ e # f => written'[e] = written[e]
                           /\ e # o => net'[e] = net[e]
    BY <1>0, <2>1, <2>3 DEF Writing
  <2>8. \A e \in Ends : written'[e] \in Nat /\ written[e] <= written'[e]
    BY <1>1, <2>4, <2>7
  <2>9. EventsShort'
    <3>1. <<a>> \in Seq(Records) /\ \A i \in 1..Len(<<a>>) : <<a>>[i] = a
      BY <2>2
    <3>2. Bytes(a.carried) <= written'[f]
      BY <1>1, <2>2, <2>4, <2>5, <2>7
    <3>3. \A i \in 1..Len(<<a>>) :
             /\ \E e \in Ends : Bytes(<<a>>[i].carried) <= written'[e]
             /\ <<a>>[i] = Refusal => sock'["client"] \in Over
             /\ <<a>>[i].payload.huge => overlong'
      BY <2>1, <2>2, <2>6, <3>1, <3>2
    <3> QED
      BY <1>0, <2>1, <2>8, <3>1, <3>3, SendsShort
  <2>10. Writing'
    <3>1. written' \in [Ends -> Nat] /\ writes' \in Nat /\ writes' # 0
      BY <1>0, <2>1, <2>4 DEF Writing
    <3>2. ASSUME NEW e \in Ends
          PROVE  Bytes(net'[e]) <= written'[Peer(e)]
      <4>1. Bytes(net[e]) <= written[Peer(e)]
        BY <1>0 DEF Writing
      <4>2. CASE e = o
        BY <1>1, <2>3, <2>4, <2>7, <4>1, <4>2
      <4>3. CASE e # o
        BY <1>1, <2>3, <2>7, <4>1, <4>3
      <4> QED
        BY <4>2, <4>3
    <3> QED
      BY <3>1, <3>2 DEF Writing
  <2> QED
    BY <2>9, <2>10
<1>8. ASSUME NEW f \in Ends, Read(f)
      PROVE  Writing' /\ EventsShort'
  <2>1. PICK n \in 1..Len(net[f]) :
               /\ net' = [net EXCEPT ![f] = SubSeq(@, n + 1, Len(@))]
               /\ Emit(<<RecvRecord(f, SubSeq(net[f], 1, n))>>)
    BY <1>8 DEF Read
  <2> DEFINE ms == SubSeq(net[f], 1, n)
             rest == SubSeq(net[f], n + 1, Len(net[f]))
             a == RecvRecord(f, ms)
  <2>2. UNCHANGED <<sock, written, writes, overlong>>
    BY <1>8 DEF Read
  <2>3. net[f] \in Seq(Messages) /\ n \in 0..Len(net[f])
        /\ ms \in Seq(Messages) /\ rest \in Seq(Messages)
    BY <1>0
  <2>4. Bytes(net[f]) = Bytes(ms) + Bytes(rest)
    BY <1>0, <2>3, BytesSplit
  <2>5. net' = [net EXCEPT ![f] = rest] /\ Emit(<<a>>)
    BY <2>1
  <2> HIDE DEF ms, rest
  <2>6. a \in Records /\ a.carried = ms /\ a.error = Word(0) /\ ~a.payload.huge
    <3>1. a \in Receives
      BY <2>3 DEF Receives
    <3> QED
      BY <3>1, RecvFields DEF Records, NulBytes
  <2>7. a # Refusal
    BY <2>6, RefusalError, WordZero
  <2> HIDE DEF a
  <2>8. Bytes(ms) \in Nat /\ Bytes(rest) \in Nat /\ Bytes(net[f]) <= written[Peer(f)]
    BY <1>0, <2>3, BytesNat DEF Writing
  <2>9. Bytes(ms) <= written[Peer(f)] /\ Bytes(rest) <= written[Peer(f)]
    BY <1>1, <2>4, <2>8
  <2>10. EventsShort'
    <3>1. <<a>> \in Seq(Records) /\ \A i \in 1..Len(<<a>>) : <<a>>[i] = a
      BY <2>6
    <3>2. \A i \in 1..Len(<<a>>) :
             /\ \E e \in Ends : Bytes(<<a>>[i].carried) <= written'[e]
             /\ <<a>>[i] = Refusal => sock'["client"] \in Over
             /\ <<a>>[i].payload.huge => overlong'
      BY <1>1, <2>2, <2>6, <2>7, <2>9, <3>1
    <3>3. \A e \in Ends : written'[e] \in Nat /\ written[e] <= written'[e]
      BY <1>1, <2>2
    <3> QED
      BY <1>0, <2>2, <2>5, <3>1, <3>2, <3>3, SendsShort
  <2>11. Writing'
    <3>1. \A e \in Ends : Bytes(net'[e]) <= written[Peer(e)]
      BY <1>0, <2>5, <2>9 DEF Writing
    <3> QED
      BY <1>0, <2>2, <3>1 DEF Writing
  <2> QED
    BY <2>10, <2>11
<1> QED
  BY <1>4, <1>5, <1>6, <1>7, <1>8 DEF Probed

\* A record that is taken leaves the others as they are; its span carries what it
\* stands for, which is a multiple of 64 KiB where the layouts differ (eventLoop).
LEMMA HandlersShort ==
    ASSUME GoneInv, SizeInv, Handled
    PROVE  SizeInv'
<1>1. PICK i \in InHand : Handler(i)
  BY DEF Handled
<1>0. ConvInv
  BY DEF GoneInv
<1>10. PICK types : Handles(i, types)
  BY <1>0, <1>1, HandlerReports
<1>2. /\ UNCHANGED <<layout, port, sock, net, written, writes, overlong, alive>>
      /\ alive /\ events' = RemoveAt(events, i) /\ ~Fatal(Event(i))
  BY <1>10 DEF Handles, chosen
<1> DEFINE r == events[i]
<1>3. events \in Seq(Records) /\ i \in 1..Len(events) /\ r \in Records /\ Chosen
      /\ Event(i) = parseRawEvent(r)
  BY <1>0, <1>10, Taken DEF ConvInv, Underway
<1>4. Writing'
  BY <1>2 DEF SizeInv, Writing
<1>5. EventsShort'
  <2>1. /\ Len(events') = Len(events) - 1 /\ Len(events) \in Nat /\ i \in Nat
        /\ \A j \in 1..(i - 1) : events'[j] = events[j] /\ j \in 1..Len(events)
        /\ \A j \in i..(Len(events) - 1) : events'[j] = events[j + 1] /\ j + 1 \in 1..Len(events)
    <3>1. events \in Seq(Records) /\ i \in 1..Len(events) /\ events' = RemoveAt(events, i)
      BY <1>2, <1>3
    <3>2. i \in Nat /\ Len(events) \in Nat
      BY <3>1
    <3> QED
      BY ONLY <3>1, <3>2, Removed
  <2>2. \A j \in 1..Len(events') : \E l \in 1..Len(events) : events'[j] = events[l]
    <3>1. \A j \in 1..Len(events') : j \in 1..(i - 1) \/ j \in i..(Len(events) - 1)
      BY <2>1
    <3> QED
      BY <2>1, <3>1
  <2>3. Refusal' = Refusal
    BY <1>2 DEF Refusal, CommonInfo
  <2> QED
    BY <1>2, <2>2, <2>3 DEF SizeInv, EventsShort, Over
<1>6. handled' = handled \cup {SpanOf(Event(i))}
  BY <1>0, <1>1, HandlerReports
<1>7. SpanOf(Event(i)).carried = r.carried
      /\ (layout = "aligned" => Bytes(r.carried) % 65536 = 0)
  <2> HIDE DEF r
  <2>1. /\ parseRawEvent(r).carried = r.carried
        /\ layout = "aligned" => Bytes(r.carried) % 65536 = 0
    BY <1>2, <1>3, FatalNeeds
  <2> QED
    BY <1>3, <2>1 DEF SpanOf
<1>8. layout = "aligned" => \A span \in handled' : Bytes(span.carried) % 65536 = 0
  BY <1>6, <1>7 DEF SizeInv, TracerSurvives
<1>9. TracerSurvives'
  BY <1>2, <1>8 DEF TracerSurvives, ShortConversationsSurvive
<1> QED
  BY <1>4, <1>5, <1>9 DEF SizeInv

\* A panic leaves no record behind, and has one of the causes (Parse).
LEMMA PanicShort ==
    ASSUME GoneInv, SizeInv, Panicked
    PROVE  SizeInv'
<1>0. PICK i \in InHand : Panic(i)
  BY DEF Panicked
<1>1. /\ UNCHANGED <<layout, sock, net, written, writes, overlong, handled>>
      /\ events' = <<>> /\ Fatal(Event(i))
  BY <1>0 DEF Panic, chosen
<1> DEFINE r == events[i]
           b == Bytes(r.carried)
<1>2. r \in Records /\ Chosen /\ i \in 1..Len(events)
  <2>1. events \in Seq(Records)
    BY DEF GoneInv, ConvInv, Underway
  <2> QED
    BY <1>0, <2>1 DEF GoneInv, ConvInv, InHand
<1>3. PICK e \in Ends : b <= written[e]
  BY <1>2 DEF SizeInv, EventsShort
<1>4. /\ r = Refusal => sock["client"] \in Over
      /\ r.payload.huge => overlong
  BY <1>2 DEF SizeInv, EventsShort
<1>5. Event(i) = parseRawEvent(r)
  BY DEF Event
<1> HIDE DEF r
<1>6. /\ b \in Nat
      /\ layout = "packed" => b > MAX_PAYLOAD_SIZE \/ r.payload.huge
      /\ layout = "aligned" => b > 0 \/ r = Refusal
  BY <1>1, <1>2, <1>5, FatalNeeds
<1>7. written[e] \in Nat /\ (writes = 0 => written[e] = 0) /\ writes \in Nat
  BY DEF SizeInv, Writing
<1> HIDE DEF b
<1>8. layout = "packed" => written[e] > MAX_PAYLOAD_SIZE \/ overlong
  BY <1>3, <1>4, <1>6, <1>7 DEF MAX_PAYLOAD_SIZE
<1>9. layout = "aligned" => writes > 0 \/ sock["client"] \in Over
  BY <1>3, <1>4, <1>6, <1>7
<1>10. TracerSurvives'
  BY <1>1, <1>8, <1>9 DEF SizeInv, TracerSurvives, ShortConversationsSurvive, Over
<1>11. Writing' /\ EventsShort'
  BY <1>1 DEF SizeInv, Writing, EventsShort
<1> QED
  BY <1>10, <1>11 DEF SizeInv

\* Whatever the dialogue, the ports and the number of goroutines: if the decoder reads
\* records as they are laid out, the tracing process survives every conversation in which
\* neither end writes more than the payload array holds or a number that is too large for
\* RedisParser; as they are, nothing but refused connections and writes can end it, and the
\* only data it survives comes in multiples of 64 KiB (parseRawEvent, Parse,
\* parseRESPArray, parseRESPResponse).
THEOREM SurvivesWhatItCan == Spec => []TracerSurvives
<1>1. Init => SizeInv
  <2> SUFFICES ASSUME Init PROVE SizeInv
    OBVIOUS
  <2>1. /\ events = <<>> /\ net = [e \in Ends |-> <<>>] /\ written = [e \in Ends |-> 0]
        /\ writes = 0 /\ handled = {} /\ alive = TRUE
    BY DEF Init
  <2>2. \A e \in Ends : Peer(e) \in Ends
    BY DEF Ends, Peer
  <2>3. Writing
    BY <2>1, <2>2, BytesNone DEF Writing
  <2> QED
    BY <2>1, <2>3 DEF SizeInv, EventsShort, TracerSurvives, ShortConversationsSurvive
<1>2. GoneInv /\ SizeInv /\ [Next]_vars => SizeInv'
  <2> SUFFICES ASSUME GoneInv, SizeInv, [Next]_vars PROVE SizeInv'
    OBVIOUS
  <2>1. CASE Probed
    <3>1. Writing' /\ EventsShort'
      BY <2>1, ProbesShort
    <3>2. UNCHANGED <<layout, handled>>
      BY <2>1, ProbesKeep DEF GoneInv
    <3>3. alive' = TRUE
      <4>1. CASE Connect \/ Accept
        <5>1. alive' = alive /\ \E rs : Emit(rs)
          BY <4>1 DEF Connect, Accept
        <5> QED
          BY <5>1 DEF Emit
      <4>2. ASSUME NEW e \in Ends, NEW m \in Messages, Write(e, m)
            PROVE  alive' = TRUE
        BY <4>2 DEF Write, Emit
      <4>3. ASSUME NEW e \in Ends, Read(e) \/ Close(e)
            PROVE  alive' = TRUE
        BY <4>3 DEF Read, Close, Emit
      <4> QED
        BY <2>1, <4>1, <4>2, <4>3 DEF Probed
    <3>4. TracerSurvives'
      BY <3>2, <3>3 DEF SizeInv, TracerSurvives, ShortConversationsSurvive
    <3> QED
      BY <3>1, <3>4 DEF SizeInv
  <2>2. CASE Handled
    BY <2>2, HandlersShort
  <2>3. CASE Panicked
    BY <2>3, PanicShort
  <2>4. CASE UNCHANGED vars
    <3>1. UNCHANGED <<layout, port, sock, net, written, writes, overlong, events, handled,
                      alive>>
      BY <2>4 DEF vars, chosen
    <3>2. Refusal' = Refusal
      BY <3>1 DEF Refusal, CommonInfo
    <3> QED
      BY <3>1, <3>2 DEF SizeInv, Writing, EventsShort, Over, TracerSurvives,
                        ShortConversationsSurvive
  <2> QED
    BY <2>1, <2>2, <2>3, <2>4, Steps
<1>3. SizeInv => TracerSurvives
  BY DEF SizeInv
<1> QED
  BY <1>1, <1>2, <1>3, GoneInductive, PTL DEF Spec
====
