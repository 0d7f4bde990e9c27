----------------------------- MODULE Conversation ------------------------------
(***************************************************************************)
(* One TCP connection whose two ends are both traced, from the probes of   *)
(* src/bpf/network_trace.bpf.c through the record that parseRawEvent       *)
(* decodes and the parsers of pkg/protocol to the connection flows of the  *)
(* Correlator.  It shows what becomes of a request and its reply.  The     *)
(* tracer's workers and the event loop take the records from one channel,  *)
(* each has one in hand at a time, and they finish in any order; how the   *)
(* steps of two handlers interleave is the subject of Correlator, how      *)
(* records are lost on the way that of Tracer, and durations that of       *)
(* Probes.                                                                 *)
(*                                                                         *)
(* A message is what one write carries: the bytes it begins with, its      *)
(* size, the trace id in its headers, the status of a reply, for the data  *)
(* of a proxy what its frame encloses, and whether RedisParser finds a     *)
(* number in it that it has no room for.  Ports are numbers, because       *)
(* their byte order matters; a word of 32 bits is the pair of its high and *)
(* low half, because the decoder may get hold of the wrong half.           *)
(***************************************************************************)
EXTENDS Integers, Sequences, SequencesExt, FiniteSets

CONSTANTS
    Dialogues,      \* the server's port, the requests and the replies
    ClientPorts,    \* ports a client may have
    Address,        \* the IP address of each end, as a word
    Layouts,        \* "aligned": struct trace_event as its compiler lays it out;
                    \* "packed": as parseRawEvent reads it, if the two agreed
    NoID,           \* a trace id of NUL bytes, which is not the empty string
    maxInflight,    \* capacity of a flow's list of requests
    Consumers,      \* how many goroutines take records: the workers and eventLoop
    MaxWrites       \* bound on the messages written

ASSUME InflightAssumption == maxInflight \in Nat \ {0}
ASSUME ConsumersAssumption == Consumers \in Nat \ {0}

\* Ports have 16 bits.
PortNumbers == {n \in Nat : n < 65536}

ASSUME PortsAssumption == /\ ClientPorts \subseteq PortNumbers
                          /\ \A d \in Dialogues : d.port \in PortNumbers

\* A message tells who of the two writes it, and no reply begins with a verb.
ASSUME RepliesAssumption == \A d \in Dialogues :
                               /\ d.requests \cap d.replies = {}
                               /\ \A m \in d.replies : m.start \notin {"GET", "POST"}

\* Sizes are numbers of bytes.
ASSUME SizesAssumption == \A d \in Dialogues : \A m \in d.requests \cup d.replies : m.size \in Nat

VARIABLES
    layout, port, dialogue,   \* chosen once
    sock,       \* what each end has done with its socket
    net,        \* the messages on their way to each end
    written,    \* bytes written by each end
    writes,     \* number of writes
    overlong,   \* a number that RedisParser has no room for was among them
    events,     \* records in the ring buffer and the channel
    flows,      \* Correlator.connections: for each key the requests in flight
    handled,    \* for the properties: the spans handed to spanHandler
    overtaken,  \* for the properties: the ends whose close was handled before
                \* another of their records
    alive       \* the tracing process has not panicked

chosen == <<layout, port, dialogue>>
vars == <<chosen, sock, net, written, writes, overlong, events, flows, handled, overtaken,
          alive>>

Ends == {"client", "server"}
Peer(e) == IF e = "client" THEN "server" ELSE "client"

MAX_PAYLOAD_SIZE == 1024

\* What an event that carries no copy of the data has for a payload.
NulBytes == [start |-> "0", inner |-> "none", id |-> NoID, status |-> 0, size |-> 0,
             huge |-> FALSE]

Word(n) == <<n \div 65536, n % 65536>>

Init ==
    /\ layout \in Layouts
    /\ dialogue \in Dialogues
    /\ \E p \in ClientPorts : port = [client |-> p, server |-> dialogue.port]
    /\ sock = [e \in Ends |-> "none"]
    /\ net = [e \in Ends |-> <<>>]
    /\ written = [e \in Ends |-> 0]
    /\ writes = 0
    /\ overlong = FALSE
    /\ events = <<>>
    /\ flows = [k \in {} |-> <<>>]
    /\ handled = {}
    /\ overtaken = {}
    /\ alive = TRUE

-----------------------------------------------------------------------------
(* The probes.                                                             *)

\* bpf_htons and ntohs on a little-endian machine.
Swap(p) == (p % 256) * 256 + p \div 256

HTTPPorts  == {80, 8080, 3000, 8000, 9090}
GRPCPorts  == {50051, 9000, 7000}
RedisPorts == {6379}

\* Mutant: the ports of both ends are brought into network byte order.
DetectSwapped(dport, sport) ==
    LET Speaks(ports) == \E p \in ports : Swap(p) \in {dport, sport, Swap(sport), Swap(dport)}
    IN  IF Speaks(HTTPPorts) THEN "http"
        ELSE IF Speaks(GRPCPorts) THEN "grpc"
        ELSE IF Speaks(RedisPorts) THEN "redis"
        ELSE "unknown"

\* detect_protocol: the ports of its table are converted, dport comes from the
\* wire, and the socket's own port, sk_num, is a plain number.
detect_protocol(dport, sport) ==
    LET Speaks(ports) == \E p \in ports : Swap(p) \in {dport, sport}
    IN  IF Speaks(HTTPPorts) THEN "http"
        ELSE IF Speaks(GRPCPorts) THEN "grpc"
        ELSE IF Speaks(RedisPorts) THEN "redis"
        ELSE "unknown"

\* fill_common_info, in a record of zeros; carried is for the properties.
CommonInfo(e, type) ==
    [type |-> type, pid |-> e, protocol |-> "http", saddr |-> Word(0), daddr |-> Word(0),
     sport |-> 0, dport |-> 0, error |-> Word(0), size |-> Word(0), payload |-> NulBytes,
     carried |-> <<>>]

\* The endpoints as the probes of connect, send and close fill them in ...
Outward(e, type) ==
    [CommonInfo(e, type) EXCEPT !.saddr = Address[e], !.sport = port[e],
                                !.daddr = Address[Peer(e)], !.dport = Swap(port[Peer(e)])]

\* Mutant: both ports of an accepted connection as they are on the wire.
InwardWire(e, type) ==
    [CommonInfo(e, type) EXCEPT !.saddr = Address[Peer(e)], !.sport = Swap(port[Peer(e)]),
                                !.daddr = Address[e], !.dport = Swap(port[e])]

\* ... and those of accept and receive.
Inward(e, type) ==
    [CommonInfo(e, type) EXCEPT !.saddr = Address[Peer(e)], !.sport = Swap(port[Peer(e)]),
                                !.daddr = Address[e], !.dport = port[e]]

\* send_event; the probes are gone with the process that loaded them.
Emit(records) == alive /\ events' = events \o records

Detected(r) == [r EXCEPT !.protocol = detect_protocol(r.dport, r.sport)]

\* tcp_sendmsg and parse_payload: the copy ends at MAX_PAYLOAD_SIZE, the size
\* that goes with it is that of the write.
SendRecord(e, m) ==
    [Detected(Outward(e, "send")) EXCEPT !.payload = m, !.size = Word(m.size), !.carried = <<m>>]

Bytes(ms) == FoldLeft(LAMBDA n, m : n + m.size, 0, ms)

\* Mutant: the data received is copied as well.
RecvRecordCopied(e, ms) ==
    [Detected(Inward(e, "recv")) EXCEPT !.payload = ms[1], !.size = Word(Bytes(ms)),
                                        !.carried = ms]

\* tcp_cleanup_rbuf: the number of bytes, and none of them.
RecvRecord(e, ms) ==
    [Detected(Inward(e, "recv")) EXCEPT !.size = Word(Bytes(ms)), !.carried = ms]

\* tcp_connect; if the kernel's function returns an error, as the -111 of a refused
\* connection, tcp_connect_ret follows, with the error and no endpoints.
Connect ==
    LET called == Detected(Outward("client", "connect"))
    IN  /\ sock["client"] = "none"
        /\ \/ /\ sock' = [sock EXCEPT !["client"] = "open"]
              /\ Emit(<<called>>)
           \/ /\ sock' = [sock EXCEPT !["client"] = "refused", !["server"] = "closed"]
              /\ Emit(<<called,
                        [CommonInfo("client", "connect") EXCEPT !.error = <<65535, 65425>>]>>)
        /\ UNCHANGED <<chosen, net, written, writes, overlong, flows, handled, overtaken, alive>>

Accept ==
    /\ sock["server"] = "none" /\ sock["client"] \in {"open", "closed"}
    /\ sock' = [sock EXCEPT !["server"] = "open"]
    /\ Emit(<<Detected(Inward("server", "accept"))>>)
    /\ UNCHANGED <<chosen, net, written, writes, overlong, flows, handled, overtaken, alive>>

Write(e, m) ==
    /\ sock[e] = "open" /\ writes < MaxWrites
    /\ m \in IF e = "client" THEN dialogue.requests ELSE dialogue.replies
    /\ writes' = writes + 1
    /\ written' = [written EXCEPT ![e] = @ + m.size]
    /\ overlong' = (overlong \/ m.huge)
    /\ net' = [net EXCEPT ![Peer(e)] = Append(@, m)]
    /\ Emit(<<SendRecord(e, m)>>)
    /\ UNCHANGED <<chosen, sock, flows, handled, overtaken, alive>>

\* One receive may return what several writes have sent.
Read(e) ==
    /\ sock[e] = "open"
    /\ \E n \in 1..Len(net[e]) :
         /\ net' = [net EXCEPT ![e] = SubSeq(@, n + 1, Len(@))]
         /\ Emit(<<RecvRecord(e, SubSeq(net[e], 1, n))>>)
    /\ UNCHANGED <<chosen, sock, written, writes, overlong, flows, handled, overtaken, alive>>

\* tcp_close does not look for the protocol.
Close(e) ==
    /\ sock[e] \in {"open", "refused"}
    /\ sock' = [sock EXCEPT ![e] = "closed"]
    /\ Emit(<<Outward(e, "close")>>)
    /\ UNCHANGED <<chosen, net, written, writes, overlong, flows, handled, overtaken, alive>>

-----------------------------------------------------------------------------
(* The tracing process.                                                    *)

\* parseRawEvent reads field after field.  The compiler aligns saddr to four
\* bytes, two more than protocol ends at, so that every field from there on is
\* read two bytes too early.  (The payload is moved too, and nobody looks at it:
\* what is now its size is 0 or more than the slice has.)
parseRawEvent(r) ==
    IF layout = "packed" THEN r
    ELSE [r EXCEPT !.saddr = <<r.saddr[2], 0>>, !.daddr = <<r.daddr[2], r.saddr[1]>>,
                   !.sport = r.daddr[1], !.dport = r.sport,
                   !.error = <<r.error[2], 0>>, !.size = <<r.size[2], r.error[1]>>,
                   !.payload = NulBytes]

\* A proxy's frame is recognised by its magic number, and then the parsers get
\* what it encloses.
Framed(m) == m.start = "ENVY" /\ m.inner # "none"
InnerPayload(m) == IF Framed(m) THEN m.inner ELSE m.start

\* What a span has from its event, unless a parser finds it in the payload.
Unparsed(r) == [trace |-> NoID, error |-> r.error]

\* CanHandle and Parse for HTTP: a reply's status becomes the error code.
HTTPParsed(start, r) ==
    CASE start \in {"GET", "POST", "PATCH"} -> [Unparsed(r) EXCEPT !.trace = r.payload.id]
      [] start = "HTTP" -> [trace |-> r.payload.id, error |-> Word(r.payload.status)]
      [] OTHER -> Unparsed(r)

\* For gRPC, which takes the flag of a compressed message for the status.
GRPCParsed(start, r) ==
    CASE start = "0" -> [trace |-> r.payload.id, error |-> Word(0)]
      [] start = "1" -> [trace |-> r.payload.id, error |-> Word(1)]
      [] OTHER -> Unparsed(r)

\* Parse goes by the protocol of the event; for Redis it sets neither.
Parse(r) ==
    LET start == InnerPayload(r.payload)
    IN  CASE r.size # Word(0) /\ r.protocol = "http" -> HTTPParsed(start, r)
          [] r.size # Word(0) /\ r.protocol = "grpc" -> GRPCParsed(start, r)
          [] OTHER -> Unparsed(r)

\* The array of 1024 bytes is sliced by the size.
SliceFails(r) == r.size[1] > 0 \/ r.size[2] > MAX_PAYLOAD_SIZE

\* RedisParser makes an array of as many strings as a command says it has, and adds
\* the length of a string to its own position before it compares the sum with the
\* end of the payload: numbers that are too large make it panic. CanHandle lets
\* everything pass that begins with one of RESP's signs or a capital letter.
RedisFails(r) ==
    /\ r.size # Word(0) /\ r.protocol = "redis"
    /\ InnerPayload(r.payload) \notin {"0", "1"} /\ r.payload.huge

\* Mutant: a payload that fills the array is taken for too long.
FatalFull(r) == r.size[1] > 0 \/ r.size[2] >= MAX_PAYLOAD_SIZE \/ RedisFails(r)

\* Parse panics, and nobody recovers.
Fatal(r) == SliceFails(r) \/ RedisFails(r)

isRequestPayload(r) ==
    /\ r.size # Word(0)
    /\ \/ r.payload.start \in {"GET", "POST"}
       \/ r.protocol = "redis" /\ r.payload.start = "*"
       \/ r.protocol = "grpc" /\ r.payload.start = "0"

isResponsePayload(r) ==
    /\ r.size # Word(0)
    /\ \/ r.payload.start = "HTTP"
       \/ r.protocol = "redis" /\ r.payload.start \in {"+", "-", "$"}
       \/ r.protocol = "grpc" /\ r.payload.start = "1"

\* getConnectionKey puts the two endpoints into an order of their own.
ConnKey(r) == [pid |-> r.pid,
               ends |-> {<<r.saddr, Swap(r.sport)>>, <<r.daddr, Swap(r.dport)>>}]

Without(k) == [x \in DOMAIN flows \ {k} |-> flows[x]]
With(k, list) == [x \in DOMAIN flows \cup {k} |-> IF x = k THEN list ELSE flows[x]]
Flow(k) == IF k \in DOMAIN flows THEN flows[k] ELSE <<>>

\* The records that a goroutine may have in hand: as many of the oldest as there
\* are goroutines. Decoded, and as a span; a trace id is never empty here.
InHand == {i \in DOMAIN events : i <= Consumers}
Event(i) == parseRawEvent(events[i])
SpanOf(r) == [end |-> r.pid, type |-> r.type, carried |-> r.carried,
              trace |-> Parse(r).trace, error |-> Parse(r).error, matched |-> FALSE]

Handles(i, types) ==
    /\ alive
    /\ Event(i).type \in types
    /\ ~Fatal(Event(i))
    /\ events' = RemoveAt(events, i)
    /\ UNCHANGED <<chosen, sock, net, written, writes, overlong, alive>>

Reports(span) == handled' = handled \cup {span}

HandleOpen(i) ==
    /\ Handles(i, {"connect", "accept"})
    /\ flows' = With(ConnKey(Event(i)), <<>>)
    /\ Reports(SpanOf(Event(i)))
    /\ UNCHANGED overtaken

\* A full list loses its oldest request; a connection without a flow gets one.
HandleSend(i) ==
    /\ Handles(i, {"send"})
    /\ LET k == ConnKey(Event(i))
           kept == IF Len(Flow(k)) >= maxInflight THEN Tail(Flow(k)) ELSE Flow(k)
       IN  flows' = With(k, IF isRequestPayload(Event(i)) THEN Append(kept, SpanOf(Event(i)))
                            ELSE Flow(k))
    /\ Reports(SpanOf(Event(i)))
    /\ UNCHANGED overtaken

HandleRecv(i) ==
    /\ Handles(i, {"recv"})
    /\ LET k == ConnKey(Event(i))
       IN  \/ /\ isResponsePayload(Event(i)) /\ Flow(k) # <<>>
              /\ flows' = With(k, Tail(Flow(k)))
              /\ Reports([SpanOf(Event(i)) EXCEPT !.trace = Head(Flow(k)).trace, !.matched = TRUE])
           \/ /\ ~isResponsePayload(Event(i)) \/ Flow(k) = <<>>
              /\ flows' = With(k, Flow(k))
              /\ Reports(SpanOf(Event(i)))
    /\ UNCHANGED overtaken

\* Records of the same end that came before this one and are not handled.
Behind(i) == \E j \in 1..(i - 1) : events[j].pid = events[i].pid

\* The requests it sweeps have been reported before: an id of NUL bytes is an id.
HandleClose(i) ==
    /\ Handles(i, {"close"})
    /\ flows' = Without(ConnKey(Event(i)))
    /\ Reports(SpanOf(Event(i)))
    /\ overtaken' = IF Behind(i) THEN overtaken \cup {events[i].pid} ELSE overtaken

\* The panic of a worker, or of eventLoop, ends the process.
Panic(i) ==
    /\ alive /\ Fatal(Event(i))
    /\ alive' = FALSE
    /\ events' = <<>>
    /\ UNCHANGED <<chosen, sock, net, written, writes, overlong, flows, handled, overtaken>>

Next ==
    \/ Connect \/ Accept
    \/ \E e \in Ends : \/ \E m \in dialogue.requests \cup dialogue.replies : Write(e, m)
                       \/ Read(e) \/ Close(e)
    \/ \E i \in InHand : \/ HandleOpen(i) \/ HandleSend(i) \/ HandleRecv(i) \/ HandleClose(i)
                        \/ Panic(i)

Spec == Init /\ [][Next]_vars

-----------------------------------------------------------------------------
(* Properties.                                                             *)

Ports(p) == p \in HTTPPorts \cup GRPCPorts \cup RedisPorts

\* The client happens to have a port of the table, or the server one whose bytes
\* are those of such a port in the other order: then the server's end is not
\* unknown to detect_protocol.
Familiar == Ports(port["client"]) \/ Ports(Swap(port["server"]))

IsReply(m) == m \in dialogue.replies

\* The README promises that the status of a reply is parsed (RepliesRead), and
\* nothing a reply says reaches a span. At the client's end no received data is
\* copied, so that no request is ever matched; at the server's end the protocol
\* is unknown because its own port is in the wrong byte order, so that neither a
\* trace id nor the status of a failed HTTP request is seen (tcp_cleanup_rbuf,
\* detect_protocol, Parse, isResponsePayload).
RepliesUnread ==
    \A span \in handled :
        /\ ~span.matched
        /\ ~Familiar /\ (\E i \in DOMAIN span.carried : IsReply(span.carried[i])) =>
              span.trace = NoID /\ span.error = Word(0)

\* What waits for a response is a request, and not the reply of a server that
\* looks like one, as a Redis array or a gRPC message does: the wrong byte order
\* of the server's port keeps those out (isRequestPayload, detect_protocol).
OnlyRequestsWait ==
    ~Familiar =>
        \A k \in DOMAIN flows : \A i \in DOMAIN flows[k] :
            \A j \in DOMAIN flows[k][i].carried : ~IsReply(flows[k][i].carried[j])

\* The tracing process survives a connection in which neither end has written
\* more than the payload array holds: README.md:13 promises that the requests and
\* replies of HTTP/1.1 are parsed, and nothing says that small ones are excluded
\* (parseRawEvent, Parse).
ShortConversationsSurvive == alive \/ \E e \in Ends : written[e] > MAX_PAYLOAD_SIZE

\* The README says that the status of a reply is parsed and that failed requests
\* are all kept: a span that stands for one reply of a web service has its status.
\* Not a property of the code: TLC refutes it with MCConversationReplies.cfg.
RepliesRead ==
    \A span \in handled :
        Len(span.carried) = 1 /\ span.carried[1].start = "HTTP" =>
            span.error = Word(span.carried[1].status)

\* What the tracing process survives, however writes are joined when they are
\* received: with the layouts agreeing, every short conversation in which no number
\* is too large for RedisParser; as the layouts are, no refused connection and no
\* data at all except in multiples of 64 KiB (parseRawEvent, Parse,
\* parseRESPArray, parseRESPResponse).
TracerSurvives ==
    /\ layout = "packed" => ShortConversationsSurvive \/ overlong
    /\ layout = "aligned" =>
         /\ alive \/ writes > 0 \/ sock["client"] \in {"refused", "closed"}
         /\ \A span \in handled : Bytes(span.carried) % 65536 = 0

\* With the layouts agreeing, the five probes name a connection by the same key
\* in spite of their different byte orders: when both ends have closed it and all
\* events are handled, no flow is left but the one without endpoints of a refused
\* connection, which no close ever names (getConnectionKey), and those of ends whose
\* close one goroutine handled while another still had an earlier record in hand,
\* which then makes the flow anew (getOrCreateFlow).
ClosedFlowsGone ==
    (layout = "packed" /\ alive /\ events = <<>> /\ \A e \in Ends : sock[e] = "closed") =>
        \A k \in DOMAIN flows : k = ConnKey(CommonInfo("client", "connect")) \/ k.pid \in overtaken
=============================================================================
