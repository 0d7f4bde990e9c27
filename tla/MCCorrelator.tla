----------------------------- MODULE MCCorrelator -----------------------------
(* Instances of Correlator for TLC.                                        *)
EXTENDS Correlator, TLC

CONSTANTS w1, w2, zero, empty, h1

Client == <<1, 9>>    \* the client's ip and ephemeral port
Server == <<2, 1>>    \* the server's ip and port
MCEndpoints == {Client, Server}
MCWorkers == {w1, w2}
WorkerSymmetry == Permutations(MCWorkers)

\* The tracer swaps the endpoints of what was received or accepted, so that
\* the source is always where the bytes come from.
Ev(kind, pid, src, dst, body, hdr) ==
    [kind |-> kind, pid |-> pid, src |-> src, dst |-> dst, body |-> body, hdr |-> hdr]

Open(p)      == Ev("connect", p, Client, Server, "other", zero)
Accept(p)    == Ev("accept", p, Client, Server, "other", zero)
Close(p)     == Ev("close", p, Client, Server, "other", zero)
Send(p, b, h) == Ev("send", p, Client, Server, b, h)
Recv(p, b, h) == Ev("recv", p, Server, Client, b, h)

\* Two processes, one at each end of a connection on the same host; the traffic
\* of the first, which may close and reconnect, has no usable trace id.
TrafficEvents == {Open(1), Close(1), Send(1, "request", empty),
                  Recv(1, "other", empty), Recv(1, "response", empty),
                  Send(2, "request", h1), Recv(2, "response", zero)}

\* One event of each sort whose progress the liveness run follows.
LiveEvents == {Accept(1), Send(1, "request", empty), Recv(1, "other", empty), Close(1)}
=============================================================================
