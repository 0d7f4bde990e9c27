--------------------------------- MODULE Probes -------------------------------
(***************************************************************************)
(* The kernel probes of bpf/network_trace.bpf.c and the two hash maps they *)
(* share: connections, from (pid, fd) to the time of the last connect or   *)
(* accept, and socket_to_conn, from (pid, socket) to the key of the first. *)
(* The probes of different threads run at the same time, and each map      *)
(* operation is atomic, so a probe is a sequence of steps of its thread:   *)
(* it reads the clock (fill_common_info), uses the maps, and sends its     *)
(* event.  What happens to the event afterwards is module Tracer.  The     *)
(* probe of udp_recvmsg uses no map and is only a sender of events.        *)
(*                                                                         *)
(* The fd of a key is not a descriptor: tcp_connect reads the file's       *)
(* position, and tcp_accept writes 0.  The position of a socket's file is  *)
(* always 0, so all the sockets of a process share one entry of            *)
(* connections.  FilePos keeps what the code reads as a parameter.         *)
(*                                                                         *)
(* The kernel's side is external: a socket is closed by the thread that    *)
(* drops the last reference, which a process that inherited the socket may *)
(* do, and never while another thread is in a call on the socket.          *)
(***************************************************************************)
EXTENDS Integers, FiniteSets

CONSTANTS
    Threads,       \* threads that make network calls
    Pid(_),        \* the process of a thread
    Socks,         \* addresses of struct sock
    FilePos(_),    \* f_pos of the socket's file
    MaxEntries,    \* MAX_CONNECTIONS
    Width,         \* 2^64, the modulus of duration_ns
    Inherit,       \* whether processes use sockets that others opened
    MaxTime        \* bound on the clock

ASSUME SetsAssumption == IsFiniteSet(Threads) /\ IsFiniteSet(Socks)
ASSUME FilePosAssumption == \A s \in Socks : FilePos(s) \in Nat
ASSUME BoundsAssumption ==
    MaxEntries \in Nat /\ Width \in Nat \ {0} /\ Inherit \in BOOLEAN /\ MaxTime \in Nat

Pids == {Pid(t) : t \in Threads}
Fds == {0} \cup {FilePos(s) : s \in Socks}
ConnKeys == Pids \X Fds
SockKeys == Pids \X Socks
NoSock == "none"
NoKey == <<>>
NoTime == -1

\* connection_info: the time, and for the properties the thread that wrote it.
ConnInfo == [connect_ts : Nat, by : Threads]
NoInfo == [connect_ts |-> NoTime]

VARIABLES
    now,              \* bpf_ktime_get_ns
    connections,      \* the map: a function on the keys that are present
    socket_to_conn,   \* the map
    thread,           \* each thread's probe and its local variables
    users,            \* the processes that hold each socket open
    opened,           \* when each process last connected or accepted each open socket
    excused           \* socket_to_conn was full for an update, or a socket was
                      \* closed by a process other than one that opened it

vars == <<now, connections, socket_to_conn, thread, users, opened, excused>>

Calls == {"connect", "accept", "data", "close"}
Steps == {"user", "put_conn", "put_sock", "get_sock", "get_conn", "del_conn", "del_sock",
          "send", "return"}

Thread == [pc : Steps, call : Calls \cup {"none"}, sock : Socks \cup {NoSock}, ts : Nat,
           key : ConnKeys \cup {NoKey}, base : ConnInfo \cup {NoInfo},
           duration_ns : 0..(Width - 1)]

Idle == [pc |-> "user", call |-> "none", sock |-> NoSock, ts |-> 0, key |-> NoKey,
         base |-> NoInfo, duration_ns |-> 0]

\* Every variable has its type, and the maps respect their size.
TypeOK ==
    /\ now \in Nat
    /\ DOMAIN connections \subseteq ConnKeys /\ Cardinality(DOMAIN connections) =< MaxEntries
    /\ \A k \in DOMAIN connections : connections[k] \in ConnInfo
    /\ DOMAIN socket_to_conn \subseteq SockKeys
    /\ Cardinality(DOMAIN socket_to_conn) =< MaxEntries
    /\ \A k \in DOMAIN socket_to_conn : socket_to_conn[k] \in ConnKeys
    /\ thread \in [Threads -> Thread]
    /\ users \in [Socks -> SUBSET Pids]
    /\ opened \in [SockKeys -> Nat \cup {NoTime}]
    /\ excused \in BOOLEAN

Init ==
    /\ now = 0
    /\ connections = [k \in {} |-> NoInfo]
    /\ socket_to_conn = [k \in {} |-> NoKey]
    /\ thread = [t \in Threads |-> Idle]
    /\ users = [s \in Socks |-> {}]
    /\ opened = [k \in SockKeys |-> NoTime]
    /\ excused = FALSE

-----------------------------------------------------------------------------
(* The helpers of the maps.                                                *)

\* There is room for key k.
Fits(map, k) == k \in DOMAIN map \/ Cardinality(DOMAIN map) < MaxEntries

\* bpf_map_update_elem with BPF_ANY: an update that needs a new entry fails
\* when the map is full, and no probe looks at the result.
Updated(map, k, v) ==
    IF Fits(map, k) THEN [x \in DOMAIN map \cup {k} |-> IF x = k THEN v ELSE map[x]]
                    ELSE map

\* bpf_map_delete_elem.
Deleted(map, k) == [x \in DOMAIN map \ {k} |-> map[x]]

\* sock_key.
SockKey(t) == <<Pid(t), thread[t].sock>>

\* Some thread is in a call on the socket.
InCall(s) == \E t \in Threads : thread[t].sock = s

Goto(t, step) == thread' = [thread EXCEPT ![t].pc = step]

-----------------------------------------------------------------------------
(* Entering a probe: fill_common_info reads the clock.                     *)

Enter(t, call, s, step) ==
    /\ thread[t].pc = "user"
    /\ thread' = [thread EXCEPT ![t] = [Idle EXCEPT !.pc = step, !.call = call,
                                                    !.sock = s, !.ts = now]]

\* tcp_connect, on a socket of the process or a fresh one.
EnterConnect(t, s) ==
    /\ users[s] = {} \/ Pid(t) \in users[s]
    /\ users[s] = {} => ~InCall(s)
    /\ Enter(t, "connect", s, "put_conn")
    /\ users' = [users EXCEPT ![s] = @ \cup {Pid(t)}]
    /\ opened' = [opened EXCEPT ![<<Pid(t), s>>] = now]
    /\ UNCHANGED <<now, connections, socket_to_conn, excused>>

\* tcp_accept, which yields a fresh socket.
EnterAccept(t, s) ==
    /\ users[s] = {} /\ ~InCall(s)
    /\ Enter(t, "accept", s, "put_conn")
    /\ users' = [users EXCEPT ![s] = {Pid(t)}]
    /\ opened' = [opened EXCEPT ![<<Pid(t), s>>] = now]
    /\ UNCHANGED <<now, connections, socket_to_conn, excused>>

\* tcp_sendmsg, udp_sendmsg and, when bytes were copied, tcp_cleanup_rbuf.
EnterData(t, s) ==
    /\ Pid(t) \in users[s]
    /\ Enter(t, "data", s, "get_sock")
    /\ UNCHANGED <<now, connections, socket_to_conn, users, opened, excused>>

\* tcp_close, for the last reference to the socket.
EnterClose(t, s) ==
    /\ users[s] = {Pid(t)} /\ ~InCall(s)
    /\ Enter(t, "close", s, "get_sock")
    /\ users' = [users EXCEPT ![s] = {}]
    /\ excused' = (excused \/ \E p \in Pids \ {Pid(t)} : <<p, s>> \in DOMAIN socket_to_conn)
    /\ opened' = [k \in SockKeys |-> IF k[2] = s THEN NoTime ELSE opened[k]]
    /\ UNCHANGED <<now, connections, socket_to_conn>>

\* A socket is inherited, or a process drops its reference (no probe runs).
ShareSocket(s, p) ==
    /\ Inherit
    /\ users[s] # {} /\ p \notin users[s]
    /\ users' = [users EXCEPT ![s] = @ \cup {p}]
    /\ UNCHANGED <<now, connections, socket_to_conn, thread, opened, excused>>

DropSocket(s, p) ==
    /\ p \in users[s] /\ users[s] # {p}
    /\ \A t \in Threads : Pid(t) = p => thread[t].sock # s
    /\ users' = [users EXCEPT ![s] = @ \ {p}]
    /\ UNCHANGED <<now, connections, socket_to_conn, thread, opened, excused>>

-----------------------------------------------------------------------------
(* The steps of the probes.                                                *)

\* The key of the connections map a connect or an accept uses.
ConnKeyOf(t) ==
    <<Pid(t), IF thread[t].call = "connect" THEN FilePos(thread[t].sock) ELSE 0>>

\* Mutant: BPF_NOEXIST in place of BPF_ANY.
PutConnIfAbsent(t) ==
    /\ thread[t].pc = "put_conn"
    /\ connections' = IF ConnKeyOf(t) \in DOMAIN connections THEN connections
                      ELSE Updated(connections, ConnKeyOf(t), [connect_ts |-> thread[t].ts, by |-> t])
    /\ Goto(t, "put_sock")
    /\ UNCHANGED <<now, socket_to_conn, users, opened, excused>>

\* Write connection_info for the process.
PutConn(t) ==
    /\ thread[t].pc = "put_conn"
    /\ connections' = Updated(connections, ConnKeyOf(t),
                              [connect_ts |-> thread[t].ts, by |-> t])
    /\ Goto(t, "put_sock")
    /\ UNCHANGED <<now, socket_to_conn, users, opened, excused>>

\* Remember the key for the socket.
PutSock(t) ==
    /\ thread[t].pc = "put_sock"
    /\ socket_to_conn' = Updated(socket_to_conn, SockKey(t), ConnKeyOf(t))
    /\ excused' = (excused \/ ~Fits(socket_to_conn, SockKey(t)))
    /\ Goto(t, "send")
    /\ UNCHANGED <<now, connections, users, opened>>

\* Look the socket up; a close goes on to delete what it finds.
GetSock(t) ==
    /\ thread[t].pc = "get_sock"
    /\ LET found == SockKey(t) \in DOMAIN socket_to_conn
           next == IF thread[t].call = "close" THEN "del_conn" ELSE "get_conn"
       IN  thread' = [thread EXCEPT ![t].pc = IF found THEN next ELSE "send",
                                    ![t].key = IF found THEN socket_to_conn[SockKey(t)]
                                                        ELSE NoKey]
    /\ UNCHANGED <<now, connections, socket_to_conn, users, opened, excused>>

\* Measure against the process's last connect or accept, in unsigned arithmetic.
GetConn(t) ==
    /\ thread[t].pc = "get_conn"
    /\ \/ /\ thread[t].key \in DOMAIN connections
          /\ LET info == connections[thread[t].key]
             IN  thread' = [thread EXCEPT
                               ![t].pc = "send", ![t].base = info,
                               ![t].duration_ns = (thread[t].ts - info.connect_ts) % Width]
       \/ thread[t].key \notin DOMAIN connections /\ Goto(t, "send")
    /\ UNCHANGED <<now, connections, socket_to_conn, users, opened, excused>>

\* Mutant: tcp_close leaves the entry of connections.
DelConnForgotten(t) ==
    /\ thread[t].pc = "del_conn"
    /\ Goto(t, "del_sock")
    /\ UNCHANGED <<now, connections, socket_to_conn, users, opened, excused>>

\* tcp_close deletes the process's entry, whichever socket wrote it.
DelConn(t) ==
    /\ thread[t].pc = "del_conn"
    /\ connections' = Deleted(connections, thread[t].key)
    /\ Goto(t, "del_sock")
    /\ UNCHANGED <<now, socket_to_conn, users, opened, excused>>

\* Mutant: tcp_close leaves the entry of socket_to_conn.
DelSockForgotten(t) ==
    /\ thread[t].pc = "del_sock"
    /\ Goto(t, "send")
    /\ UNCHANGED <<now, connections, socket_to_conn, users, opened, excused>>

\* tcp_close forgets the socket.
DelSock(t) ==
    /\ thread[t].pc = "del_sock"
    /\ socket_to_conn' = Deleted(socket_to_conn, SockKey(t))
    /\ Goto(t, "send")
    /\ UNCHANGED <<now, connections, users, opened, excused>>

\* send_event, and the probe returns.  tcp_connect itself goes on, and
\* its return probe follows.
SendEvent(t) ==
    /\ thread[t].pc = "send"
    /\ thread' = [thread EXCEPT ![t] = IF thread[t].call = "connect"
                                       THEN [thread[t] EXCEPT !.pc = "return"]
                                       ELSE Idle]
    /\ UNCHANGED <<now, connections, socket_to_conn, users, opened, excused>>

\* tcp_connect_ret: a failure sends one more event; the maps keep the socket
\* of the failed connect.
ConnectReturns(t) ==
    /\ thread[t].pc = "return"
    /\ thread' = [thread EXCEPT ![t] = Idle]
    /\ UNCHANGED <<now, connections, socket_to_conn, users, opened, excused>>

Tick ==
    /\ now < MaxTime
    /\ now' = now + 1
    /\ UNCHANGED <<connections, socket_to_conn, thread, users, opened, excused>>

ProbeStep(t) ==
    \/ PutConn(t) \/ PutSock(t) \/ GetSock(t) \/ GetConn(t)
    \/ DelConn(t) \/ DelSock(t) \/ SendEvent(t) \/ ConnectReturns(t)

Next ==
    \/ \E t \in Threads, s \in Socks :
        \/ EnterConnect(t, s) \/ EnterAccept(t, s) \/ EnterData(t, s)
        \/ EnterClose(t, s)
    \/ \E t \in Threads : ProbeStep(t)
    \/ \E s \in Socks, p \in Pids : ShareSocket(s, p) \/ DropSocket(s, p)
    \/ Tick

Spec == Init /\ [][Next]_vars

-----------------------------------------------------------------------------
(* Properties.                                                             *)

Measured(t) == thread[t].base # NoInfo

OnlyThread(t) == \A u \in Threads : Pid(u) = Pid(t) => u = t

\* In a process with one thread duration_ns never wraps, and it is never longer
\* than the socket has been open: an entry shared by all the sockets of a
\* process can only be too young.
NeverOverstated ==
    \A t \in Threads : OnlyThread(t) /\ Measured(t) =>
        /\ thread[t].base.connect_ts =< thread[t].ts
        /\ opened[SockKey(t)] =< thread[t].base.connect_ts

\* A send or receive is only measured on a socket that the process itself has
\* opened since the kernel last freed the address, unless an entry of
\* socket_to_conn outlived its socket because another process closed it.
MeasuredSocketIsOwn ==
    excused \/ \A t \in Threads : Measured(t) => opened[SockKey(t)] # NoTime

\* Between probes the maps hold nothing that no future close will delete: every
\* socket remembered is open, and every entry of connections is reachable from
\* one of them.  Only a full socket_to_conn or a socket closed by a process
\* that did not open it leaves entries behind.
NoLeak ==
    (~excused /\ \A t \in Threads : thread[t].pc \in {"user", "return"}) =>
        /\ \A k \in DOMAIN socket_to_conn : users[k[2]] # {}
        /\ \A k \in DOMAIN connections :
            \E x \in DOMAIN socket_to_conn : socket_to_conn[x] = k
=============================================================================
