------------------------------ MODULE ProbesProofs -----------------------------
(***************************************************************************)
(* Proofs about Probes, for any threads, processes and sockets and any     *)
(* sizes of the maps, each with an inductive invariant of its own:         *)
(*  - Inv: the types, and that the maps hold at most MaxEntries entries;   *)
(*  - AgeInv: a process with one thread never overstates a duration;       *)
(*  - SockInv: a measured socket is one the process opened;                *)
(*  - ReachInv: the maps leak nothing, when the file of a socket is at     *)
(*    position 0.  The others hold whatever the probes read as positions.  *)
(***************************************************************************)
EXTENDS Probes, FiniteSetTheorems, TLAPS

\* A map has keys in K, values in V, and finitely many entries, at most
\* MaxEntries of them.
MapOf(map, K, V) ==
    /\ DOMAIN map \subseteq K
    /\ IsFiniteSet(DOMAIN map) /\ Cardinality(DOMAIN map) =< MaxEntries
    /\ \A k \in DOMAIN map : map[k] \in V

\* A probe has a socket.
Busy == \A t \in Threads : thread[t].pc # "user" => thread[t].sock \in Socks

Inv ==
    /\ TypeOK
    /\ Busy
    /\ IsFiniteSet(DOMAIN connections)
    /\ IsFiniteSet(DOMAIN socket_to_conn)

-----------------------------------------------------------------------------
(* The maps and the threads.                                               *)

\* An update keeps a map's type and size.
LEMMA UpdatedType ==
    ASSUME NEW map, NEW K, NEW V, NEW k \in K, NEW v \in V, MapOf(map, K, V)
    PROVE  MapOf(Updated(map, k, v), K, V)
<1>1. CASE ~Fits(map, k)
  BY <1>1 DEF Updated
<1>2. CASE Fits(map, k)
  <2> DEFINE new == [x \in DOMAIN map \cup {k} |-> IF x = k THEN v ELSE map[x]]
  <2>1. Updated(map, k, v) = new
    BY <1>2 DEF Updated
  <2>2. IsFiniteSet(DOMAIN new) /\ Cardinality(DOMAIN new) =< MaxEntries
    <3>1. /\ IsFiniteSet(DOMAIN map \cup {k})
          /\ Cardinality(DOMAIN map \cup {k}) =
               IF k \in DOMAIN map THEN Cardinality(DOMAIN map) ELSE Cardinality(DOMAIN map) + 1
      BY FS_AddElement DEF MapOf
    <3>2. Cardinality(DOMAIN map) \in Nat
      BY FS_CardinalityType DEF MapOf
    <3> QED
      BY <1>2, <3>1, <3>2, BoundsAssumption DEF Fits, MapOf
  <2>3. DOMAIN new \subseteq K /\ \A x \in DOMAIN new : new[x] \in V
    BY DEF MapOf
  <2> QED
    BY <2>1, <2>2, <2>3 DEF MapOf
<1> QED
  BY <1>1, <1>2

\* So does a deletion.
LEMMA DeletedType ==
    ASSUME NEW map, NEW K, NEW V, NEW k, MapOf(map, K, V)
    PROVE  MapOf(Deleted(map, k), K, V)
<1>1. DOMAIN Deleted(map, k) = DOMAIN map \ {k}
      /\ \A x \in DOMAIN map \ {k} : Deleted(map, k)[x] = map[x]
  BY DEF Deleted
<1>2. /\ IsFiniteSet(DOMAIN map \ {k})
      /\ Cardinality(DOMAIN map \ {k}) =
           IF k \in DOMAIN map THEN Cardinality(DOMAIN map) - 1 ELSE Cardinality(DOMAIN map)
  BY FS_RemoveElement DEF MapOf
<1>3. Cardinality(DOMAIN map) \in Nat
  BY FS_CardinalityType DEF MapOf
<1>4. Cardinality(DOMAIN map \ {k}) =< MaxEntries
  BY <1>2, <1>3, BoundsAssumption DEF MapOf
<1> QED
  BY <1>1, <1>2, <1>4 DEF MapOf

\* The invariant in terms of MapOf.
LEMMA InvMaps ==
    Inv <=> /\ MapOf(connections, ConnKeys, ConnInfo)
            /\ MapOf(socket_to_conn, SockKeys, ConnKeys)
            /\ now \in Nat /\ thread \in [Threads -> Thread]
            /\ users \in [Socks -> SUBSET Pids] /\ opened \in [SockKeys -> Nat \cup {NoTime}]
            /\ excused \in BOOLEAN /\ Busy
  BY DEF Inv, TypeOK, MapOf

\* A thread without a probe.
LEMMA IdleType == Idle \in Thread
<1>1. 0 \in 0..(Width - 1)
  BY BoundsAssumption
<1> QED
  BY <1>1 DEF Idle, Thread, Steps

\* The next step of a probe.
LEMMA GotoType ==
    ASSUME thread \in [Threads -> Thread], NEW t \in Threads, NEW step \in Steps, Goto(t, step)
    PROVE  thread' \in [Threads -> Thread] /\ \A u \in Threads : thread'[u].sock = thread[u].sock
  BY DEF Goto, Thread

\* The keys a thread uses in the maps.
LEMMA KeyTypes ==
    ASSUME Inv, NEW t \in Threads, thread[t].pc # "user"
    PROVE  ConnKeyOf(t) \in ConnKeys /\ SockKey(t) \in SockKeys
<1>1. Pid(t) \in Pids /\ 0 \in Fds /\ thread[t].sock \in Socks /\ FilePos(thread[t].sock) \in Fds
  BY DEF Pids, Fds, Inv, Busy
<1> QED
  BY <1>1 DEF ConnKeyOf, ConnKeys, SockKey, SockKeys

-----------------------------------------------------------------------------
(* The inductive invariant.                                                *)

\* The invariant holds at first: the maps are empty.
LEMMA InvInit == Init => Inv
<1> SUFFICES ASSUME Init PROVE Inv
  OBVIOUS
<1>1. /\ now = 0 /\ connections = [k \in {} |-> NoInfo] /\ socket_to_conn = [k \in {} |-> NoKey]
      /\ thread = [t \in Threads |-> Idle] /\ users = [s \in Socks |-> {}]
      /\ opened = [k \in SockKeys |-> NoTime] /\ excused = FALSE
  BY DEF Init
<1>2. DOMAIN connections = {} /\ DOMAIN socket_to_conn = {}
      /\ IsFiniteSet({}) /\ Cardinality({}) =< MaxEntries
  BY <1>1, FS_EmptySet, BoundsAssumption
<1>3. MapOf(connections, ConnKeys, ConnInfo) /\ MapOf(socket_to_conn, SockKeys, ConnKeys)
  BY <1>2 DEF MapOf
<1>4. thread \in [Threads -> Thread] /\ Busy
  <2>1. \A t \in Threads : thread[t] = Idle
    BY <1>1
  <2> QED
    BY <1>1, <2>1, IdleType DEF Busy, Idle
<1>5. now \in Nat /\ users \in [Socks -> SUBSET Pids] /\ opened \in [SockKeys -> Nat \cup {NoTime}]
  BY <1>1
<1>6. excused \in BOOLEAN
  BY <1>1
<1> QED
  BY <1>3, <1>4, <1>5, <1>6, InvMaps

\* A thread enters a probe; the socket's users and its opening are written down.
LEMMA EnterInv ==
    ASSUME Inv, NEW t \in Threads, NEW s \in Socks,
           \/ EnterConnect(t, s) \/ EnterAccept(t, s) \/ EnterData(t, s) \/ EnterClose(t, s)
    PROVE  Inv'
<1>1. /\ MapOf(connections, ConnKeys, ConnInfo) /\ MapOf(socket_to_conn, SockKeys, ConnKeys)
      /\ now \in Nat /\ thread \in [Threads -> Thread] /\ users \in [Socks -> SUBSET Pids]
      /\ opened \in [SockKeys -> Nat \cup {NoTime}] /\ excused \in BOOLEAN /\ Busy
  BY InvMaps
<1>2. UNCHANGED <<now, connections, socket_to_conn>>
  BY DEF EnterConnect, EnterAccept, EnterData, EnterClose
<1>3. PICK call \in Calls, step \in {"put_conn", "get_sock"} : Enter(t, call, s, step)
  BY DEF EnterConnect, EnterAccept, EnterData, EnterClose, Calls
<1>4. [Idle EXCEPT !.pc = step, !.call = call, !.sock = s, !.ts = now] \in Thread
  BY <1>1, IdleType DEF Thread, Steps, Calls
<1>5. thread' \in [Threads -> Thread] /\ thread'[t].sock = s
      /\ \A u \in Threads \ {t} : thread'[u] = thread[u]
  <2>1. thread' = [thread EXCEPT ![t] = [Idle EXCEPT !.pc = step, !.call = call,
                                                    !.sock = s, !.ts = now]]
    BY <1>3 DEF Enter
  <2>2. [Idle EXCEPT !.pc = step, !.call = call, !.sock = s, !.ts = now].sock = s
    BY DEF Idle
  <2> QED
    BY <1>1, <1>4, <2>1, <2>2
<1>6. Busy'
  BY <1>1, <1>5 DEF Busy
<1>7. Pid(t) \in Pids /\ <<Pid(t), s>> \in SockKeys
  BY DEF Pids, SockKeys
<1>8. users' \in [Socks -> SUBSET Pids]
  BY <1>1, <1>7 DEF EnterConnect, EnterAccept, EnterData, EnterClose
<1>9. opened' \in [SockKeys -> Nat \cup {NoTime}]
  BY <1>1, <1>7 DEF EnterConnect, EnterAccept, EnterData, EnterClose
<1>10. excused' \in BOOLEAN
  BY <1>1 DEF EnterConnect, EnterAccept, EnterData, EnterClose
<1>11. /\ MapOf(connections, ConnKeys, ConnInfo)' /\ MapOf(socket_to_conn, SockKeys, ConnKeys)'
       /\ now' \in Nat
  BY <1>1, <1>2 DEF MapOf
<1> QED
  BY <1>5, <1>6, <1>8, <1>9, <1>10, <1>11, InvMaps DEF Inv, TypeOK, MapOf

\* The step of a probe uses the maps with keys and values of their types.
LEMMA ProbeStepInv ==
    ASSUME Inv, NEW t \in Threads, ProbeStep(t)
    PROVE  Inv'
<1>1. /\ MapOf(connections, ConnKeys, ConnInfo) /\ MapOf(socket_to_conn, SockKeys, ConnKeys)
      /\ now \in Nat /\ thread \in [Threads -> Thread] /\ users \in [Socks -> SUBSET Pids]
      /\ opened \in [SockKeys -> Nat \cup {NoTime}] /\ excused \in BOOLEAN /\ Busy
      /\ thread[t] \in Thread
  BY InvMaps
<1>2. UNCHANGED <<now, users, opened>> /\ thread[t].pc # "user"
  BY DEF ProbeStep, PutConn, PutSock, GetSock, GetConn, DelConn, DelSock, SendEvent, ConnectReturns
<1>3. /\ ConnKeyOf(t) \in ConnKeys /\ SockKey(t) \in SockKeys /\ thread[t].sock \in Socks
      /\ thread[t].ts \in Nat
  BY <1>1, <1>2, KeyTypes DEF Busy, Thread
<1>4. ASSUME MapOf(connections', ConnKeys, ConnInfo), MapOf(socket_to_conn', SockKeys, ConnKeys),
             thread' \in [Threads -> Thread], excused' \in BOOLEAN,
             \A u \in Threads \ {t} : thread'[u] = thread[u],
             thread'[t].pc # "user" => thread'[t].sock \in Socks
      PROVE  Inv'
  <2>1. Busy'
    BY <1>1, <1>4 DEF Busy
  <2> QED
    BY <1>1, <1>2, <1>4, <2>1 DEF Inv, TypeOK, MapOf
<1>5. ASSUME NEW step \in Steps, Goto(t, step)
      PROVE  /\ thread' \in [Threads -> Thread]
             /\ \A u \in Threads \ {t} : thread'[u] = thread[u]
             /\ thread'[t].sock \in Socks
  BY <1>1, <1>3, <1>5, GotoType DEF Goto
<1>6. CASE PutConn(t)
  <2>1. [connect_ts |-> thread[t].ts, by |-> t] \in ConnInfo
    BY <1>3 DEF ConnInfo
  <2>2. MapOf(connections', ConnKeys, ConnInfo)
    BY <1>1, <1>3, <1>6, <2>1, UpdatedType DEF PutConn
  <2>3. Goto(t, "put_sock") /\ UNCHANGED <<socket_to_conn, excused>> /\ "put_sock" \in Steps
    BY <1>6 DEF PutConn, Steps
  <2> QED
    BY <1>1, <1>4, <1>5, <2>2, <2>3
<1>7. CASE PutSock(t)
  <2>1. MapOf(socket_to_conn', SockKeys, ConnKeys)
    BY <1>1, <1>3, <1>7, UpdatedType DEF PutSock
  <2>2. Goto(t, "send") /\ connections' = connections /\ "send" \in Steps
    BY <1>7 DEF PutSock, Steps
  <2>3. excused' \in BOOLEAN
    BY <1>1, <1>7 DEF PutSock
  <2> QED
    BY <1>1, <1>4, <1>5, <2>1, <2>2, <2>3
<1>8. CASE GetSock(t)
  <2> DEFINE found == SockKey(t) \in DOMAIN socket_to_conn
             step == IF found THEN IF thread[t].call = "close" THEN "del_conn" ELSE "get_conn"
                              ELSE "send"
             k == IF found THEN socket_to_conn[SockKey(t)] ELSE NoKey
  <2>1. step \in Steps /\ k \in ConnKeys \cup {NoKey}
    BY <1>1 DEF Steps, MapOf
  <2>2. thread' = [thread EXCEPT ![t].pc = step, ![t].key = k]
    BY <1>8 DEF GetSock
  <2> HIDE DEF step, k, found
  <2>3. /\ thread' \in [Threads -> Thread] /\ thread'[t].sock = thread[t].sock
        /\ \A u \in Threads \ {t} : thread'[u] = thread[u]
    BY <1>1, <2>1, <2>2 DEF Thread
  <2>4. UNCHANGED <<connections, socket_to_conn, excused>>
    BY <1>8 DEF GetSock
  <2> QED
    BY <1>1, <1>3, <1>4, <2>3, <2>4
<1>9. CASE GetConn(t)
  <2>1. UNCHANGED <<connections, socket_to_conn, excused>>
    BY <1>9 DEF GetConn
  <2>2. CASE Goto(t, "send")
    BY <1>1, <1>4, <1>5, <2>1, <2>2 DEF Steps
  <2>3. CASE /\ thread[t].key \in DOMAIN connections
             /\ thread' = [thread EXCEPT
                              ![t].pc = "send", ![t].base = connections[thread[t].key],
                              ![t].duration_ns =
                                 (thread[t].ts - connections[thread[t].key].connect_ts) % Width]
    <3> DEFINE info == connections[thread[t].key]
               d == (thread[t].ts - info.connect_ts) % Width
    <3>1. info \in ConnInfo
      BY <1>1, <2>3 DEF MapOf
    <3>2. info.connect_ts \in Nat
      BY <3>1 DEF ConnInfo
    <3>3. d \in 0..(Width - 1)
      BY <1>3, <3>2, BoundsAssumption
    <3>4. thread' = [thread EXCEPT ![t].pc = "send", ![t].base = info, ![t].duration_ns = d]
      BY <2>3
    <3> HIDE DEF info, d
    <3>5. /\ thread' \in [Threads -> Thread] /\ thread'[t].sock = thread[t].sock
          /\ \A u \in Threads \ {t} : thread'[u] = thread[u]
      BY <1>1, <3>1, <3>3, <3>4 DEF Thread, Steps
    <3> QED
      BY <1>1, <1>3, <1>4, <2>1, <3>5
  <2> QED
    BY <1>9, <2>2, <2>3 DEF GetConn
<1>10. CASE DelConn(t)
  <2>1. MapOf(connections', ConnKeys, ConnInfo)
    BY <1>1, <1>10, DeletedType DEF DelConn
  <2>2. Goto(t, "del_sock") /\ UNCHANGED <<socket_to_conn, excused>> /\ "del_sock" \in Steps
    BY <1>10 DEF DelConn, Steps
  <2> QED
    BY <1>1, <1>4, <1>5, <2>1, <2>2
<1>11. CASE DelSock(t)
  <2>1. MapOf(socket_to_conn', SockKeys, ConnKeys)
    BY <1>1, <1>11, DeletedType DEF DelSock
  <2>2. Goto(t, "send") /\ UNCHANGED <<connections, excused>> /\ "send" \in Steps
    BY <1>11 DEF DelSock, Steps
  <2> QED
    BY <1>1, <1>4, <1>5, <2>1, <2>2
<1>12. CASE SendEvent(t) \/ ConnectReturns(t)
  <2>1. UNCHANGED <<connections, socket_to_conn, excused>>
    BY <1>12 DEF SendEvent, ConnectReturns
  <2>2. CASE thread' = [thread EXCEPT ![t] = Idle]
    <3>1. thread'[t].pc = "user" /\ thread' \in [Threads -> Thread]
          /\ \A u \in Threads \ {t} : thread'[u] = thread[u]
      BY <1>1, <2>2, IdleType DEF Idle
    <3> QED
      BY <1>1, <1>4, <2>1, <3>1
  <2>3. CASE thread' = [thread EXCEPT ![t] = [thread[t] EXCEPT !.pc = "return"]]
    <3>1. thread'[t].sock = thread[t].sock /\ thread' \in [Threads -> Thread]
          /\ \A u \in Threads \ {t} : thread'[u] = thread[u]
      BY <1>1, <2>3 DEF Thread, Steps
    <3> QED
      BY <1>1, <1>3, <1>4, <2>1, <3>1
  <2> QED
    BY <1>12, <2>2, <2>3 DEF SendEvent, ConnectReturns
<1> QED
  BY <1>6, <1>7, <1>8, <1>9, <1>10, <1>11, <1>12 DEF ProbeStep

\* Every step keeps the invariant.
LEMMA InvNext == Inv /\ [Next]_vars => Inv'
<1> SUFFICES ASSUME Inv, [Next]_vars PROVE Inv'
  OBVIOUS
<1>1. ASSUME NEW s \in Socks, NEW p \in Pids, ShareSocket(s, p) \/ DropSocket(s, p) PROVE Inv'
  <2>1. users' \in [Socks -> SUBSET Pids]
    BY <1>1 DEF Inv, TypeOK, ShareSocket, DropSocket
  <2>2. UNCHANGED <<now, connections, socket_to_conn, thread, opened, excused>>
    BY <1>1 DEF ShareSocket, DropSocket
  <2> QED
    BY <2>1, <2>2 DEF Inv, TypeOK, Busy
<1>2. CASE Tick
  <2>1. now' \in Nat /\ UNCHANGED <<connections, socket_to_conn, thread, users, opened, excused>>
    BY <1>2 DEF Inv, TypeOK, Tick
  <2> QED
    BY <2>1 DEF Inv, TypeOK, Busy
<1>3. CASE UNCHANGED vars
  BY <1>3 DEF vars, Inv, TypeOK, Busy
<1> QED
  BY <1>1, <1>2, <1>3, EnterInv, ProbeStepInv DEF Next

-----------------------------------------------------------------------------
(* The theorem.                                                            *)

\* The probes' variables keep their types, and neither map ever exceeds MaxEntries
\* (bpf_map_update_elem on connections and socket_to_conn).
THEOREM TypeCorrect == Spec => []TypeOK
<1>1. Inv => TypeOK
  BY DEF Inv
<1> QED
  BY <1>1, InvInit, InvNext, PTL DEF Spec

-----------------------------------------------------------------------------
(* How the steps move the threads.                                         *)

\* The other threads stay where they are.
Apart(t) == \A u \in Threads \ {t} : thread'[u] = thread[u]

\* The thread stays in the same call.
SameCall(t) ==
    /\ thread'[t].call = thread[t].call
    /\ thread'[t].sock = thread[t].sock
    /\ thread'[t].ts = thread[t].ts

\* Entering a probe.
LEMMA EnterMoves ==
    ASSUME Inv, NEW t \in Threads, NEW s \in Socks, NEW call, NEW step, Enter(t, call, s, step)
    PROVE  /\ thread[t].pc = "user" /\ Apart(t)
           /\ thread'[t].pc = step /\ thread'[t].call = call /\ thread'[t].sock = s
           /\ thread'[t].ts = now /\ thread'[t].base = NoInfo
  BY DEF Inv, TypeOK, Enter, Idle, Apart

\* Going on to another step.
LEMMA GotoMoves ==
    ASSUME Inv, NEW t \in Threads, NEW step, Goto(t, step)
    PROVE  /\ Apart(t) /\ SameCall(t) /\ thread'[t].pc = step
           /\ thread'[t].key = thread[t].key /\ thread'[t].base = thread[t].base
  BY DEF Inv, TypeOK, Thread, Goto, Apart, SameCall

\* Looking the socket up.
LEMMA GetSockMoves ==
    ASSUME Inv, NEW t \in Threads, GetSock(t)
    PROVE  /\ thread[t].pc = "get_sock" /\ Apart(t) /\ SameCall(t)
           /\ thread'[t].base = thread[t].base
           /\ \/ thread'[t].pc = "send"
                 /\ SockKey(t) \notin DOMAIN socket_to_conn
              \/ /\ SockKey(t) \in DOMAIN socket_to_conn
                 /\ thread'[t].key = socket_to_conn[SockKey(t)]
                 /\ IF thread[t].call = "close" THEN thread'[t].pc = "del_conn"
                                                ELSE thread'[t].pc = "get_conn"
<1> DEFINE step == IF SockKey(t) \in DOMAIN socket_to_conn
                   THEN IF thread[t].call = "close" THEN "del_conn" ELSE "get_conn"
                   ELSE "send"
           k == IF SockKey(t) \in DOMAIN socket_to_conn THEN socket_to_conn[SockKey(t)] ELSE NoKey
<1>1. thread[t].pc = "get_sock" /\ thread' = [thread EXCEPT ![t].pc = step, ![t].key = k]
  BY DEF GetSock
<1> HIDE DEF step, k
<1>2. /\ Apart(t) /\ SameCall(t) /\ thread'[t].base = thread[t].base
      /\ thread'[t].pc = step /\ thread'[t].key = k
  BY <1>1 DEF Inv, TypeOK, Thread, Apart, SameCall
<1> QED
  BY <1>1, <1>2 DEF step, k

\* Measuring.
LEMMA GetConnMoves ==
    ASSUME Inv, NEW t \in Threads, GetConn(t)
    PROVE  /\ thread[t].pc = "get_conn" /\ thread'[t].pc = "send" /\ Apart(t) /\ SameCall(t)
           /\ \/ thread'[t].base = thread[t].base
              \/ /\ thread[t].key \in DOMAIN connections
                 /\ thread'[t].base = connections[thread[t].key]
<1>1. thread[t].pc = "get_conn"
  BY DEF GetConn
<1>2. CASE Goto(t, "send")
  BY <1>1, <1>2, GotoMoves
<1>3. CASE /\ thread[t].key \in DOMAIN connections
           /\ thread' = [thread EXCEPT
                            ![t].pc = "send", ![t].base = connections[thread[t].key],
                            ![t].duration_ns =
                               (thread[t].ts - connections[thread[t].key].connect_ts) % Width]
  <2> DEFINE info == connections[thread[t].key]
             d == (thread[t].ts - info.connect_ts) % Width
  <2>1. thread' = [thread EXCEPT ![t].pc = "send", ![t].base = info, ![t].duration_ns = d]
    BY <1>3
  <2> HIDE DEF info, d
  <2>2. thread'[t].pc = "send" /\ Apart(t) /\ SameCall(t) /\ thread'[t].base = info
    BY <2>1 DEF Inv, TypeOK, Thread, Apart, SameCall
  <2> QED
    BY <1>1, <1>3, <2>2 DEF info
<1> QED
  BY <1>2, <1>3 DEF GetConn

\* Sending the event, and returning.
LEMMA FinishMoves ==
    ASSUME Inv, NEW t \in Threads, SendEvent(t) \/ ConnectReturns(t)
    PROVE  /\ thread[t].pc \in {"send", "return"} /\ Apart(t)
           /\ \/ thread'[t] = Idle
              \/ /\ thread'[t].pc = "return" /\ SameCall(t)
                 /\ thread'[t].base = thread[t].base
<1>1. thread[t].pc \in {"send", "return"} /\ thread \in [Threads -> Thread]
  BY DEF SendEvent, ConnectReturns, Inv, TypeOK
<1>2. CASE thread' = [thread EXCEPT ![t] = Idle]
  BY <1>1, <1>2 DEF Apart
<1>3. CASE thread' = [thread EXCEPT ![t] = [thread[t] EXCEPT !.pc = "return"]]
  BY <1>1, <1>3 DEF Apart, SameCall, Thread
<1> QED
  BY <1>1, <1>2, <1>3 DEF SendEvent, ConnectReturns

\* What a map holds after an update.
LEMMA UpdatedEntries ==
    ASSUME NEW map, NEW k, NEW v, NEW x
    PROVE  /\ x \in DOMAIN Updated(map, k, v) =>
                 \/ x = k /\ Fits(map, k) /\ Updated(map, k, v)[x] = v
                 \/ /\ x \in DOMAIN map /\ Updated(map, k, v)[x] = map[x]
                    /\ x # k
           /\ x \in DOMAIN map => x \in DOMAIN Updated(map, k, v)
           /\ Fits(map, k) => k \in DOMAIN Updated(map, k, v)
<1>1. CASE Fits(map, k)
  BY <1>1 DEF Updated
<1>2. CASE ~Fits(map, k)
  BY <1>2 DEF Updated, Fits
<1> QED
  BY <1>1, <1>2

\* And after a deletion.
LEMMA DeletedEntries ==
    ASSUME NEW map, NEW k
    PROVE  /\ DOMAIN Deleted(map, k) = DOMAIN map \ {k}
           /\ \A x \in DOMAIN map \ {k} : Deleted(map, k)[x] = map[x]
  BY DEF Deleted

-----------------------------------------------------------------------------
(* How old an entry of connections is.  The invariant says of every entry  *)
(* that a thread may reach from its socket that it is no older than the    *)
(* socket: in a process with one thread no other probe of the process runs *)
(* between the connect that opens the socket and the entry it writes.      *)

\* A probe is running.
Active(t) == thread[t].pc # "user"

\* No time lies in the future.
Dated ==
    /\ \A t \in Threads : thread[t].ts =< now
    /\ \A x \in SockKeys : opened[x] =< now
    /\ \A k \in DOMAIN connections : connections[k].connect_ts =< now

\* The keys a process reaches are its own.
Kin ==
    /\ \A x \in DOMAIN socket_to_conn : socket_to_conn[x][1] = x[1]
    /\ \A t \in Threads :
        thread[t].pc = "get_conn" => thread[t].key \in ConnKeys /\ thread[t].key[1] = Pid(t)

\* The entry for k, if there is one, is no older than the socket of x.
Younger(k, x) == k \in DOMAIN connections => opened[x] =< connections[k].connect_ts

\* All that the process did lies before the probe's time.
Past(t) ==
    Active(t) =>
        /\ \A k \in DOMAIN connections : k[1] = Pid(t) => connections[k].connect_ts =< thread[t].ts
        /\ \A x \in SockKeys : x[1] = Pid(t) => opened[x] =< thread[t].ts

\* The thread is opening the socket of x, and its entry is not written yet.
Opening(t, x) == SockKey(t) = x /\ thread[t].pc \in {"put_conn", "put_sock"}

\* The socket of x leads to k in the map.
Maps(x, k) == x \in DOMAIN socket_to_conn /\ socket_to_conn[x] = k

\* The socket of x leads to k in the thread's hands.
Carries(t, x, k) ==
    /\ SockKey(t) = x
    /\ \/ thread[t].pc = "put_sock" /\ ConnKeyOf(t) = k
       \/ thread[t].pc = "get_conn" /\ thread[t].key = k

\* What a socket of the process leads to is no older than the socket.
Linked(t) ==
    \A x \in SockKeys, k \in ConnKeys :
        /\ x[1] = Pid(t) /\ k[1] = Pid(t)
        /\ (Maps(x, k) /\ ~Opening(t, x)) \/ Carries(t, x, k)
        => Younger(k, x)

\* What NeverOverstated says of the thread.
Sound(t) ==
    Measured(t) => /\ thread[t].base.connect_ts =< thread[t].ts
                   /\ opened[SockKey(t)] =< thread[t].base.connect_ts

Lone(t) == Past(t) /\ Linked(t) /\ Sound(t)

\* Only a running probe has measured.
Awake == \A t \in Threads : Measured(t) => Active(t)

AgeInv == Inv /\ Awake /\ Dated /\ Kin /\ \A t \in Threads : OnlyThread(t) => Lone(t)

\* What the invariant says of the types of the times.
LEMMA Clocks ==
    ASSUME Inv
    PROVE  /\ now \in Nat
           /\ \A t \in Threads : thread[t].ts \in Nat
           /\ \A x \in SockKeys : opened[x] \in Int
           /\ \A k \in DOMAIN connections : connections[k].connect_ts \in Nat
                                            /\ connections[k] # NoInfo
           /\ DOMAIN socket_to_conn \subseteq SockKeys
           /\ DOMAIN connections \subseteq ConnKeys
           /\ \A x \in DOMAIN socket_to_conn : socket_to_conn[x] \in ConnKeys
<1>1. \A t \in Threads : thread[t] \in Thread
  BY DEF Inv, TypeOK
<1>2. \A t \in Threads : thread[t].ts \in Nat
  BY <1>1 DEF Thread
<1>3. \A x \in SockKeys : opened[x] \in Int
  BY DEF Inv, TypeOK, NoTime
<1>4. \A c \in ConnInfo : c.connect_ts \in Nat /\ c # NoInfo
  BY DEF ConnInfo, NoInfo, NoTime
<1> QED
  BY <1>2, <1>3, <1>4 DEF Inv, TypeOK

\* At first nothing is open.
LEMMA AgeInit == Init => AgeInv
<1> SUFFICES ASSUME Init PROVE AgeInv
  OBVIOUS
<1>1. /\ now = 0 /\ DOMAIN connections = {} /\ DOMAIN socket_to_conn = {}
      /\ opened = [k \in SockKeys |-> NoTime]
      /\ \A t \in Threads : thread[t] = Idle
  BY DEF Init
<1>2. Awake /\ Dated /\ Kin
  BY <1>1 DEF Awake, Measured, Dated, Kin, Idle, NoTime
<1>3. \A t \in Threads : Lone(t)
  BY <1>1 DEF Lone, Past, Linked, Maps, Carries, Sound, Active, Measured, Idle
<1> QED
  BY <1>2, <1>3, InvInit DEF AgeInv

\* The sockets of a process's own probes, and what a measuring probe holds.
LEMMA Hands ==
    ASSUME Inv, NEW t \in Threads
    PROVE  /\ Active(t) => SockKey(t) \in SockKeys /\ ConnKeyOf(t) \in ConnKeys
           /\ SockKey(t)[1] = Pid(t) /\ ConnKeyOf(t)[1] = Pid(t)
           /\ thread[t].ts \in Nat
           /\ Measured(t) => thread[t].base.connect_ts \in Nat
<1>1. Active(t) => SockKey(t) \in SockKeys /\ ConnKeyOf(t) \in ConnKeys
  BY KeyTypes DEF Active
<1>2. thread[t].ts \in Nat /\ thread[t].base \in ConnInfo \cup {NoInfo}
  BY DEF Inv, TypeOK, Thread
<1>3. Measured(t) => thread[t].base.connect_ts \in Nat
  BY <1>2 DEF Measured, ConnInfo
<1> QED
  BY <1>1, <1>2, <1>3 DEF SockKey, ConnKeyOf

\* A thread that is alone in its process and does not move is only concerned by
\* what happens to its process's entries: others can at most close a socket.
LEMMA Bystander ==
    ASSUME Inv, NEW t \in Threads, Lone(t), thread'[t] = thread[t],
           Measured(t) => Active(t),
           \A k \in DOMAIN connections' :
               k[1] = Pid(t) => k \in DOMAIN connections /\ connections'[k] = connections[k],
           \A x \in DOMAIN socket_to_conn' :
               x[1] = Pid(t) => /\ x \in DOMAIN socket_to_conn
                                /\ socket_to_conn'[x] = socket_to_conn[x],
           \A x \in SockKeys : x[1] = Pid(t) => opened'[x] \in {opened[x], NoTime}
    PROVE  Lone(t)'
<1>1. /\ SockKey(t)' = SockKey(t) /\ ConnKeyOf(t)' = ConnKeyOf(t)
      /\ Active(t)' = Active(t) /\ Measured(t)' = Measured(t)
  BY DEF SockKey, ConnKeyOf, Active, Measured
<1>2. \A k \in DOMAIN connections : connections[k].connect_ts \in Nat
  BY Clocks
<1>3. \A x \in SockKeys : opened[x] \in Int
  BY Clocks
<1>4. \A x \in SockKeys, k \in ConnKeys :
         x[1] = Pid(t) /\ k[1] = Pid(t) /\ Younger(k, x) => Younger(k, x)'
  BY <1>2, <1>3 DEF Younger, NoTime
<1>5. Past(t)'
  <2>1. \A x \in SockKeys : x[1] = Pid(t) /\ opened[x] =< thread[t].ts => opened'[x] =< thread[t].ts
    BY Hands DEF NoTime
  <2> QED
    BY <1>1, <2>1 DEF Past, Lone
<1>6. Linked(t)'
  <2>1. \A x \in SockKeys, k \in ConnKeys :
           /\ x[1] = Pid(t) /\ Maps(x, k)' => Maps(x, k)
           /\ Opening(t, x)' = Opening(t, x) /\ Carries(t, x, k)' = Carries(t, x, k)
    BY <1>1 DEF Maps, Opening, Carries
  <2> QED
    BY <1>4, <2>1 DEF Linked, Lone
<1>7. Sound(t)'
  <2>1. Measured(t) => /\ SockKey(t) \in SockKeys /\ SockKey(t)[1] = Pid(t)
                       /\ thread[t].base.connect_ts \in Nat
    BY Hands
  <2>2. Measured(t) => /\ thread[t].base.connect_ts =< thread[t].ts
                       /\ opened[SockKey(t)] =< thread[t].base.connect_ts
                       /\ opened'[SockKey(t)] \in {opened[SockKey(t)], NoTime}
    BY <2>1 DEF Lone, Sound
  <2>3. Measured(t) => opened'[SockKey(t)] =< thread[t].base.connect_ts
    BY <2>1, <2>2 DEF NoTime
  <2> QED
    BY <1>1, <2>2, <2>3 DEF Sound
<1> QED
  BY <1>5, <1>6, <1>7 DEF Lone

\* An entry that is younger than a socket stays so, unless it is written again.
LEMMA YoungerKept ==
    ASSUME Inv, NEW x \in SockKeys, NEW k, Younger(k, x), opened'[x] \in {opened[x], NoTime},
           k \in DOMAIN connections' => k \in DOMAIN connections /\ connections'[k] = connections[k]
    PROVE  Younger(k, x)'
<1>1. k \in DOMAIN connections => connections[k].connect_ts \in Nat
  BY Clocks
<1>2. opened[x] \in Int
  BY Clocks
<1> QED
  BY <1>1, <1>2 DEF Younger, NoTime

\* Entering a probe: only the socket that is opened has a new time, and until its
\* entry is written the thread is opening it.
LEMMA AgeEnter ==
    ASSUME AgeInv, NEW t \in Threads, NEW s \in Socks,
           \/ EnterConnect(t, s) \/ EnterAccept(t, s) \/ EnterData(t, s) \/ EnterClose(t, s)
    PROVE  AgeInv'
<1>1. Inv /\ Awake /\ Dated /\ Kin
  BY DEF AgeInv
<1>2. UNCHANGED <<now, connections, socket_to_conn>>
  BY DEF EnterConnect, EnterAccept, EnterData, EnterClose
<1>3. PICK call \in Calls, step \in {"put_conn", "get_sock"} : Enter(t, call, s, step)
  BY DEF EnterConnect, EnterAccept, EnterData, EnterClose, Calls
<1>4. /\ thread[t].pc = "user" /\ Apart(t)
      /\ thread'[t].pc = step /\ thread'[t].sock = s
      /\ thread'[t].ts = now /\ thread'[t].base = NoInfo
  BY <1>1, <1>3, EnterMoves
<1>5. \A x \in SockKeys : \/ opened'[x] \in {opened[x], NoTime}
                          \/ /\ x = <<Pid(t), s>> /\ opened'[x] = now
                             /\ step = "put_conn"
  <2>1. opened \in [SockKeys -> Nat \cup {NoTime}]
    BY <1>1 DEF Inv, TypeOK
  <2>2. CASE EnterConnect(t, s) \/ EnterAccept(t, s)
    <3>1. opened' = [opened EXCEPT ![<<Pid(t), s>>] = now]
      BY <2>2 DEF EnterConnect, EnterAccept
    <3>2. thread'[t].pc = "put_conn"
      BY <2>2, <1>1, EnterMoves DEF EnterConnect, EnterAccept
    <3>3. \A x \in SockKeys : opened'[x] = IF x = <<Pid(t), s>> THEN now ELSE opened[x]
      BY <2>1, <3>1
    <3> QED
      BY <1>4, <3>2, <3>3
  <2>3. CASE EnterData(t, s) \/ EnterClose(t, s)
    BY <2>1, <2>3 DEF EnterData, EnterClose
  <2> QED
    BY <2>2, <2>3
<1>6. Inv'
  BY <1>1, EnterInv
<1>7. Awake'
  BY <1>1, <1>4 DEF Awake, Apart, Measured, Active
<1>8. Dated'
  <2>1. now \in Nat
    BY <1>1, Clocks
  <2>2. \A u \in Threads : thread'[u].ts =< now
    BY <1>1, <1>4, <2>1 DEF Dated, Apart
  <2>3. \A x \in SockKeys : opened'[x] =< now
    BY <1>1, <1>5, <2>1 DEF Dated, NoTime
  <2> QED
    BY <1>1, <1>2, <2>2, <2>3 DEF Dated
<1>9. Kin'
  BY <1>1, <1>2, <1>4 DEF Kin, Apart
<1>10. ASSUME NEW u \in Threads, OnlyThread(u) PROVE Lone(u)'
  <2>1. Lone(u)
    BY <1>10 DEF AgeInv
  <2>2. CASE u # t
    <3>1. thread'[u] = thread[u] /\ Pid(t) # Pid(u)
      BY <1>4, <1>10, <2>2 DEF Apart, OnlyThread
    <3>2. \A x \in SockKeys : x[1] = Pid(u) => opened'[x] \in {opened[x], NoTime}
      BY <1>5, <3>1
    <3>3. Measured(u) => Active(u)
      BY <1>1 DEF Awake
    <3> QED
      BY <1>1, <1>2, <2>1, <3>1, <3>2, <3>3, Bystander
  <2>3. CASE u = t
    <3>1. Past(t)'
      BY <1>2, <1>4, <1>8 DEF Past, Dated
    <3>2. Sound(t)'
      BY <1>4 DEF Sound, Measured
    <3>3. ASSUME NEW x \in SockKeys, NEW k \in ConnKeys, x[1] = Pid(t), k[1] = Pid(t),
                 (Maps(x, k)' /\ ~Opening(t, x)') \/ Carries(t, x, k)'
          PROVE  Younger(k, x)'
      <4>1. Maps(x, k) /\ ~Opening(t, x)'
        BY <1>2, <1>4, <3>3 DEF Carries, Maps
      <4>2. opened'[x] \in {opened[x], NoTime}
        BY <1>4, <1>5, <4>1 DEF Opening, SockKey
      <4>3. Younger(k, x)
        BY <1>4, <2>1, <2>3, <3>3, <4>1 DEF Lone, Linked, Opening
      <4> QED
        BY <1>1, <1>2, <4>2, <4>3, YoungerKept
    <3>4. Linked(t)'
      BY <3>3 DEF Linked
    <3> QED
      BY <2>3, <3>1, <3>2, <3>4 DEF Lone
  <2> QED
    BY <2>2, <2>3
<1> QED
  BY <1>6, <1>7, <1>8, <1>9, <1>10 DEF AgeInv, OnlyThread

\* A probe's step moves its thread, and writes under its process's keys only.
LEMMA StepFrame ==
    ASSUME Inv, NEW t \in Threads, ProbeStep(t)
    PROVE  /\ UNCHANGED <<now, users, opened>> /\ Apart(t) /\ Active(t)
           /\ \A k \in DOMAIN connections' :
                k[1] # Pid(t) => k \in DOMAIN connections /\ connections'[k] = connections[k]
           /\ \A x \in DOMAIN socket_to_conn' :
                x[1] # Pid(t) => /\ x \in DOMAIN socket_to_conn
                                 /\ socket_to_conn'[x] = socket_to_conn[x]
<1>1. UNCHANGED <<now, users, opened>> /\ Active(t)
  BY DEF ProbeStep, PutConn, PutSock, GetSock, GetConn, DelConn, DelSock, SendEvent,
         ConnectReturns, Active
<1>2. Apart(t)
  BY GotoMoves, GetSockMoves, GetConnMoves, FinishMoves
     DEF ProbeStep, PutConn, PutSock, DelConn, DelSock
<1>3. SockKey(t)[1] = Pid(t) /\ ConnKeyOf(t)[1] = Pid(t)
  BY Hands
<1>4. \/ PutConn(t) \/ DelConn(t) \/ UNCHANGED connections
  BY DEF ProbeStep, PutSock, GetSock, GetConn, DelSock, SendEvent, ConnectReturns
<1>5. \/ PutSock(t) \/ DelSock(t) \/ UNCHANGED socket_to_conn
  BY DEF ProbeStep, PutConn, GetSock, GetConn, DelConn, SendEvent, ConnectReturns
<1>6. ASSUME NEW k \in DOMAIN connections', k[1] # Pid(t)
      PROVE  k \in DOMAIN connections /\ connections'[k] = connections[k]
  <2>1. CASE PutConn(t)
    <3> DEFINE v == [connect_ts |-> thread[t].ts, by |-> t]
    <3>1. connections' = Updated(connections, ConnKeyOf(t), v)
      BY <2>1 DEF PutConn
    <3> HIDE DEF v
    <3> QED
      BY <1>3, <1>6, <3>1, UpdatedEntries
  <2>2. CASE DelConn(t)
    BY <1>6, <2>2 DEF DelConn, Deleted
  <2>3. CASE UNCHANGED connections
    BY <1>6, <2>3
  <2> QED
    BY <1>4, <2>1, <2>2, <2>3
<1>7. ASSUME NEW x \in DOMAIN socket_to_conn', x[1] # Pid(t)
      PROVE  x \in DOMAIN socket_to_conn /\ socket_to_conn'[x] = socket_to_conn[x]
  <2>1. CASE PutSock(t)
    BY <1>3, <1>7, <2>1, UpdatedEntries DEF PutSock
  <2>2. CASE DelSock(t)
    BY <1>7, <2>2 DEF DelSock, Deleted
  <2>3. CASE UNCHANGED socket_to_conn
    BY <1>7, <2>3
  <2> QED
    BY <1>5, <2>1, <2>2, <2>3
<1> QED
  BY <1>1, <1>2, <1>6, <1>7

\* No step of a probe makes a time that lies in the future, or a key of another process.
LEMMA AgeStepFacts ==
    ASSUME AgeInv, NEW t \in Threads, ProbeStep(t)
    PROVE  Dated' /\ Kin' /\ Awake'
<1>1. Inv /\ Awake /\ Dated /\ Kin
  BY DEF AgeInv
<1>2. UNCHANGED <<now, users, opened>> /\ Apart(t) /\ Active(t)
  BY <1>1, StepFrame
<1>3. /\ \A u \in Threads \ {t} : thread'[u] = thread[u]
      /\ now \in Nat /\ thread[t].ts =< now /\ SockKey(t)[1] = Pid(t) /\ ConnKeyOf(t)[1] = Pid(t)
  BY <1>1, <1>2, Clocks, Hands DEF Apart, Dated
<1>4. ASSUME UNCHANGED connections, UNCHANGED socket_to_conn, thread'[t].ts =< now,
             thread'[t].pc # "get_conn", Measured(t)' => Active(t)'
      PROVE  Dated' /\ Kin' /\ Awake'
  BY <1>1, <1>2, <1>3, <1>4 DEF Dated, Kin, Awake, Measured, Active
<1>5. CASE PutConn(t)
  <2> DEFINE v == [connect_ts |-> thread[t].ts, by |-> t]
  <2>1. connections' = Updated(connections, ConnKeyOf(t), v) /\ UNCHANGED socket_to_conn
        /\ v.connect_ts = thread[t].ts
    BY <1>5 DEF PutConn
  <2>2. SameCall(t) /\ thread'[t].pc = "put_sock"
    BY <1>1, <1>5, GotoMoves DEF PutConn
  <2> HIDE DEF v
  <2>3. \A k \in DOMAIN connections' : connections'[k].connect_ts =< now
    BY <1>1, <1>3, <2>1, UpdatedEntries DEF Dated
  <2>4. Dated'
    BY <1>1, <1>2, <1>3, <2>2, <2>3 DEF Dated, SameCall
  <2>5. Kin' /\ Awake'
    BY <1>1, <1>3, <2>1, <2>2 DEF Kin, Awake, Measured, Active
  <2> QED
    BY <2>4, <2>5
<1>6. CASE PutSock(t)
  <2>1. socket_to_conn' = Updated(socket_to_conn, SockKey(t), ConnKeyOf(t))
        /\ UNCHANGED connections
    BY <1>6 DEF PutSock
  <2>2. SameCall(t) /\ thread'[t].pc = "send"
    BY <1>1, <1>6, GotoMoves DEF PutSock
  <2>3. \A x \in DOMAIN socket_to_conn' : socket_to_conn'[x][1] = x[1]
    BY <1>1, <1>3, <2>1, UpdatedEntries DEF Kin
  <2>4. Dated'
    BY <1>1, <1>2, <1>3, <2>1, <2>2 DEF Dated, SameCall
  <2>5. Kin' /\ Awake'
    BY <1>1, <1>3, <2>2, <2>3 DEF Kin, Awake, Measured, Active
  <2> QED
    BY <2>4, <2>5
<1>7. CASE GetSock(t)
  <2>1. UNCHANGED <<connections, socket_to_conn>>
    BY <1>7 DEF GetSock
  <2>2. /\ SameCall(t) /\ thread'[t].base = thread[t].base
        /\ thread'[t].pc \in {"send", "del_conn", "get_conn"}
        /\ thread'[t].pc = "get_conn" => /\ SockKey(t) \in DOMAIN socket_to_conn
                                         /\ thread'[t].key = socket_to_conn[SockKey(t)]
    BY <1>1, <1>7, GetSockMoves
  <2>3. SockKey(t) \in DOMAIN socket_to_conn =>
            /\ socket_to_conn[SockKey(t)] \in ConnKeys
            /\ socket_to_conn[SockKey(t)][1] = Pid(t)
    BY <1>1, <1>3, Clocks DEF Kin
  <2>4. Dated'
    BY <1>1, <1>2, <1>3, <2>1, <2>2 DEF Dated, SameCall
  <2>5. Kin' /\ Awake'
    BY <1>1, <1>3, <2>1, <2>2, <2>3 DEF Kin, Awake, Measured, Active
  <2> QED
    BY <2>4, <2>5
<1>8. CASE GetConn(t)
  <2>1. UNCHANGED <<connections, socket_to_conn>>
    BY <1>8 DEF GetConn
  <2>2. SameCall(t) /\ thread'[t].pc = "send"
    BY <1>1, <1>8, GetConnMoves
  <2> QED
    BY <1>3, <1>4, <2>1, <2>2 DEF SameCall, Active
<1>9. CASE DelConn(t)
  <2>1. SameCall(t) /\ thread'[t].pc = "del_sock" /\ UNCHANGED socket_to_conn
    BY <1>1, <1>9, GotoMoves DEF DelConn
  <2>2. \A k \in DOMAIN connections' : connections'[k].connect_ts =< now
    BY <1>1, <1>9 DEF DelConn, Deleted, Dated
  <2>3. Dated'
    BY <1>1, <1>2, <1>3, <2>1, <2>2 DEF Dated, SameCall
  <2>4. Kin' /\ Awake'
    BY <1>1, <1>3, <2>1 DEF Kin, Awake, Measured, Active
  <2> QED
    BY <2>3, <2>4
<1>10. CASE DelSock(t)
  <2>1. SameCall(t) /\ thread'[t].pc = "send" /\ UNCHANGED connections
    BY <1>1, <1>10, GotoMoves DEF DelSock
  <2>2. \A x \in DOMAIN socket_to_conn' : socket_to_conn'[x][1] = x[1]
    BY <1>1, <1>10 DEF DelSock, Deleted, Kin
  <2>3. Dated'
    BY <1>1, <1>2, <1>3, <2>1 DEF Dated, SameCall
  <2>4. Kin' /\ Awake'
    BY <1>1, <1>3, <2>1, <2>2 DEF Kin, Awake, Measured, Active
  <2> QED
    BY <2>3, <2>4
<1>11. CASE SendEvent(t) \/ ConnectReturns(t)
  <2>1. UNCHANGED <<connections, socket_to_conn>>
    BY <1>11 DEF SendEvent, ConnectReturns
  <2>2. CASE thread'[t] = Idle
    BY <1>3, <1>4, <2>1, <2>2 DEF Idle, Measured
  <2>3. CASE thread'[t].pc = "return" /\ SameCall(t)
    BY <1>3, <1>4, <2>1, <2>3 DEF SameCall, Active
  <2> QED
    BY <1>1, <1>11, <2>2, <2>3, FinishMoves
<1> QED
  BY <1>5, <1>6, <1>7, <1>8, <1>9, <1>10, <1>11 DEF ProbeStep

\* A thread that is alone in its process writes an entry that is younger than the
\* socket it opened, and measures against such an entry.
LEMMA LoneStep ==
    ASSUME AgeInv, NEW t \in Threads, ProbeStep(t), Lone(t)
    PROVE  Lone(t)'
<1>1. Inv /\ Awake /\ Kin
  BY DEF AgeInv
<1>2. UNCHANGED <<now, users, opened>> /\ Active(t) /\ Past(t) /\ Linked(t) /\ Sound(t)
  BY <1>1, StepFrame DEF Lone
<1>3. /\ SockKey(t) \in SockKeys /\ ConnKeyOf(t) \in ConnKeys
      /\ SockKey(t)[1] = Pid(t) /\ ConnKeyOf(t)[1] = Pid(t)
      /\ thread[t].ts \in Nat
  BY <1>1, <1>2, Hands
<1>4. ASSUME SameCall(t)
      PROVE  SockKey(t)' = SockKey(t) /\ ConnKeyOf(t)' = ConnKeyOf(t)
  BY <1>4 DEF SameCall, SockKey, ConnKeyOf
<1>5. ASSUME SameCall(t),
             \A k \in DOMAIN connections' :
                 k \in DOMAIN connections /\ connections'[k] = connections[k]
      PROVE  Past(t)' /\ \A x \in SockKeys, k \in ConnKeys : Younger(k, x) => Younger(k, x)'
  BY <1>2, <1>5 DEF Past, SameCall, Younger
<1>6. ASSUME SameCall(t), thread'[t].base = thread[t].base
      PROVE  Sound(t)'
  BY <1>2, <1>4, <1>6 DEF Sound, Measured, SameCall
<1>7. CASE PutConn(t)
  <2> DEFINE v == [connect_ts |-> thread[t].ts, by |-> t]
  <2>1. /\ connections' = Updated(connections, ConnKeyOf(t), v) /\ UNCHANGED socket_to_conn
        /\ v.connect_ts = thread[t].ts /\ thread[t].pc = "put_conn"
    BY <1>7 DEF PutConn
  <2>2. SameCall(t) /\ thread'[t].pc = "put_sock" /\ thread'[t].base = thread[t].base
    BY <1>1, <1>7, GotoMoves DEF PutConn
  <2> HIDE DEF v
  <2>3. \A k \in DOMAIN connections' :
            \/ k \in DOMAIN connections /\ connections'[k] = connections[k] /\ k # ConnKeyOf(t)
            \/ connections'[k].connect_ts = thread[t].ts
    BY <2>1, UpdatedEntries
  <2>4. ConnKeyOf(t) \in DOMAIN connections' =>
            connections'[ConnKeyOf(t)].connect_ts = thread[t].ts
    BY <2>3
  <2>5. Past(t)'
    <3>1. \A k \in DOMAIN connections' :
              k[1] = Pid(t) => connections'[k].connect_ts =< thread[t].ts
      BY <1>2, <1>3, <2>3 DEF Past
    <3> QED
      BY <1>2, <2>2, <3>1 DEF Past, SameCall
  <2>6. \A x \in SockKeys, k \in ConnKeys :
            x[1] = Pid(t) /\ Younger(k, x) => Younger(k, x)'
    BY <1>2, <2>3 DEF Younger, Past
  <2>7. \A x \in SockKeys, k \in ConnKeys :
            x[1] = Pid(t) /\ k = ConnKeyOf(t) => Younger(k, x)'
    BY <1>2, <1>4, <2>2, <2>4 DEF Younger, Past
  <2>8. Linked(t)'
    <3> SUFFICES ASSUME NEW x \in SockKeys, NEW k \in ConnKeys, x[1] = Pid(t), k[1] = Pid(t),
                        (Maps(x, k)' /\ ~Opening(t, x)') \/ Carries(t, x, k)'
                 PROVE  Younger(k, x)'
      BY DEF Linked
    <3>1. CASE Carries(t, x, k)'
      <4>1. k = ConnKeyOf(t)
        BY <1>4, <2>2, <3>1 DEF Carries
      <4> QED
        BY <2>7, <4>1
    <3>2. CASE Maps(x, k)' /\ ~Opening(t, x)'
      <4>1. Maps(x, k) /\ ~Opening(t, x)
        BY <1>4, <2>1, <2>2, <3>2 DEF Maps, Opening
      <4> QED
        BY <1>2, <2>6, <4>1 DEF Linked
    <3> QED
      BY <3>1, <3>2
  <2> QED
    BY <1>6, <2>2, <2>5, <2>8 DEF Lone
<1>8. CASE PutSock(t)
  <2>1. /\ socket_to_conn' = Updated(socket_to_conn, SockKey(t), ConnKeyOf(t))
        /\ UNCHANGED connections /\ thread[t].pc = "put_sock"
    BY <1>8 DEF PutSock
  <2>2. SameCall(t) /\ thread'[t].pc = "send" /\ thread'[t].base = thread[t].base
    BY <1>1, <1>8, GotoMoves DEF PutSock
  <2>3. Past(t)' /\ \A x \in SockKeys, k \in ConnKeys : Younger(k, x) => Younger(k, x)'
    BY <1>5, <2>1, <2>2
  <2>4. \A x \in DOMAIN socket_to_conn' :
            \/ x = SockKey(t) /\ socket_to_conn'[x] = ConnKeyOf(t)
            \/ x \in DOMAIN socket_to_conn /\ socket_to_conn'[x] = socket_to_conn[x]
               /\ x # SockKey(t)
    BY <2>1, UpdatedEntries
  <2>5. Linked(t)'
    <3> SUFFICES ASSUME NEW x \in SockKeys, NEW k \in ConnKeys, x[1] = Pid(t), k[1] = Pid(t),
                        (Maps(x, k)' /\ ~Opening(t, x)') \/ Carries(t, x, k)'
                 PROVE  Younger(k, x)'
      BY DEF Linked
    <3>1. Maps(x, k)'
      BY <2>2 DEF Carries
    <3>2. x \in DOMAIN socket_to_conn' /\ socket_to_conn'[x] = k
      BY <3>1 DEF Maps
    <3>3. CASE x = SockKey(t) /\ k = ConnKeyOf(t)
      <4>1. Carries(t, x, k)
        BY <2>1, <3>3 DEF Carries
      <4> QED
        BY <1>2, <2>3, <4>1 DEF Linked
    <3>4. CASE x # SockKey(t) /\ x \in DOMAIN socket_to_conn /\ socket_to_conn[x] = k
      <4>1. Maps(x, k) /\ ~Opening(t, x)
        BY <3>4 DEF Maps, Opening
      <4> QED
        BY <1>2, <2>3, <4>1 DEF Linked
    <3> QED
      BY <2>4, <3>2, <3>3, <3>4
  <2> QED
    BY <1>6, <2>2, <2>3, <2>5 DEF Lone
<1>9. CASE GetSock(t)
  <2>1. UNCHANGED <<connections, socket_to_conn>> /\ thread[t].pc = "get_sock"
    BY <1>9 DEF GetSock
  <2>2. /\ SameCall(t) /\ thread'[t].base = thread[t].base
        /\ thread'[t].pc \in {"send", "del_conn", "get_conn"}
        /\ thread'[t].pc = "get_conn" => /\ SockKey(t) \in DOMAIN socket_to_conn
                                         /\ thread'[t].key = socket_to_conn[SockKey(t)]
    BY <1>1, <1>9, GetSockMoves
  <2>3. Past(t)' /\ \A x \in SockKeys, k \in ConnKeys : Younger(k, x) => Younger(k, x)'
    BY <1>5, <2>1, <2>2
  <2>4. Linked(t)'
    <3> SUFFICES ASSUME NEW x \in SockKeys, NEW k \in ConnKeys, x[1] = Pid(t), k[1] = Pid(t),
                        (Maps(x, k)' /\ ~Opening(t, x)') \/ Carries(t, x, k)'
                 PROVE  Younger(k, x)'
      BY DEF Linked
    <3>1. Maps(x, k) /\ ~Opening(t, x)
      BY <1>4, <2>1, <2>2 DEF Maps, Carries, Opening
    <3> QED
      BY <1>2, <2>3, <3>1 DEF Linked
  <2> QED
    BY <1>6, <2>2, <2>3, <2>4 DEF Lone
<1>10. CASE GetConn(t)
  <2>1. UNCHANGED <<connections, socket_to_conn>>
    BY <1>10 DEF GetConn
  <2>2. /\ SameCall(t) /\ thread'[t].pc = "send" /\ thread[t].pc = "get_conn"
        /\ \/ thread'[t].base = thread[t].base
           \/ /\ thread[t].key \in DOMAIN connections
              /\ thread'[t].base = connections[thread[t].key]
    BY <1>1, <1>10, GetConnMoves
  <2>3. Past(t)' /\ \A x \in SockKeys, k \in ConnKeys : Younger(k, x) => Younger(k, x)'
    BY <1>5, <2>1, <2>2
  <2>4. Linked(t)'
    <3> SUFFICES ASSUME NEW x \in SockKeys, NEW k \in ConnKeys, x[1] = Pid(t), k[1] = Pid(t),
                        (Maps(x, k)' /\ ~Opening(t, x)') \/ Carries(t, x, k)'
                 PROVE  Younger(k, x)'
      BY DEF Linked
    <3>1. Maps(x, k) /\ ~Opening(t, x)
      BY <1>4, <2>1, <2>2 DEF Maps, Carries, Opening
    <3> QED
      BY <1>2, <2>3, <3>1 DEF Linked
  <2>5. thread[t].key \in ConnKeys /\ thread[t].key[1] = Pid(t)
    BY <1>1, <2>2 DEF Kin
  <2>6. Younger(thread[t].key, SockKey(t))
    BY <1>2, <1>3, <2>2, <2>5 DEF Linked, Carries
  <2>7. ASSUME thread[t].key \in DOMAIN connections,
               thread'[t].base = connections[thread[t].key]
        PROVE  Sound(t)'
    <3>1. /\ connections[thread[t].key].connect_ts =< thread[t].ts
          /\ opened[SockKey(t)] =< connections[thread[t].key].connect_ts
      BY <1>2, <2>5, <2>6, <2>7 DEF Younger, Past
    <3> QED
      BY <1>2, <1>4, <2>2, <2>7, <3>1 DEF Sound, SameCall
  <2> QED
    BY <1>6, <2>2, <2>3, <2>4, <2>7 DEF Lone
<1>11. CASE DelConn(t) \/ DelSock(t)
  <2>1. /\ SameCall(t) /\ thread'[t].pc \in {"del_sock", "send"}
        /\ thread[t].pc \in {"del_conn", "del_sock"} /\ thread'[t].base = thread[t].base
    BY <1>1, <1>11, GotoMoves DEF DelConn, DelSock
  <2>2. \A k \in DOMAIN connections' :
            k \in DOMAIN connections /\ connections'[k] = connections[k]
    BY <1>11 DEF DelConn, DelSock, Deleted
  <2>3. \A x \in DOMAIN socket_to_conn' :
            x \in DOMAIN socket_to_conn /\ socket_to_conn'[x] = socket_to_conn[x]
    BY <1>11 DEF DelConn, DelSock, Deleted
  <2>4. Past(t)' /\ \A x \in SockKeys, k \in ConnKeys : Younger(k, x) => Younger(k, x)'
    BY <1>5, <2>1, <2>2
  <2>5. Linked(t)'
    <3> SUFFICES ASSUME NEW x \in SockKeys, NEW k \in ConnKeys, x[1] = Pid(t), k[1] = Pid(t),
                        (Maps(x, k)' /\ ~Opening(t, x)') \/ Carries(t, x, k)'
                 PROVE  Younger(k, x)'
      BY DEF Linked
    <3>1. Maps(x, k) /\ ~Opening(t, x)
      BY <2>1, <2>3 DEF Maps, Carries, Opening
    <3> QED
      BY <1>2, <2>4, <3>1 DEF Linked
  <2> QED
    BY <1>6, <2>1, <2>4, <2>5 DEF Lone
<1>12. CASE SendEvent(t) \/ ConnectReturns(t)
  <2>1. UNCHANGED <<connections, socket_to_conn>>
    BY <1>12 DEF SendEvent, ConnectReturns
  <2>2. /\ thread[t].pc \in {"send", "return"}
        /\ \/ thread'[t] = Idle
           \/ thread'[t].pc = "return" /\ SameCall(t) /\ thread'[t].base = thread[t].base
    BY <1>1, <1>12, FinishMoves
  <2>3. Linked(t)'
    <3> SUFFICES ASSUME NEW x \in SockKeys, NEW k \in ConnKeys, x[1] = Pid(t), k[1] = Pid(t),
                        (Maps(x, k)' /\ ~Opening(t, x)') \/ Carries(t, x, k)'
                 PROVE  Younger(k, x)'
      BY DEF Linked
    <3>1. thread'[t].pc \in {"user", "return"}
      BY <2>2 DEF Idle
    <3>2. Maps(x, k) /\ ~Opening(t, x)
      BY <2>1, <2>2, <3>1 DEF Maps, Carries, Opening
    <3> QED
      BY <1>2, <2>1, <3>2 DEF Linked, Younger
  <2>4. CASE thread'[t] = Idle
    BY <2>3, <2>4 DEF Lone, Past, Sound, Active, Measured, Idle
  <2>5. CASE thread'[t].pc = "return" /\ SameCall(t) /\ thread'[t].base = thread[t].base
    BY <1>5, <1>6, <2>1, <2>3, <2>5 DEF Lone
  <2> QED
    BY <2>2, <2>4, <2>5
<1> QED
  BY <1>7, <1>8, <1>9, <1>10, <1>11, <1>12 DEF ProbeStep

\* Every step keeps the invariant.
LEMMA AgeNext == AgeInv /\ [Next]_vars => AgeInv'
<1> SUFFICES ASSUME AgeInv, [Next]_vars PROVE AgeInv'
  OBVIOUS
<1>1. Inv /\ Awake /\ Dated /\ Kin /\ \A u \in Threads : OnlyThread(u) => Lone(u)
  BY DEF AgeInv
<1>2. Inv'
  BY <1>1, InvNext
<1>3. ASSUME NEW t \in Threads, ProbeStep(t) PROVE AgeInv'
  <2>1. Dated' /\ Kin' /\ Awake'
    BY <1>3, AgeStepFacts
  <2>2. ASSUME NEW u \in Threads, OnlyThread(u) PROVE Lone(u)'
    <3>1. CASE u = t
      BY <1>1, <1>3, <2>2, <3>1, LoneStep
    <3>2. CASE u # t
      <4>1. Pid(u) # Pid(t) /\ thread'[u] = thread[u] /\ UNCHANGED opened
        BY <1>1, <1>3, <2>2, <3>2, StepFrame DEF OnlyThread, Apart
      <4>2. /\ \A k \in DOMAIN connections' :
                 k[1] = Pid(u) => k \in DOMAIN connections /\ connections'[k] = connections[k]
            /\ \A x \in DOMAIN socket_to_conn' :
                 x[1] = Pid(u) => /\ x \in DOMAIN socket_to_conn
                                  /\ socket_to_conn'[x] = socket_to_conn[x]
        BY <1>1, <1>3, <4>1, StepFrame
      <4>3. Lone(u) /\ (Measured(u) => Active(u))
        BY <1>1, <2>2 DEF Awake
      <4> QED
        BY <1>1, <4>1, <4>2, <4>3, Bystander
    <3> QED
      BY <3>1, <3>2
  <2> QED
    BY <1>2, <2>1, <2>2 DEF AgeInv, OnlyThread
<1>4. ASSUME UNCHANGED <<connections, socket_to_conn, thread, opened>>, now' >= now, now' \in Nat
      PROVE  AgeInv'
  <2>1. Dated'
    <3>1. now \in Nat
      BY <1>1, Clocks
    <3>2. \A t \in Threads : thread[t].ts =< now'
      BY <1>1, <1>4, <3>1, Clocks DEF Dated
    <3>3. \A x \in SockKeys : opened[x] =< now'
      BY <1>1, <1>4, <3>1, Clocks DEF Dated
    <3>4. \A k \in DOMAIN connections : connections[k].connect_ts =< now'
      BY <1>1, <1>4, <3>1, Clocks DEF Dated
    <3> QED
      BY <1>4, <3>2, <3>3, <3>4 DEF Dated
  <2>2. Awake' /\ Kin'
    BY <1>1, <1>4 DEF Awake, Kin, Measured, Active
  <2>3. ASSUME NEW u \in Threads, OnlyThread(u) PROVE Lone(u)'
    BY <1>1, <1>4, <2>3, Bystander DEF Awake
  <2> QED
    BY <1>2, <2>1, <2>2, <2>3 DEF AgeInv, OnlyThread
<1>5. ASSUME NEW s \in Socks, NEW p \in Pids, ShareSocket(s, p) \/ DropSocket(s, p) PROVE AgeInv'
  BY <1>1, <1>4, <1>5, Clocks DEF ShareSocket, DropSocket
<1>6. CASE Tick
  BY <1>1, <1>4, <1>6, Clocks DEF Tick
<1>7. CASE UNCHANGED vars
  BY <1>1, <1>4, <1>7, Clocks DEF vars
<1> QED
  BY <1>3, <1>5, <1>6, <1>7, AgeEnter DEF Next

\* In a process with one thread, the duration_ns that tcp_sendmsg, udp_sendmsg and
\* tcp_cleanup_rbuf compute (event.timestamp - conn_info->connect_ts) never wraps
\* around and never exceeds the time the socket has been open, however the probes of
\* other processes run and wherever the file positions put the keys.
THEOREM DurationsNeverOverstated == Spec => []NeverOverstated
<1>1. AgeInv => NeverOverstated
  BY DEF AgeInv, Lone, Sound, NeverOverstated
<1> QED
  BY <1>1, AgeInit, AgeNext, PTL DEF Spec

-----------------------------------------------------------------------------
(* Which sockets the entries of socket_to_conn belong to.  The kernel lets *)
(* nobody else into a socket while it is closed, so tcp_close deletes what *)
(* it finds before the address can be used again.                          *)

\* The thread is in tcp_close.
Closes(u) == Active(u) /\ thread[u].call = "close"

\* A socket that is closed has no users, and no other thread is in a call on it.
Sole ==
    \A u \in Threads : Closes(u) =>
        /\ users[thread[u].sock] = {}
        /\ \A v \in Threads \ {u} : Active(v) => thread[v].sock # thread[u].sock

\* Only tcp_close deletes.
Deleting == \A u \in Threads : thread[u].pc \in {"del_conn", "del_sock"} => Closes(u)

\* A thread that connects or accepts uses a socket its process holds.
Owns ==
    \A u \in Threads : thread[u].pc \in {"put_conn", "put_sock"} =>
        Pid(u) \in users[thread[u].sock] /\ opened[SockKey(u)] # NoTime

\* tcp_close has still to forget the socket of x.
Closing(x) ==
    \E u \in Threads : /\ Closes(u) /\ SockKey(u) = x
                       /\ thread[u].pc \in {"get_sock", "del_conn", "del_sock"}

\* The process of x holds its socket.
Settled(x) == users[x[2]] # {} /\ opened[x] # NoTime

Remembered == ~excused => \A x \in DOMAIN socket_to_conn : Settled(x) \/ Closing(x)

\* A thread that measures does so on a socket its process opened.
Known ==
    ~excused => \A u \in Threads :
        thread[u].pc = "get_conn" \/ Measured(u) => opened[SockKey(u)] # NoTime

SockInv == Inv /\ Awake /\ Sole /\ Deleting /\ Owns /\ Remembered /\ Known

\* At first no probe runs and no socket is remembered.
LEMMA SockInit == Init => SockInv
<1> SUFFICES ASSUME Init PROVE SockInv
  OBVIOUS
<1>1. DOMAIN socket_to_conn = {} /\ \A t \in Threads : thread[t] = Idle
  BY DEF Init
<1>2. Awake /\ Sole /\ Deleting /\ Owns /\ Remembered /\ Known
  BY <1>1 DEF Awake, Sole, Deleting, Owns, Remembered, Known, Closes, Measured, Active, Idle
<1> QED
  BY <1>2, InvInit DEF SockInv

\* The types of what the sockets' properties are about.
LEMMA SockTypes ==
    ASSUME Inv
    PROVE  /\ users \in [Socks -> SUBSET Pids] /\ opened \in [SockKeys -> Nat \cup {NoTime}]
           /\ now # NoTime
           /\ \A x \in DOMAIN socket_to_conn : x \in SockKeys /\ x[2] \in Socks
           /\ \A u \in Threads : Active(u) => /\ thread[u].sock \in Socks
                                              /\ SockKey(u) \in SockKeys
<1>1. /\ users \in [Socks -> SUBSET Pids] /\ opened \in [SockKeys -> Nat \cup {NoTime}]
      /\ now # NoTime /\ DOMAIN socket_to_conn \subseteq SockKeys
  BY DEF Inv, TypeOK, NoTime
<1>2. \A x \in SockKeys : x[2] \in Socks
  BY DEF SockKeys
<1>3. \A u \in Threads : Active(u) => thread[u].sock \in Socks /\ SockKey(u) \in SockKeys
  BY Hands DEF Inv, Busy, Active
<1> QED
  BY <1>1, <1>2, <1>3

\* While the other threads stay in their calls, a close that is not over goes on.
LEMMA ClosingKept ==
    ASSUME NEW t \in Threads, Apart(t), NEW x, Closing(x), ~Closes(t) \/ SockKey(t) # x
    PROVE  Closing(x)'
<1>1. PICK u \in Threads : /\ Closes(u) /\ SockKey(u) = x
                           /\ thread[u].pc \in {"get_sock", "del_conn", "del_sock"}
  BY DEF Closing
<1>2. u # t /\ thread'[u] = thread[u]
  BY <1>1 DEF Apart
<1>3. Closes(u)' /\ SockKey(u)' = x
  BY <1>1, <1>2 DEF Closes, Active, SockKey
<1> QED
  BY <1>1, <1>2, <1>3 DEF Closing

\* tcp_connect, tcp_accept and the calls that carry data come to a socket of which
\* nobody is closing the last reference.
LEMMA SockEnterOpen ==
    ASSUME SockInv, NEW t \in Threads, NEW s \in Socks,
           EnterConnect(t, s) \/ EnterAccept(t, s) \/ EnterData(t, s)
    PROVE  SockInv'
<1>1. Inv /\ Awake /\ Sole /\ Deleting /\ Owns /\ Remembered /\ Known
  BY DEF SockInv
<1>2. UNCHANGED <<socket_to_conn, excused>>
  BY DEF EnterConnect, EnterAccept, EnterData
<1>3. PICK call \in Calls \ {"close"}, step \in {"put_conn", "get_sock"} : Enter(t, call, s, step)
  BY DEF EnterConnect, EnterAccept, EnterData, Calls
<1>4. /\ thread[t].pc = "user" /\ Apart(t)
      /\ thread'[t].pc = step /\ thread'[t].call = call /\ thread'[t].sock = s
      /\ thread'[t].base = NoInfo
  BY <1>1, <1>3, EnterMoves
<1>5. /\ \A u \in Threads \ {t} : thread'[u] = thread[u]
      /\ \A u \in Threads \ {t} : SockKey(u)' = SockKey(u)
  BY <1>4 DEF Apart, SockKey
<1>6. /\ users \in [Socks -> SUBSET Pids] /\ opened \in [SockKeys -> Nat \cup {NoTime}]
      /\ now # NoTime
      /\ \A x \in DOMAIN socket_to_conn : x \in SockKeys /\ x[2] \in Socks
      /\ \A u \in Threads : Active(u) => thread[u].sock \in Socks /\ SockKey(u) \in SockKeys
  BY <1>1, SockTypes
<1>7. Pid(t) \in Pids /\ <<Pid(t), s>> \in SockKeys
  BY DEF Pids, SockKeys
<1>8. /\ \A z \in Socks : users[z] \subseteq users'[z] /\ (z # s => users'[z] = users[z])
      /\ \A x \in SockKeys : opened[x] # NoTime => opened'[x] # NoTime
      /\ step = "put_conn" => Pid(t) \in users'[s] /\ opened'[<<Pid(t), s>>] # NoTime
  <2>1. CASE EnterConnect(t, s)
    BY <1>6, <1>7, <2>1 DEF EnterConnect
  <2>2. CASE EnterAccept(t, s)
    BY <1>6, <1>7, <2>2 DEF EnterAccept
  <2>3. CASE EnterData(t, s)
    <3>1. UNCHANGED <<users, opened>> /\ step = "get_sock"
      BY <1>1, <1>4, <2>3, EnterMoves DEF EnterData
    <3> QED
      BY <3>1
  <2> QED
    BY <2>1, <2>2, <2>3
<1>9. \A u \in Threads : Closes(u) => thread[u].sock # s
  BY <1>1, <1>6 DEF Sole, EnterConnect, EnterAccept, EnterData, InCall
<1>10. Inv'
  BY <1>1, EnterInv
<1>11. Awake'
  BY <1>1, <1>4, <1>5 DEF Awake, Measured, Active
<1>12. ~Closes(t) /\ ~Closes(t)' /\ \A u \in Threads \ {t} : Closes(u)' = Closes(u)
                                                       /\ Active(u)' = Active(u)
  BY <1>4, <1>5 DEF Closes, Active
<1>13. Sole'
  <2> SUFFICES ASSUME NEW u \in Threads, Closes(u)'
               PROVE  /\ users'[thread'[u].sock] = {}
                      /\ \A v \in Threads \ {u} : Active(v)' => thread'[v].sock # thread'[u].sock
    BY DEF Sole
  <2>1. u # t /\ Closes(u) /\ thread'[u] = thread[u] /\ thread[u].sock # s
        /\ thread[u].sock \in Socks /\ users[thread[u].sock] = {}
        /\ \A v \in Threads \ {u} : Active(v) => thread[v].sock # thread[u].sock
    BY <1>1, <1>5, <1>6, <1>9, <1>12 DEF Sole, Closes
  <2>2. users'[thread'[u].sock] = {}
    BY <1>8, <2>1
  <2>3. ASSUME NEW v \in Threads \ {u}, Active(v)' PROVE thread'[v].sock # thread'[u].sock
    BY <1>4, <1>5, <1>12, <2>1, <2>3
  <2> QED
    BY <2>2, <2>3
<1>14. Deleting'
  BY <1>1, <1>4, <1>5, <1>12 DEF Deleting
<1>15. Owns'
  <2>1. step = "put_conn" => Pid(t) \in users'[s] /\ opened'[SockKey(t)'] # NoTime
    BY <1>4, <1>8 DEF SockKey
  <2>2. ASSUME NEW u \in Threads \ {t}, thread[u].pc \in {"put_conn", "put_sock"}
        PROVE  Pid(u) \in users'[thread[u].sock] /\ opened'[SockKey(u)] # NoTime
    BY <1>1, <1>6, <1>8, <2>2 DEF Owns, Active
  <2> QED
    BY <1>4, <1>5, <2>1, <2>2 DEF Owns
<1>16. Remembered'
  <2> SUFFICES ASSUME ~excused, NEW x \in DOMAIN socket_to_conn
               PROVE  Settled(x)' \/ Closing(x)'
    BY <1>2 DEF Remembered
  <2>1. CASE Settled(x)
    BY <1>6, <1>8, <2>1 DEF Settled
  <2>2. CASE Closing(x)
    BY <1>4, <1>12, <2>2, ClosingKept
  <2> QED
    BY <1>1, <2>1, <2>2 DEF Remembered
<1>17. Known'
  <2> SUFFICES ASSUME ~excused, NEW u \in Threads, thread'[u].pc = "get_conn" \/ Measured(u)'
               PROVE  opened'[SockKey(u)'] # NoTime
    BY <1>2 DEF Known
  <2>1. u # t
    BY <1>4 DEF Measured
  <2>2. /\ thread[u].pc = "get_conn" \/ Measured(u)
        /\ SockKey(u)' = SockKey(u)
    BY <1>5, <2>1 DEF Measured
  <2>3. SockKey(u) \in SockKeys /\ opened[SockKey(u)] # NoTime
    BY <1>1, <1>6, <2>2 DEF Known, Awake, Active
  <2> QED
    BY <1>8, <2>2, <2>3
<1> QED
  BY <1>10, <1>11, <1>13, <1>14, <1>15, <1>16, <1>17 DEF SockInv

\* tcp_close comes to a socket on which no thread is in a call; what the process itself
\* remembers of it is about to be deleted.
LEMMA SockEnterClose ==
    ASSUME SockInv, NEW t \in Threads, NEW s \in Socks, EnterClose(t, s)
    PROVE  SockInv'
<1>1. Inv /\ Awake /\ Sole /\ Deleting /\ Owns /\ Remembered /\ Known
  BY DEF SockInv
<1>2. /\ thread[t].pc = "user" /\ Apart(t)
      /\ thread'[t].pc = "get_sock" /\ thread'[t].call = "close" /\ thread'[t].sock = s
      /\ thread'[t].base = NoInfo
  BY <1>1, EnterMoves DEF EnterClose
<1>3. /\ \A u \in Threads \ {t} : thread'[u] = thread[u] /\ SockKey(u)' = SockKey(u)
      /\ SockKey(t)' = <<Pid(t), s>>
  BY <1>2 DEF Apart, SockKey
<1>4. /\ users \in [Socks -> SUBSET Pids]
      /\ \A x \in DOMAIN socket_to_conn : x \in SockKeys /\ x[2] \in Socks
      /\ \A u \in Threads : Active(u) => thread[u].sock \in Socks /\ SockKey(u) \in SockKeys
  BY <1>1, SockTypes
<1>5. /\ UNCHANGED socket_to_conn /\ users[s] = {Pid(t)}
      /\ users' = [users EXCEPT ![s] = {}]
      /\ excused' = (excused \/ \E p \in Pids \ {Pid(t)} : <<p, s>> \in DOMAIN socket_to_conn)
      /\ \A x \in SockKeys : x[2] # s => opened'[x] = opened[x]
      /\ \A u \in Threads : thread[u].sock # s
  BY DEF EnterClose, InCall
<1>6. users'[s] = {} /\ \A z \in Socks \ {s} : users'[z] = users[z]
  BY <1>4, <1>5
<1>7. Inv'
  BY <1>1, EnterInv
<1>8. Awake'
  BY <1>1, <1>2, <1>3 DEF Awake, Measured, Active
<1>9. \A u \in Threads \ {t} : Closes(u)' = Closes(u) /\ Active(u)' = Active(u)
  BY <1>3 DEF Closes, Active
<1>10. Sole'
  <2> SUFFICES ASSUME NEW u \in Threads, Closes(u)'
               PROVE  /\ users'[thread'[u].sock] = {}
                      /\ \A v \in Threads \ {u} : Active(v)' => thread'[v].sock # thread'[u].sock
    BY DEF Sole
  <2>1. CASE u = t
    BY <1>2, <1>3, <1>5, <1>6, <2>1
  <2>2. CASE u # t
    <3>1. Closes(u) /\ thread'[u] = thread[u] /\ thread[u].sock \in Socks \ {s}
          /\ users[thread[u].sock] = {}
          /\ \A v \in Threads \ {u} : Active(v) => thread[v].sock # thread[u].sock
      BY <1>1, <1>3, <1>4, <1>5, <1>9, <2>2 DEF Sole, Closes
    <3>2. users'[thread'[u].sock] = {}
      BY <1>6, <3>1
    <3>3. ASSUME NEW v \in Threads \ {u}, Active(v)' PROVE thread'[v].sock # thread'[u].sock
      BY <1>2, <1>3, <1>9, <3>1, <3>3
    <3> QED
      BY <3>2, <3>3
  <2> QED
    BY <2>1, <2>2
<1>11. Deleting'
  BY <1>1, <1>2, <1>3, <1>9 DEF Deleting
<1>12. \A u \in Threads \ {t} : Active(u) => /\ opened'[SockKey(u)] = opened[SockKey(u)]
                                             /\ users'[thread[u].sock] = users[thread[u].sock]
  BY <1>4, <1>5, <1>6 DEF SockKey
<1>13. Owns'
  BY <1>1, <1>2, <1>3, <1>12 DEF Owns, Active
<1>14. Remembered'
  <2> SUFFICES ASSUME ~excused', NEW x \in DOMAIN socket_to_conn
               PROVE  Settled(x)' \/ Closing(x)'
    BY <1>5 DEF Remembered
  <2>1. ~excused /\ x \in SockKeys /\ x[2] \in Socks
    BY <1>4, <1>5
  <2>2. CASE x[2] = s
    <3>1. x = <<x[1], s>> /\ x[1] \in Pids
      BY <2>1, <2>2 DEF SockKeys
    <3>2. x = <<Pid(t), s>>
      BY <1>5, <3>1
    <3> QED
      BY <1>2, <1>3, <3>2 DEF Closing, Closes, Active
  <2>3. CASE x[2] # s /\ Settled(x)
    BY <1>5, <1>6, <2>1, <2>3 DEF Settled
  <2>4. CASE Closing(x)
    BY <1>2, <2>4, ClosingKept DEF Closes, Active
  <2> QED
    BY <1>1, <2>1, <2>2, <2>3, <2>4 DEF Remembered
<1>15. Known'
  <2> SUFFICES ASSUME ~excused', NEW u \in Threads, thread'[u].pc = "get_conn" \/ Measured(u)'
               PROVE  opened'[SockKey(u)'] # NoTime
    BY DEF Known
  <2>1. u # t
    BY <1>2 DEF Measured
  <2>2. (thread[u].pc = "get_conn" \/ Measured(u)) /\ SockKey(u)' = SockKey(u) /\ ~excused
    BY <1>3, <1>5, <2>1 DEF Measured
  <2>3. Active(u) /\ opened[SockKey(u)] # NoTime
    BY <1>1, <2>2 DEF Known, Awake, Active
  <2> QED
    BY <1>12, <2>1, <2>2, <2>3
<1> QED
  BY <1>7, <1>8, <1>10, <1>11, <1>13, <1>14, <1>15 DEF SockInv

\* A step of a probe that keeps its call, or ends it, keeps the sockets to themselves.
LEMMA SoleKept ==
    ASSUME Sole, NEW t \in Threads, Apart(t), UNCHANGED users, Active(t),
           SameCall(t) \/ thread'[t].pc = "user"
    PROVE  Sole'
<1>1. \A u \in Threads \ {t} : thread'[u] = thread[u]
  BY DEF Apart
<1>2. \A u \in Threads : Active(u)' => /\ Active(u) /\ thread'[u].sock = thread[u].sock
                                       /\ thread'[u].call = thread[u].call
  BY <1>1 DEF Active, SameCall
<1>3. \A u \in Threads : Closes(u)' => Closes(u)
  BY <1>2 DEF Closes
<1> SUFFICES ASSUME NEW u \in Threads, Closes(u)'
             PROVE  /\ users'[thread'[u].sock] = {}
                    /\ \A v \in Threads \ {u} : Active(v)' => thread'[v].sock # thread'[u].sock
  BY DEF Sole
<1>4. Closes(u) /\ thread'[u].sock = thread[u].sock
  BY <1>2, <1>3 DEF Closes
<1>5. \A v \in Threads \ {u} : Active(v)' => thread'[v].sock # thread'[u].sock
  BY <1>2, <1>4 DEF Sole
<1> QED
  BY <1>4, <1>5 DEF Sole

\* A step of a probe: a connect or an accept remembers a socket its process holds, and a
\* close forgets the socket before it is over.
LEMMA SockStep ==
    ASSUME SockInv, NEW t \in Threads, ProbeStep(t)
    PROVE  SockInv'
<1>1. Inv /\ Awake /\ Sole /\ Deleting /\ Owns /\ Remembered /\ Known
  BY DEF SockInv
<1>2. UNCHANGED <<now, users, opened>> /\ Apart(t) /\ Active(t)
  BY <1>1, StepFrame
<1>3. \A u \in Threads \ {t} : /\ thread'[u] = thread[u] /\ SockKey(u)' = SockKey(u)
                               /\ Closes(u)' = Closes(u) /\ Measured(u)' = Measured(u)
                               /\ Active(u)' = Active(u)
  BY <1>2 DEF Apart, SockKey, Closes, Measured, Active
<1>4. SameCall(t) => SockKey(t)' = SockKey(t)
  BY DEF SameCall, SockKey
<1>5. Inv'
  BY <1>1, ProbeStepInv
<1>6. ASSUME \/ /\ SameCall(t) /\ thread'[t].base = thread[t].base
                /\ thread'[t].pc \in {"send", "return", "put_sock", "del_sock"}
                /\ thread'[t].pc = "put_sock" => thread[t].pc = "put_conn"
                /\ thread'[t].pc = "del_sock" => thread[t].pc = "del_conn"
             \/ thread'[t] = Idle,
             UNCHANGED excused,
             \A x \in DOMAIN socket_to_conn' :
                 /\ x \in DOMAIN socket_to_conn
                 /\ \/ thread[t].pc \notin {"get_sock", "del_conn", "del_sock"}
                    \/ SockKey(t) # x
                    \/ thread'[t].pc = "del_sock"
      PROVE  SockInv'
  <2>1. Awake' /\ Deleting' /\ Owns'
    <3>1. CASE thread'[t] = Idle
      BY <1>1, <1>2, <1>3, <3>1 DEF Awake, Deleting, Owns, Measured, Idle
    <3>2. CASE /\ SameCall(t) /\ thread'[t].base = thread[t].base
               /\ thread'[t].pc \in {"send", "return", "put_sock", "del_sock"}
               /\ thread'[t].pc = "put_sock" => thread[t].pc = "put_conn"
               /\ thread'[t].pc = "del_sock" => thread[t].pc = "del_conn"
      <4>1. Awake'
        BY <1>1, <1>3, <3>2 DEF Awake, Active
      <4>2. Deleting'
        BY <1>1, <1>3, <3>2 DEF Deleting, Closes, Active, SameCall
      <4>3. Owns'
        BY <1>1, <1>2, <1>3, <1>4, <3>2 DEF Owns, SameCall
      <4> QED
        BY <4>1, <4>2, <4>3
    <3> QED
      BY <1>6, <3>1, <3>2
  <2>2. Sole'
    BY <1>1, <1>2, <1>6, SoleKept DEF Idle
  <2>3. Remembered'
    <3> SUFFICES ASSUME ~excused, NEW x \in DOMAIN socket_to_conn'
                 PROVE  Settled(x)' \/ Closing(x)'
      BY <1>6 DEF Remembered
    <3>1. CASE Settled(x)
      BY <1>2, <3>1 DEF Settled
    <3>2. CASE Closing(x)
      <4>1. PICK u \in Threads : /\ Closes(u) /\ SockKey(u) = x
                                 /\ thread[u].pc \in {"get_sock", "del_conn", "del_sock"}
        BY <3>2 DEF Closing
      <4>2. CASE u # t
        BY <1>3, <4>1, <4>2 DEF Closing
      <4>3. CASE u = t
        <5>1. thread'[t].pc = "del_sock"
          BY <1>6, <4>1, <4>3
        <5>2. SameCall(t)
          BY <1>6, <5>1 DEF Idle
        <5> QED
          BY <1>4, <4>1, <4>3, <5>1, <5>2 DEF Closing, Closes, Active, SameCall
      <4> QED
        BY <4>2, <4>3
    <3> QED
      BY <1>1, <1>6, <3>1, <3>2 DEF Remembered
  <2>4. Known'
    <3> SUFFICES ASSUME ~excused, NEW u \in Threads, thread'[u].pc = "get_conn" \/ Measured(u)'
                 PROVE  opened'[SockKey(u)'] # NoTime
      BY <1>6 DEF Known
    <3>1. CASE u # t
      BY <1>1, <1>2, <1>3, <3>1 DEF Known
    <3>2. CASE u = t
      <4>1. SameCall(t) /\ Measured(t)
        BY <1>6, <3>2 DEF Measured, Idle
      <4> QED
        BY <1>1, <1>2, <1>4, <3>2, <4>1 DEF Known
    <3> QED
      BY <3>1, <3>2
  <2> QED
    BY <1>5, <2>1, <2>2, <2>3, <2>4 DEF SockInv
<1>7. CASE PutConn(t)
  <2>1. UNCHANGED <<socket_to_conn, excused>> /\ thread[t].pc = "put_conn"
    BY <1>7 DEF PutConn
  <2>2. SameCall(t) /\ thread'[t].pc = "put_sock" /\ thread'[t].base = thread[t].base
    BY <1>1, <1>7, GotoMoves DEF PutConn
  <2> QED
    BY <1>6, <2>1, <2>2
<1>8. CASE PutSock(t)
  <2>1. /\ socket_to_conn' = Updated(socket_to_conn, SockKey(t), ConnKeyOf(t))
        /\ (~excused' => ~excused) /\ thread[t].pc = "put_sock"
    BY <1>8 DEF PutSock
  <2>2. SameCall(t) /\ thread'[t].pc = "send" /\ thread'[t].base = thread[t].base
    BY <1>1, <1>8, GotoMoves DEF PutSock
  <2>3. Awake' /\ Deleting' /\ Owns' /\ Sole'
    <3>1. Awake'
      BY <1>1, <1>3, <2>2 DEF Awake, Active
    <3>2. Deleting'
      BY <1>1, <1>3, <2>2 DEF Deleting
    <3>3. Owns'
      BY <1>1, <1>2, <1>3, <2>2 DEF Owns
    <3> QED
      BY <1>1, <1>2, <2>2, <3>1, <3>2, <3>3, SoleKept
  <2>4. Remembered'
    <3> SUFFICES ASSUME ~excused', NEW x \in DOMAIN socket_to_conn'
                 PROVE  Settled(x)' \/ Closing(x)'
      BY DEF Remembered
    <3>1. x = SockKey(t) \/ x \in DOMAIN socket_to_conn
      BY <2>1, UpdatedEntries
    <3>2. CASE x = SockKey(t) \/ Settled(x)
      <4>1. Settled(x)
        BY <1>1, <2>1, <3>2 DEF Owns, Settled, SockKey
      <4> QED
        BY <1>2, <4>1 DEF Settled
    <3>3. CASE Closing(x)
      <4>1. PICK u \in Threads : /\ Closes(u) /\ SockKey(u) = x
                                 /\ thread[u].pc \in {"get_sock", "del_conn", "del_sock"}
        BY <3>3 DEF Closing
      <4>2. u # t
        BY <2>1, <4>1
      <4> QED
        BY <1>3, <4>1, <4>2 DEF Closing
    <3> QED
      BY <1>1, <2>1, <3>1, <3>2, <3>3 DEF Remembered
  <2>5. Known'
    <3> SUFFICES ASSUME ~excused', NEW u \in Threads, thread'[u].pc = "get_conn" \/ Measured(u)'
                 PROVE  opened'[SockKey(u)'] # NoTime
      BY DEF Known
    <3>1. SockKey(u)' = SockKey(u) /\ (thread[u].pc = "get_conn" \/ Measured(u))
      BY <1>3, <1>4, <2>2 DEF Measured
    <3> QED
      BY <1>1, <1>2, <2>1, <3>1 DEF Known
  <2> QED
    BY <1>5, <2>3, <2>4, <2>5 DEF SockInv
<1>9. CASE GetSock(t)
  <2>1. UNCHANGED <<connections, socket_to_conn, excused>>
    BY <1>9 DEF GetSock
  <2>2. /\ thread[t].pc = "get_sock" /\ SameCall(t) /\ thread'[t].base = thread[t].base
        /\ \/ thread'[t].pc = "send"
              /\ SockKey(t) \notin DOMAIN socket_to_conn
           \/ /\ SockKey(t) \in DOMAIN socket_to_conn
              /\ IF thread[t].call = "close" THEN thread'[t].pc = "del_conn"
                                             ELSE thread'[t].pc = "get_conn"
    BY <1>1, <1>9, GetSockMoves
  <2>3. Awake' /\ Deleting' /\ Owns' /\ Sole'
    <3>1. Awake'
      BY <1>1, <1>3, <2>2 DEF Awake, Active
    <3>2. Deleting'
      BY <1>1, <1>2, <1>3, <2>2 DEF Deleting, Closes, Active, SameCall
    <3>3. Owns'
      BY <1>1, <1>2, <1>3, <2>2 DEF Owns
    <3> QED
      BY <1>1, <1>2, <2>2, <3>1, <3>2, <3>3, SoleKept
  <2>4. Remembered'
    <3> SUFFICES ASSUME ~excused, NEW x \in DOMAIN socket_to_conn
                 PROVE  Settled(x)' \/ Closing(x)'
      BY <2>1 DEF Remembered
    <3>1. CASE Settled(x)
      BY <1>2, <3>1 DEF Settled
    <3>2. CASE Closing(x)
      <4>1. PICK u \in Threads : /\ Closes(u) /\ SockKey(u) = x
                                 /\ thread[u].pc \in {"get_sock", "del_conn", "del_sock"}
        BY <3>2 DEF Closing
      <4>2. CASE u # t
        BY <1>3, <4>1, <4>2 DEF Closing
      <4>3. CASE u = t
        <5>1. thread'[t].pc = "del_conn"
          BY <2>2, <4>1, <4>3 DEF Closes
        <5> QED
          BY <1>4, <2>2, <4>1, <4>3, <5>1 DEF Closing, Closes, Active, SameCall
      <4> QED
        BY <4>2, <4>3
    <3> QED
      BY <1>1, <3>1, <3>2 DEF Remembered
  <2>5. Known'
    <3> SUFFICES ASSUME ~excused, NEW u \in Threads, thread'[u].pc = "get_conn" \/ Measured(u)'
                 PROVE  opened'[SockKey(u)'] # NoTime
      BY <2>1 DEF Known
    <3>1. CASE u # t
      BY <1>1, <1>2, <1>3, <3>1 DEF Known
    <3>2. CASE u = t /\ Measured(t)
      BY <1>1, <1>2, <1>4, <2>2, <3>2 DEF Known
    <3>3. CASE u = t /\ thread'[t].pc = "get_conn"
      <4>1. SockKey(t) \in DOMAIN socket_to_conn /\ ~Closes(t)
        BY <2>2, <3>3 DEF Closes
      <4>2. ~Closing(SockKey(t))
        <5> SUFFICES ASSUME NEW v \in Threads, Closes(v), SockKey(v) = SockKey(t)
                     PROVE  FALSE
          BY DEF Closing
        <5>1. thread[v].sock = thread[t].sock
          BY DEF SockKey
        <5> QED
          BY <1>1, <1>2, <4>1, <5>1 DEF Sole
      <4>3. Settled(SockKey(t))
        BY <1>1, <4>1, <4>2 DEF Remembered
      <4> QED
        BY <1>2, <1>4, <2>2, <3>3, <4>3 DEF Settled
    <3> QED
      BY <2>2, <3>1, <3>2, <3>3 DEF Measured
  <2> QED
    BY <1>5, <2>3, <2>4, <2>5 DEF SockInv
<1>10. CASE GetConn(t)
  <2>1. UNCHANGED <<socket_to_conn, excused>>
    BY <1>10 DEF GetConn
  <2>2. thread[t].pc = "get_conn" /\ thread'[t].pc = "send" /\ SameCall(t)
    BY <1>1, <1>10, GetConnMoves
  <2>3. Awake' /\ Deleting' /\ Owns' /\ Sole'
    <3>1. Awake'
      BY <1>1, <1>3, <2>2 DEF Awake, Active
    <3>2. Deleting'
      BY <1>1, <1>3, <2>2 DEF Deleting
    <3>3. Owns'
      BY <1>1, <1>2, <1>3, <2>2 DEF Owns
    <3> QED
      BY <1>1, <1>2, <2>2, <3>1, <3>2, <3>3, SoleKept
  <2>4. Remembered'
    <3> SUFFICES ASSUME ~excused, NEW x \in DOMAIN socket_to_conn
                 PROVE  Settled(x)' \/ Closing(x)'
      BY <2>1 DEF Remembered
    <3>1. CASE Settled(x)
      BY <1>2, <3>1 DEF Settled
    <3>2. CASE Closing(x)
      <4>1. PICK u \in Threads : /\ Closes(u) /\ SockKey(u) = x
                                 /\ thread[u].pc \in {"get_sock", "del_conn", "del_sock"}
        BY <3>2 DEF Closing
      <4>2. u # t
        BY <2>2, <4>1
      <4> QED
        BY <1>3, <4>1, <4>2 DEF Closing
    <3> QED
      BY <1>1, <3>1, <3>2 DEF Remembered
  <2>5. Known'
    <3> SUFFICES ASSUME ~excused, NEW u \in Threads, thread'[u].pc = "get_conn" \/ Measured(u)'
                 PROVE  opened'[SockKey(u)'] # NoTime
      BY <2>1 DEF Known
    <3>1. SockKey(u)' = SockKey(u) /\ (thread[u].pc = "get_conn" \/ Measured(u))
      BY <1>3, <1>4, <2>2
    <3> QED
      BY <1>1, <1>2, <3>1 DEF Known
  <2> QED
    BY <1>5, <2>3, <2>4, <2>5 DEF SockInv
<1>11. CASE DelConn(t)
  <2>1. UNCHANGED <<socket_to_conn, excused>> /\ thread[t].pc = "del_conn"
    BY <1>11 DEF DelConn
  <2>2. SameCall(t) /\ thread'[t].pc = "del_sock" /\ thread'[t].base = thread[t].base
    BY <1>1, <1>11, GotoMoves DEF DelConn
  <2> QED
    BY <1>6, <2>1, <2>2
<1>12. CASE DelSock(t)
  <2>1. UNCHANGED excused /\ thread[t].pc = "del_sock"
        /\ \A x \in DOMAIN socket_to_conn' : x \in DOMAIN socket_to_conn /\ x # SockKey(t)
    BY <1>12 DEF DelSock, Deleted
  <2>2. SameCall(t) /\ thread'[t].pc = "send" /\ thread'[t].base = thread[t].base
    BY <1>1, <1>12, GotoMoves DEF DelSock
  <2> QED
    BY <1>6, <2>1, <2>2
<1>13. CASE SendEvent(t) \/ ConnectReturns(t)
  <2>1. UNCHANGED <<socket_to_conn, excused>>
    BY <1>13 DEF SendEvent, ConnectReturns
  <2>2. /\ thread[t].pc \in {"send", "return"}
        /\ \/ thread'[t] = Idle
           \/ thread'[t].pc = "return" /\ SameCall(t) /\ thread'[t].base = thread[t].base
    BY <1>1, <1>13, FinishMoves
  <2> QED
    BY <1>6, <2>1, <2>2
<1> QED
  BY <1>7, <1>8, <1>9, <1>10, <1>11, <1>12, <1>13 DEF ProbeStep

\* A socket that is inherited, or dropped while others hold it, is not being closed.
LEMMA SockShare ==
    ASSUME SockInv, NEW s \in Socks, NEW p \in Pids, ShareSocket(s, p) \/ DropSocket(s, p)
    PROVE  SockInv'
<1>1. Inv /\ Awake /\ Sole /\ Deleting /\ Owns /\ Remembered /\ Known
  BY DEF SockInv
<1>2. /\ UNCHANGED <<now, connections, socket_to_conn, thread, opened, excused>>
      /\ users[s] # {}
  BY DEF ShareSocket, DropSocket
<1>3. /\ users \in [Socks -> SUBSET Pids]
      /\ \A x \in DOMAIN socket_to_conn : x \in SockKeys /\ x[2] \in Socks
      /\ \A u \in Threads : Active(u) => thread[u].sock \in Socks /\ SockKey(u) \in SockKeys
  BY <1>1, SockTypes
<1>4. /\ \A z \in Socks : users[z] # {} => users'[z] # {}
      /\ \A z \in Socks : users[z] = {} => users'[z] = {}
      /\ \A u \in Threads : thread[u].sock \in Socks /\ Pid(u) \in users[thread[u].sock]
                              => Pid(u) \in users'[thread[u].sock]
  <2>1. CASE ShareSocket(s, p)
    BY <1>3, <2>1 DEF ShareSocket
  <2>2. CASE DropSocket(s, p)
    BY <1>3, <2>2 DEF DropSocket
  <2> QED
    BY <2>1, <2>2
<1>5. Inv'
  BY <1>1, InvNext DEF Next
<1>6. \A u \in Threads : /\ Closes(u)' = Closes(u) /\ Measured(u)' = Measured(u)
                         /\ Active(u)' = Active(u) /\ SockKey(u)' = SockKey(u)
  BY <1>2 DEF Closes, Measured, Active, SockKey
<1>7. Awake' /\ Deleting'
  BY <1>1, <1>2, <1>6 DEF Awake, Deleting
<1>8. Sole'
  BY <1>1, <1>2, <1>3, <1>4, <1>6 DEF Sole, Closes
<1>9. Owns'
  BY <1>1, <1>2, <1>3, <1>4, <1>6 DEF Owns, Active
<1>10. Remembered'
  <2> SUFFICES ASSUME ~excused, NEW x \in DOMAIN socket_to_conn
               PROVE  Settled(x)' \/ Closing(x)'
    BY <1>2 DEF Remembered
  <2>1. CASE Settled(x)
    BY <1>2, <1>3, <1>4, <2>1 DEF Settled
  <2>2. CASE Closing(x)
    BY <1>2, <1>6, <2>2 DEF Closing
  <2> QED
    BY <1>1, <2>1, <2>2 DEF Remembered
<1>11. Known'
  BY <1>1, <1>2, <1>6 DEF Known
<1> QED
  BY <1>5, <1>7, <1>8, <1>9, <1>10, <1>11 DEF SockInv

\* Every step keeps the invariant.
LEMMA SockNext == SockInv /\ [Next]_vars => SockInv'
<1> SUFFICES ASSUME SockInv, [Next]_vars PROVE SockInv'
  OBVIOUS
<1>1. CASE Tick \/ UNCHANGED vars
  <2>1. UNCHANGED <<connections, socket_to_conn, thread, users, opened, excused>> /\ Inv'
    BY <1>1, InvNext DEF Tick, vars, SockInv
  <2> QED
    BY <2>1 DEF SockInv, Awake, Sole, Deleting, Owns, Remembered, Known, Settled, Closing,
                Closes, Measured, Active, SockKey
<1> QED
  BY <1>1, SockEnterOpen, SockEnterClose, SockStep, SockShare DEF Next

\* A send or a receive is measured only on a socket its own process opened (the lookup in
\* socket_to_conn of tcp_sendmsg, udp_sendmsg and tcp_cleanup_rbuf after the delete of
\* tcp_close), however the threads interleave and whatever the maps' size.
THEOREM MeasuredOnOwnSocket == Spec => []MeasuredSocketIsOwn
<1>1. SockInv => MeasuredSocketIsOwn
  BY DEF SockInv, Known, MeasuredSocketIsOwn
<1> QED
  BY <1>1, SockInit, SockNext, PTL DEF Spec

-----------------------------------------------------------------------------
(* That the maps leak nothing.  Every entry of connections is reached from *)
(* an entry of socket_to_conn that is not about to be deleted, or from the *)
(* thread that is about to write one.  This needs the keys of a process to *)
(* be one: with two, the connect of a socket that was accepted would turn  *)
(* its entry of socket_to_conn away from the key the accept wrote.         *)

\* The file of a socket has no position: f_pos is 0.
AllAtZero == \A s \in Socks : FilePos(s) = 0

\* All sockets of a process lead to one key.
OneKey == \A x \in DOMAIN socket_to_conn : socket_to_conn[x] = <<x[1], 0>>

\* tcp_close has deleted the entry the socket of x leads to.
Leaving(x) == \E u \in Threads : thread[u].pc = "del_sock" /\ SockKey(u) = x

\* What tcp_close found in socket_to_conn is there until tcp_close deletes it.
Found ==
    \A u \in Threads : thread[u].pc \in {"del_conn", "del_sock"} =>
        /\ SockKey(u) \in DOMAIN socket_to_conn
        /\ socket_to_conn[SockKey(u)] = thread[u].key

\* A socket that stays leads to k.
Anchored(k) == \E x \in DOMAIN socket_to_conn : socket_to_conn[x] = k /\ ~Leaving(x)

\* A thread is about to make its socket lead to k.
Promised(k) == \E u \in Threads : thread[u].pc = "put_sock" /\ ConnKeyOf(u) = k

Reached == ~excused => \A k \in DOMAIN connections : Anchored(k) \/ Promised(k)

ReachInv == SockInv /\ OneKey /\ Found /\ Reached

\* At first the maps are empty.
LEMMA ReachInit == Init => ReachInv
<1> SUFFICES ASSUME Init PROVE ReachInv
  OBVIOUS
<1>1. /\ DOMAIN socket_to_conn = {} /\ DOMAIN connections = {}
      /\ \A t \in Threads : thread[t] = Idle
  BY DEF Init
<1>2. OneKey /\ Found /\ Reached
  BY <1>1 DEF OneKey, Found, Reached, Idle
<1> QED
  BY <1>2, SockInit DEF ReachInv

\* A thread that enters a probe, or a process that comes to a socket or leaves it,
\* disturbs no entry.
LEMMA ReachKept ==
    ASSUME ReachInv, SockInv', UNCHANGED <<connections, socket_to_conn>>, ~excused' => ~excused,
           \A u \in Threads :
               \/ thread'[u] = thread[u]
               \/ /\ thread[u].pc \in {"user", "get_conn", "send", "return"}
                  /\ thread'[u].pc \notin {"put_sock", "del_conn", "del_sock"}
    PROVE  ReachInv'
<1>1. OneKey /\ Found /\ Reached
  BY DEF ReachInv
<1>2. \A u \in Threads :
         /\ thread[u].pc \in {"put_sock", "del_conn", "del_sock"} => thread'[u] = thread[u]
         /\ thread'[u].pc \in {"put_sock", "del_conn", "del_sock"} => thread'[u] = thread[u]
         /\ thread'[u] = thread[u] => /\ SockKey(u)' = SockKey(u)
                                      /\ ConnKeyOf(u)' = ConnKeyOf(u)
  BY DEF SockKey, ConnKeyOf
<1>3. OneKey' /\ Found'
  BY <1>1, <1>2 DEF OneKey, Found
<1>4. \A x : Leaving(x)' => Leaving(x)
  BY <1>2 DEF Leaving
<1>5. ASSUME NEW k, Anchored(k) PROVE Anchored(k)'
  BY <1>4, <1>5 DEF Anchored
<1>6. ASSUME NEW k, Promised(k) PROVE Promised(k)'
  BY <1>2, <1>6 DEF Promised
<1>7. Reached'
  BY <1>1, <1>5, <1>6 DEF Reached
<1> QED
  BY <1>3, <1>7 DEF ReachInv

\* A step of a probe: what a connect or an accept writes is reached from its socket, and
\* tcp_close deletes the entry before the way to it.
LEMMA ReachStep ==
    ASSUME AllAtZero, ReachInv, NEW t \in Threads, ProbeStep(t)
    PROVE  ReachInv'
<1>1. /\ SockInv /\ OneKey /\ Found /\ Reached
      /\ Inv /\ Sole /\ Deleting
  BY DEF ReachInv, SockInv
<1>2. /\ SockInv' /\ Apart(t) /\ Active(t)
  BY <1>1, SockStep, StepFrame
<1>3. /\ \A u \in Threads \ {t} : /\ thread'[u] = thread[u] /\ SockKey(u)' = SockKey(u)
                                  /\ ConnKeyOf(u)' = ConnKeyOf(u)
      /\ SameCall(t) => SockKey(t)' = SockKey(t) /\ ConnKeyOf(t)' = ConnKeyOf(t)
  BY <1>2 DEF Apart, SockKey, ConnKeyOf, SameCall
<1>4. \A u \in Threads \ {t} :
         thread[u].pc \in {"del_conn", "del_sock"} => SockKey(u) # SockKey(t)
  BY <1>1, <1>2 DEF Deleting, Sole, SockKey
<1>5. ConnKeyOf(t) = <<Pid(t), 0>> /\ SockKey(t)[1] = Pid(t)
  <2>1. thread[t].sock \in Socks
    BY <1>1, <1>2 DEF Inv, Busy, Active
  <2> QED
    BY <2>1 DEF AllAtZero, ConnKeyOf, SockKey
<1>6. CASE PutConn(t)
  <2> DEFINE v == [connect_ts |-> thread[t].ts, by |-> t]
  <2>1. /\ connections' = Updated(connections, ConnKeyOf(t), v)
        /\ UNCHANGED <<socket_to_conn, excused>> /\ thread[t].pc = "put_conn"
    BY <1>6 DEF PutConn
  <2>2. SameCall(t) /\ thread'[t].pc = "put_sock"
    BY <1>1, <1>6, GotoMoves DEF PutConn
  <2> HIDE DEF v
  <2>3. OneKey' /\ Found'
    BY <1>1, <1>3, <2>1, <2>2 DEF OneKey, Found
  <2>4. \A x : Leaving(x)' => Leaving(x)
    BY <1>3, <2>2 DEF Leaving
  <2>5. ASSUME NEW k, Anchored(k) PROVE Anchored(k)'
    BY <2>1, <2>4, <2>5 DEF Anchored
  <2>6. ASSUME NEW k, Promised(k) \/ k = ConnKeyOf(t) PROVE Promised(k)'
    BY <1>3, <2>1, <2>2, <2>6 DEF Promised
  <2>7. \A k \in DOMAIN connections' : k = ConnKeyOf(t) \/ k \in DOMAIN connections
    BY <2>1, UpdatedEntries
  <2>8. Reached'
    BY <1>1, <2>1, <2>5, <2>6, <2>7 DEF Reached
  <2> QED
    BY <1>2, <2>3, <2>8 DEF ReachInv
<1>7. CASE PutSock(t)
  <2>1. /\ socket_to_conn' = Updated(socket_to_conn, SockKey(t), ConnKeyOf(t))
        /\ UNCHANGED connections /\ thread[t].pc = "put_sock"
        /\ excused' = (excused \/ ~Fits(socket_to_conn, SockKey(t)))
    BY <1>7 DEF PutSock
  <2>2. SameCall(t) /\ thread'[t].pc = "send"
    BY <1>1, <1>7, GotoMoves DEF PutSock
  <2>3. \A x : /\ x \in DOMAIN socket_to_conn' =>
                    \/ x = SockKey(t) /\ socket_to_conn'[x] = ConnKeyOf(t)
                    \/ x \in DOMAIN socket_to_conn /\ socket_to_conn'[x] = socket_to_conn[x]
               /\ x \in DOMAIN socket_to_conn => x \in DOMAIN socket_to_conn'
               /\ x \in DOMAIN socket_to_conn /\ x # SockKey(t) =>
                    socket_to_conn'[x] = socket_to_conn[x]
    BY <2>1, UpdatedEntries
  <2>4. OneKey'
    BY <1>1, <1>5, <2>3 DEF OneKey
  <2>5. Found'
    BY <1>1, <1>3, <1>4, <2>2, <2>3 DEF Found
  <2>6. \A x : Leaving(x)' => Leaving(x)
    BY <1>3, <2>2 DEF Leaving
  <2>7. ~Leaving(SockKey(t))
    BY <1>4, <2>1 DEF Leaving
  <2>8. ASSUME NEW k, Anchored(k) PROVE Anchored(k)'
    <3>1. PICK x \in DOMAIN socket_to_conn : socket_to_conn[x] = k /\ ~Leaving(x)
      BY <2>8 DEF Anchored
    <3>2. x \in DOMAIN socket_to_conn' /\ socket_to_conn'[x] = k
      BY <1>1, <1>5, <2>3, <3>1 DEF OneKey
    <3> QED
      BY <2>6, <3>1, <3>2 DEF Anchored
  <2>9. ASSUME ~excused', NEW k, k = ConnKeyOf(t) PROVE Anchored(k)'
    <3>1. Fits(socket_to_conn, SockKey(t))
      BY <2>1, <2>9
    <3>2. SockKey(t) \in DOMAIN socket_to_conn'
      BY <2>1, <3>1, UpdatedEntries
    <3>3. socket_to_conn'[SockKey(t)] = k
      BY <1>1, <1>5, <2>3, <2>9, <3>2 DEF OneKey
    <3> QED
      BY <2>6, <2>7, <3>2, <3>3 DEF Anchored
  <2>10. ASSUME ~excused', NEW k, Promised(k) PROVE Anchored(k)' \/ Promised(k)'
    <3>1. PICK u \in Threads : thread[u].pc = "put_sock" /\ ConnKeyOf(u) = k
      BY <2>10 DEF Promised
    <3>2. CASE u = t
      BY <1>3, <2>2, <2>9, <2>10, <3>1, <3>2
    <3>3. CASE u # t
      BY <1>3, <3>1, <3>3 DEF Promised
    <3> QED
      BY <3>2, <3>3
  <2>11. Reached'
    BY <1>1, <2>1, <2>8, <2>10 DEF Reached
  <2> QED
    BY <1>2, <2>4, <2>5, <2>11 DEF ReachInv
<1>8. CASE GetSock(t)
  <2>1. UNCHANGED <<connections, socket_to_conn, excused>>
    BY <1>8 DEF GetSock
  <2>2. /\ thread[t].pc = "get_sock" /\ SameCall(t)
        /\ thread'[t].pc \in {"send", "get_conn", "del_conn"}
        /\ thread'[t].pc = "del_conn" =>
             /\ SockKey(t) \in DOMAIN socket_to_conn
             /\ thread'[t].key = socket_to_conn[SockKey(t)]
    BY <1>1, <1>8, GetSockMoves
  <2>3. OneKey' /\ Found'
    BY <1>1, <1>3, <2>1, <2>2 DEF OneKey, Found
  <2>4. \A x : Leaving(x)' => Leaving(x)
    BY <1>3, <2>2 DEF Leaving
  <2>5. ASSUME NEW k, Anchored(k) PROVE Anchored(k)'
    BY <2>1, <2>4, <2>5 DEF Anchored
  <2>6. ASSUME NEW k, Promised(k) PROVE Promised(k)'
    BY <1>3, <2>2, <2>6 DEF Promised
  <2>7. Reached'
    BY <1>1, <2>1, <2>5, <2>6 DEF Reached
  <2> QED
    BY <1>2, <2>3, <2>7 DEF ReachInv
<1>9. CASE GetConn(t)
  <2>1. UNCHANGED <<connections, socket_to_conn, excused>>
    BY <1>9 DEF GetConn
  <2>2. thread[t].pc = "get_conn" /\ thread'[t].pc = "send"
    BY <1>1, <1>9, GetConnMoves
  <2> QED
    BY <1>2, <1>3, <2>1, <2>2, ReachKept
<1>10. CASE DelConn(t)
  <2>1. /\ connections' = Deleted(connections, thread[t].key)
        /\ UNCHANGED <<socket_to_conn, excused>> /\ thread[t].pc = "del_conn"
    BY <1>10 DEF DelConn
  <2>2. SameCall(t) /\ thread'[t].pc = "del_sock" /\ thread'[t].key = thread[t].key
    BY <1>1, <1>10, GotoMoves DEF DelConn
  <2>3. OneKey' /\ Found'
    BY <1>1, <1>3, <2>1, <2>2 DEF OneKey, Found
  <2>4. \A x : Leaving(x)' => Leaving(x) \/ x = SockKey(t)
    BY <1>3, <2>2 DEF Leaving
  <2>5. ASSUME NEW k, k # thread[t].key, Anchored(k) PROVE Anchored(k)'
    <3>1. PICK x \in DOMAIN socket_to_conn : socket_to_conn[x] = k /\ ~Leaving(x)
      BY <2>5 DEF Anchored
    <3>2. x # SockKey(t)
      BY <1>1, <2>1, <2>5, <3>1 DEF Found
    <3> QED
      BY <2>1, <2>4, <3>1, <3>2 DEF Anchored
  <2>6. ASSUME NEW k, Promised(k) PROVE Promised(k)'
    BY <1>3, <2>1, <2>6 DEF Promised
  <2>7. \A k \in DOMAIN connections' : k \in DOMAIN connections /\ k # thread[t].key
    BY <2>1 DEF Deleted
  <2>8. Reached'
    BY <1>1, <2>1, <2>5, <2>6, <2>7 DEF Reached
  <2> QED
    BY <1>2, <2>3, <2>8 DEF ReachInv
<1>11. CASE DelSock(t)
  <2>1. UNCHANGED <<connections, excused>> /\ thread[t].pc = "del_sock"
    BY <1>11 DEF DelSock
  <2>2. SameCall(t) /\ thread'[t].pc = "send"
    BY <1>1, <1>11, GotoMoves DEF DelSock
  <2>3. \A x : /\ x \in DOMAIN socket_to_conn' <=> x \in DOMAIN socket_to_conn /\ x # SockKey(t)
               /\ x \in DOMAIN socket_to_conn' => socket_to_conn'[x] = socket_to_conn[x]
    BY <1>11 DEF DelSock, Deleted
  <2>4. OneKey'
    BY <1>1, <2>3 DEF OneKey
  <2>5. Found'
    BY <1>1, <1>3, <1>4, <2>2, <2>3 DEF Found
  <2>6. \A x : Leaving(x)' => Leaving(x)
    BY <1>3, <2>2 DEF Leaving
  <2>7. ASSUME NEW k, Anchored(k) PROVE Anchored(k)'
    <3>1. PICK x \in DOMAIN socket_to_conn : socket_to_conn[x] = k /\ ~Leaving(x)
      BY <2>7 DEF Anchored
    <3>2. x # SockKey(t)
      BY <2>1, <3>1 DEF Leaving
    <3> QED
      BY <2>3, <2>6, <3>1, <3>2 DEF Anchored
  <2>8. ASSUME NEW k, Promised(k) PROVE Promised(k)'
    BY <1>3, <2>1, <2>8 DEF Promised
  <2>9. Reached'
    BY <1>1, <2>1, <2>7, <2>8 DEF Reached
  <2> QED
    BY <1>2, <2>4, <2>5, <2>9 DEF ReachInv
<1>12. CASE SendEvent(t) \/ ConnectReturns(t)
  <2>1. UNCHANGED <<connections, socket_to_conn, excused>>
    BY <1>12 DEF SendEvent, ConnectReturns
  <2>2. thread[t].pc \in {"send", "return"} /\ thread'[t].pc \in {"user", "return"}
    BY <1>1, <1>12, FinishMoves DEF Idle
  <2> QED
    BY <1>2, <1>3, <2>1, <2>2, ReachKept
<1> QED
  BY <1>6, <1>7, <1>8, <1>9, <1>10, <1>11, <1>12 DEF ProbeStep

\* Every step keeps the invariant.
LEMMA ReachNext == AllAtZero /\ ReachInv /\ [Next]_vars => ReachInv'
<1> SUFFICES ASSUME AllAtZero, ReachInv, [Next]_vars PROVE ReachInv'
  OBVIOUS
<1>1. SockInv /\ Inv
  BY DEF ReachInv, SockInv
<1>2. SockInv'
  BY <1>1, SockNext
<1>3. ASSUME NEW t \in Threads, NEW s \in Socks,
             \/ EnterConnect(t, s) \/ EnterAccept(t, s) \/ EnterData(t, s) \/ EnterClose(t, s)
      PROVE  ReachInv'
  <2>1. /\ UNCHANGED <<connections, socket_to_conn>>
        /\ \/ UNCHANGED excused
           \/ excused' = (excused \/ \E p \in Pids \ {Pid(t)} : <<p, s>> \in DOMAIN socket_to_conn)
    BY <1>3 DEF EnterConnect, EnterAccept, EnterData, EnterClose
  <2>2. PICK call \in Calls, step \in {"put_conn", "get_sock"} : Enter(t, call, s, step)
    BY <1>3 DEF EnterConnect, EnterAccept, EnterData, EnterClose, Calls
  <2>3. thread[t].pc = "user" /\ Apart(t) /\ thread'[t].pc \in {"put_conn", "get_sock"}
    BY <1>1, <2>2, EnterMoves
  <2>4. \A u \in Threads :
            \/ thread'[u] = thread[u]
            \/ /\ thread[u].pc \in {"user", "get_conn", "send", "return"}
               /\ thread'[u].pc \notin {"put_sock", "del_conn", "del_sock"}
    BY <2>3 DEF Apart
  <2>5. ~excused' => ~excused
    BY <2>1
  <2> QED
    BY <1>2, <2>1, <2>4, <2>5, ReachKept
<1>4. CASE UNCHANGED <<connections, socket_to_conn, thread, excused>>
  BY <1>2, <1>4, ReachKept
<1>5. ASSUME NEW s \in Socks, NEW p \in Pids, ShareSocket(s, p) \/ DropSocket(s, p)
      PROVE  ReachInv'
  BY <1>4, <1>5 DEF ShareSocket, DropSocket
<1>6. CASE Tick \/ UNCHANGED vars
  BY <1>4, <1>6 DEF Tick, vars
<1> QED
  BY <1>3, <1>5, <1>6, ReachStep DEF Next

\* When no probe is under way every entry of the maps belongs to a socket that is open, so
\* that the tcp_close of that socket deletes it, provided that f_pos of every socket is 0,
\* as the kernel leaves it.
THEOREM NothingLeaks ==
    ASSUME AllAtZero
    PROVE  Spec => []NoLeak
<1>1. ASSUME ReachInv PROVE NoLeak
  <2> SUFFICES ASSUME ~excused, \A t \in Threads : thread[t].pc \in {"user", "return"}
               PROVE  /\ \A k \in DOMAIN socket_to_conn : users[k[2]] # {}
                      /\ \A k \in DOMAIN connections :
                          \E x \in DOMAIN socket_to_conn : socket_to_conn[x] = k
    BY DEF NoLeak
  <2>1. Remembered /\ Reached
    BY <1>1 DEF ReachInv, SockInv
  <2>2. \A x \in DOMAIN socket_to_conn : users[x[2]] # {}
    BY <2>1 DEF Remembered, Settled, Closing
  <2>3. \A k \in DOMAIN connections : Anchored(k)
    BY <2>1 DEF Reached, Promised
  <2> QED
    BY <2>2, <2>3 DEF Anchored
<1>2. ReachInv /\ [Next]_vars => ReachInv'
  BY ReachNext
<1> QED
  BY <1>1, <1>2, ReachInit, PTL DEF Spec
=============================================================================
