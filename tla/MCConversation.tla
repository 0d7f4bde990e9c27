---------------------------- MODULE MCConversation -----------------------------
(* Instances of Conversation for TLC.                                      *)
EXTENDS Conversation

CONSTANTS zero, h1

Message(start, size, id, status) ==
    [start |-> start, inner |-> "none", size |-> size, id |-> id, status |-> status,
     huge |-> FALSE]

\* A web service, a proxy in front of one, a gRPC service and a Redis server. A
\* request of 64 KiB is among them, a command with a number that is too large, and
\* replies that start as requests do.
MCDialogues ==
    {[port |-> 8080,
      requests |-> {Message("GET", 600, h1, 0), Message("PATCH", 1024, zero, 0),
                    Message("POST", 65536, h1, 0),
                    [Message("ENVY", 600, h1, 0) EXCEPT !.inner = "GET"]},
      replies |-> {Message("HTTP", 600, h1, 500)}],
     [port |-> 9000,
      requests |-> {Message("0", 600, h1, 0), Message("1", 600, zero, 0)},
      replies |-> {Message("0", 500, h1, 0), Message("1", 500, zero, 0)}],
     [port |-> 6379,
      requests |-> {Message("*", 600, zero, 0),
                    [Message("*", 600, zero, 0) EXCEPT !.huge = TRUE]},
      replies |-> {Message("*", 500, zero, 0), Message("$", 1100, zero, 0)}]}

\* An ordinary ephemeral port, one that is 8080 in the other byte order, and one
\* that gRPC servers use.
MCClientPorts == {40000, 36895, 50051}

MCAddress == [client |-> <<1, 2>>, server |-> <<3, 4>>]
=============================================================================
