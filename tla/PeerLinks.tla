------------------------------ MODULE PeerLinks ------------------------------
(***************************************************************************)
(* Links between a listening peer and the nodes that connect to it: the    *)
(* handshake of both sides (src/src/transport/unicast/transport.c), the    *)
(* accept task (unicast/accept.c), the peer list, and the read and lease   *)
(* tasks of a peer (unicast/read.c, unicast/lease.c).  The nodes are       *)
(* clients: they retry what is retryable and reopen what they have lost,   *)
(* as OpenSession and Reconnect say in detail.  The tasks of the listener  *)
(* run in turn on one thread, and the accept task blocks in the handshake; *)
(* the application sends from another thread.  The nodes may be builds     *)
(* that differ in what they announce.  The acceptor sends what is agreed   *)
(* and keeps none of it: its transport has its own resolution and batch    *)
(* size, and its peers have patch 0.                                       *)
(***************************************************************************)
EXTENDS Integers, Sequences, FiniteSets

CONSTANTS Nodes,       \* the nodes that connect
          Listener,
          Announces,   \* node -> [res, batch, patch]: Z_SN_RESOLUTION, Z_BATCH_UNICAST_SIZE, _Z_CURRENT_PATCH
          Conns,       \* sockets, used again when both ends have closed them
          MaxPeers,    \* Z_LISTEN_MAX_CONNECTION_NB
          MaxFaults,   \* bound on links that go dead, time-outs on live ones and refusals
          MaxSent      \* bound on the frames the listener sends

VARIABLES conn,        \* socket -> its two queues, who closed it, whether it is dead
          node,        \* node -> how far it is, its socket, what it took for agreed, its _sn_rx_reliable
          backlog,     \* sockets that wait to be accepted
          accepting,   \* the handshake of the accept task
          peers,       \* ztu->_peers
          snTx,        \* _sn_tx_reliable of the listener
          refused,     \* a frame of the first half of the range was taken for an old one
          faults

linkVars == <<conn, node, backlog, accepting, peers, snTx, refused, faults>>

LOCAL Sn == INSTANCE SeqNum WITH SnRes <- 1, InitialSn <- 0

\* _z_sn_max, scaled down.
SnMax(res) == 2^(res + 3) - 1

Free == [toL |-> <<>>, toN |-> <<>>, open |-> {}, dead |-> FALSE]
Idle == [pc |-> "idle"]
Lesser(a, b) == IF a < b THEN a ELSE b

LinksInit ==
    /\ conn = [c \in Conns |-> Free]
    /\ node = [n \in Nodes |-> Idle]
    /\ backlog = <<>> /\ accepting = Idle /\ peers = {} /\ snTx = 0 /\ refused = FALSE /\ faults = 0

\* A socket's end is closed, and what it had not read is gone.
CloseAt(side, c) == LET left == conn[c].open \ {side}
                    IN  IF left = {} THEN Free
                        ELSE [conn[c] EXCEPT !.open = left,
                                             !.toL = IF side = "L" THEN <<>> ELSE @,
                                             !.toN = IF side = "N" THEN <<>> ELSE @]

\* A message is lost when the link is dead or the other end closed.
Send(r, side, m) ==
    CASE r.dead \/ {"L", "N"} # r.open -> r
      [] OTHER -> IF side = "L" THEN [r EXCEPT !.toN = Append(@, m)] ELSE [r EXCEPT !.toL = Append(@, m)]

\* What a receive sees: the next message, the end of the stream, or nothing.
Incoming(c, mid) == conn[c].toL # <<>> /\ Head(conn[c].toL).mid = mid
Answer(c, mid)   == conn[c].toN # <<>> /\ Head(conn[c].toN).mid = mid
EndAtL(c)        == conn[c].toL = <<>> /\ ~conn[c].dead /\ "N" \notin conn[c].open
EndAtN(c)        == conn[c].toN = <<>> /\ ~conn[c].dead /\ "L" \notin conn[c].open

-----------------------------------------------------------------------------
(* The connecting node.                                                     *)

\* _z_open_link or _z_open_socket succeeds and InitSyn is sent.
Connect(n) ==
    /\ node[n].pc = "idle"
    /\ \E c \in Conns :
          /\ conn[c] = Free /\ \A d \in Conns : conn[d] = Free => c <= d
          /\ conn' = [conn EXCEPT ![c] = [Free EXCEPT !.open = {"L", "N"},
                          !.toL = <<[mid |-> "INIT_SYN", node |-> n, terms |-> Announces[n]]>>]]
          /\ node' = [node EXCEPT ![n] = [pc |-> "initAck", conn |-> c]]
          /\ backlog' = Append(backlog, c)
    /\ UNCHANGED <<accepting, peers, snTx, refused, faults>>

\* The answer to InitSyn: a value larger than the announced one is an error that
\* is not retried.
RecvInitAck(n) ==
    LET c == node[n].conn
        m == Head(conn[c].toN)
    IN  /\ node[n].pc = "initAck" /\ Answer(c, "INIT_ACK")
        /\ IF \A f \in {"res", "batch", "patch"} : m.terms[f] <= Announces[n][f]
           THEN /\ node' = [node EXCEPT ![n] = [pc |-> "openAck", conn |-> c, terms |-> m.terms]]
                /\ conn' = [conn EXCEPT ![c] = Send([@ EXCEPT !.toN = Tail(@)], "N", [mid |-> "OPEN_SYN", sn |-> 0])]
           ELSE /\ node' = [node EXCEPT ![n] = [pc |-> "failed"]]
                /\ conn' = [conn EXCEPT ![c] = CloseAt("N", c)]
        /\ UNCHANGED <<backlog, accepting, peers, snTx, refused, faults>>

\* Mutation: the first number to come is taken as one already received.
RecvOpenAckOffByOne(n) ==
    LET c == node[n].conn
    IN  /\ node[n].pc = "openAck" /\ conn[c].toN # <<>>
        /\ node' = [node EXCEPT ![n] = [pc |-> "open", conn |-> c, terms |-> node[n].terms, sn |-> Head(conn[c].toN).sn]]
        /\ conn' = [conn EXCEPT ![c].toN = Tail(@)]
        /\ UNCHANGED <<backlog, accepting, peers, snTx, refused, faults>>

\* The answer to OpenSyn ends the handshake: "as we had already received a message
\* with a SN equal to initial_sn - 1".  A message that is not an OpenAck is logged
\* and its error is overwritten: the link opens with what its zeroed body holds.
RecvOpenAck(n) ==
    LET c == node[n].conn
        m == Head(conn[c].toN)
    IN  /\ node[n].pc = "openAck" /\ conn[c].toN # <<>>
        /\ node' = [node EXCEPT ![n] = [pc |-> "open", conn |-> c, terms |-> node[n].terms,
                                        sn |-> Sn!Decrement(SnMax(node[n].terms.res), m.sn)]]
        /\ conn' = [conn EXCEPT ![c].toN = Tail(@)]
        /\ UNCHANGED <<backlog, accepting, peers, snTx, refused, faults>>

\* A frame of the listener: _z_unicast_handle_frame.
RecvFrame(n) ==
    LET c     == node[n].conn
        m     == Head(conn[c].toN)
        fresh == Sn!Precedes(SnMax(node[n].terms.res), node[n].sn, m.sn)
    IN  /\ node[n].pc = "open" /\ Answer(c, "FRAME")
        /\ node' = IF fresh THEN [node EXCEPT ![n].sn = m.sn] ELSE node
        /\ refused' = (refused \/ (~fresh /\ m.sn < Sn!Half(SnMax(node[n].terms.res))))
        /\ conn' = [conn EXCEPT ![c].toN = Tail(@)]
        /\ UNCHANGED <<backlog, accepting, peers, snTx, faults>>

\* The link fails: it is at its end, its lease has expired because it is dead,
\* or the deadline of the handshake passes.  The errors are all retried.
NodeFails(n) ==
    /\ node[n].pc \notin {"idle", "failed"}
    /\ LET c == node[n].conn
           due == EndAtN(c) \/ conn[c].dead
       IN  /\ due \/ (node[n].pc # "open" /\ conn[c].toN = <<>> /\ faults < MaxFaults)
           /\ faults' = IF due THEN faults ELSE faults + 1
           /\ conn' = [conn EXCEPT ![c] = CloseAt("N", c)]
    /\ node' = [node EXCEPT ![n] = Idle]
    /\ UNCHANGED <<backlog, accepting, peers, snTx, refused>>

\* The keep-alive task of the node.
KeepAlive(n) ==
    /\ node[n].pc = "open" /\ conn[node[n].conn].toL = <<>>
    /\ conn' = [conn EXCEPT ![node[n].conn] = Send(@, "N", [mid |-> "KEEP_ALIVE"])]
    /\ conn' # conn
    /\ UNCHANGED <<node, backlog, accepting, peers, snTx, refused, faults>>

\* The network fails without a word to either end.
LinkDies(c) ==
    /\ faults < MaxFaults /\ conn[c].open = {"L", "N"} /\ ~conn[c].dead
    /\ conn' = [conn EXCEPT ![c].dead = TRUE]
    /\ faults' = faults + 1
    /\ UNCHANGED <<node, backlog, accepting, peers, snTx, refused>>

-----------------------------------------------------------------------------
(* The listening peer.                                                      *)

\* _zp_unicast_accept_task_fn up to the handshake.
Accept ==
    /\ accepting.pc = "idle" /\ backlog # <<>>
    /\ LET c == Head(backlog)
       IN  IF Cardinality(peers) >= MaxPeers
           THEN conn' = [conn EXCEPT ![c] = CloseAt("L", c)] /\ UNCHANGED accepting
           ELSE accepting' = [pc |-> "initSyn", conn |-> c] /\ UNCHANGED conn
    /\ backlog' = Tail(backlog)
    /\ UNCHANGED <<node, peers, snTx, refused, faults>>

\* Mutation: the answer has what the acceptor would announce itself.
ListenInitSynKeeps ==
    LET c == accepting.conn
    IN  /\ accepting.pc = "initSyn" /\ Incoming(c, "INIT_SYN")
        /\ accepting' = [pc |-> "openSyn", conn |-> c, node |-> Head(conn[c].toL).node]
        /\ conn' = [conn EXCEPT ![c] = Send([@ EXCEPT !.toL = Tail(@)], "L",
                                            [mid |-> "INIT_ACK", terms |-> Announces[Listener]])]
        /\ UNCHANGED <<node, backlog, peers, snTx, refused, faults>>

\* _z_unicast_handshake_listen: InitSyn is answered with the lesser of each value,
ListenInitSyn ==
    LET c     == accepting.conn
        m     == Head(conn[c].toL)
        terms == [f \in {"res", "batch", "patch"} |-> Lesser(m.terms[f], Announces[Listener][f])]
    IN  /\ accepting.pc = "initSyn" /\ Incoming(c, "INIT_SYN")
        /\ accepting' = [pc |-> "openSyn", conn |-> c, node |-> m.node]
        /\ conn' = [conn EXCEPT ![c] = Send([@ EXCEPT !.toL = Tail(@)], "L", [mid |-> "INIT_ACK", terms |-> terms])]
        /\ UNCHANGED <<node, backlog, peers, snTx, refused, faults>>

\* ... OpenSyn with the initial number of a new parameter block, 0.
ListenOpenSyn ==
    LET c == accepting.conn
    IN  /\ accepting.pc = "openSyn" /\ Incoming(c, "OPEN_SYN")
        /\ accepting' = [accepting EXCEPT !.pc = "add"]
        /\ conn' = [conn EXCEPT ![c] = Send([@ EXCEPT !.toL = Tail(@)], "L", [mid |-> "OPEN_ACK", sn |-> 0])]
        /\ UNCHANGED <<node, backlog, peers, snTx, refused, faults>>

\* Mutation: the socket of a failed handshake is not closed.
HandshakeFailsOpen ==
    /\ accepting.pc \in {"initSyn", "openSyn", "refusing"}
    /\ accepting.pc = "refusing" \/ EndAtL(accepting.conn) \/ conn[accepting.conn].dead
    /\ accepting' = Idle
    /\ UNCHANGED <<conn, node, backlog, peers, snTx, refused, faults>>

\* A listener of another implementation refuses the link: it answers OpenSyn with
\* a CLOSE, and closes its end a little later.
ListenRefuses ==
    LET c == accepting.conn
    IN  /\ accepting.pc = "openSyn" /\ Incoming(c, "OPEN_SYN") /\ faults < MaxFaults
        /\ accepting' = [accepting EXCEPT !.pc = "refusing"]
        /\ conn' = [conn EXCEPT ![c] = Send([@ EXCEPT !.toL = Tail(@)], "L", [mid |-> "CLOSE", sn |-> 0])]
        /\ faults' = faults + 1
        /\ UNCHANGED <<node, backlog, peers, snTx, refused>>

\* The other end closed, or the deadline passes: the task closes the socket.
HandshakeFails ==
    /\ accepting.pc \in {"initSyn", "openSyn", "refusing"}
    /\ LET c   == accepting.conn
           due == accepting.pc = "refusing" \/ EndAtL(c) \/ conn[c].dead
       IN  /\ due \/ (conn[c].toL = <<>> /\ faults < MaxFaults)
           /\ faults' = IF due THEN faults ELSE faults + 1
           /\ conn' = [conn EXCEPT ![c] = CloseAt("L", c)]
    /\ accepting' = Idle
    /\ UNCHANGED <<node, backlog, peers, snTx, refused>>

\* _z_transport_peer_unicast_add, then the declarations are pushed to the peer in
\* a frame of its own.
AddPeer ==
    /\ accepting.pc = "add"
    /\ peers' = peers \cup {[conn |-> accepting.conn, node |-> accepting.node, received |-> TRUE]}
    /\ accepting' = Idle
    /\ IF snTx < MaxSent
       THEN /\ conn' = [conn EXCEPT ![accepting.conn] = Send(@, "L", [mid |-> "FRAME", sn |-> snTx])]
            /\ snTx' = Sn!Increment(SnMax(Announces[Listener].res), snTx)
       ELSE UNCHANGED <<conn, snTx>>
    /\ UNCHANGED <<node, backlog, refused, faults>>

\* The application sends to every peer.
Put ==
    /\ snTx < MaxSent /\ peers # {}
    /\ conn' = [c \in Conns |-> IF \E p \in peers : p.conn = c THEN Send(conn[c], "L", [mid |-> "FRAME", sn |-> snTx])
                                ELSE conn[c]]
    /\ snTx' = Sn!Increment(SnMax(Announces[Listener].res), snTx)
    /\ UNCHANGED <<node, backlog, accepting, peers, refused, faults>>

\* The read task, at a peer: a message, or the end of the stream.
ReadPeer(p) ==
    /\ accepting.pc = "idle" /\ p \in peers
    /\ \/ /\ conn[p.conn].toL # <<>>
          /\ peers' = (peers \ {p}) \cup {[p EXCEPT !.received = TRUE]}
          /\ conn' = [conn EXCEPT ![p.conn].toL = Tail(@)]
       \/ /\ EndAtL(p.conn)
          /\ peers' = peers \ {p}
          /\ conn' = [conn EXCEPT ![p.conn] = CloseAt("L", p.conn)]
    /\ UNCHANGED <<node, backlog, accepting, snTx, refused, faults>>

\* The lease task of a peer drops those that were not heard since its last run.
\* Keep-alives come several times in a lease: a peer that was not heard is dead,
\* or its end has not been read yet.
LeaseTask ==
    /\ accepting.pc = "idle" /\ peers # {}
    /\ \A p \in peers : p.received \/ conn[p.conn].dead \/ "N" \notin conn[p.conn].open
    /\ LET silent == {p \in peers : ~p.received}
       IN  /\ peers' = {[p EXCEPT !.received = FALSE] : p \in peers \ silent}
           /\ conn' = [c \in Conns |-> IF \E p \in silent : p.conn = c THEN CloseAt("L", c) ELSE conn[c]]
    /\ UNCHANGED <<node, backlog, accepting, snTx, refused, faults>>

ListenerStep == Accept \/ ListenInitSyn \/ ListenOpenSyn \/ HandshakeFails \/ AddPeer

NodeStep(n) == Connect(n) \/ RecvInitAck(n) \/ RecvOpenAck(n) \/ RecvFrame(n) \/ NodeFails(n)

ReadPeers == \E p \in peers : ReadPeer(p)

LinksNext ==
    \/ \E n \in Nodes : NodeStep(n) \/ KeepAlive(n)
    \/ \E c \in Conns : LinkDies(c)
    \/ ListenerStep \/ ListenRefuses \/ Put \/ ReadPeers \/ LeaseTask

\* Sockets and tasks go on; a fault need not happen.
LinksSpec ==
    /\ LinksInit /\ [][LinksNext]_linkVars
    /\ \A n \in Nodes : WF_linkVars(NodeStep(n)) /\ WF_linkVars(KeepAlive(n))
    /\ WF_linkVars(ListenerStep) /\ WF_linkVars(LeaseTask) /\ WF_linkVars(ReadPeers)

-----------------------------------------------------------------------------
Held(c) == \/ \E i \in DOMAIN backlog : backlog[i] = c
           \/ accepting.pc # "idle" /\ accepting.conn = c
           \/ \E p \in peers : p.conn = c

\* A node that takes its link for open is a peer of the listener, or the listener
\* is about to add it, has closed the link, or has refused it and is about to close
\* it: a refused node does take the link for open, since any answer to its OpenSyn
\* opens it.  What it took for agreed is the most that both announced.  The listener
\* holds each of its sockets once, closes those it gives up and none that it uses,
\* and has no more peers than allowed.  A frame of a new link is taken for an old
\* one only when the listener had sent more than half of the agreed range before:
\* its OpenAck says 0 whatever its next number is.
LinksRight ==
    /\ \A n \in Nodes : node[n].pc = "open" /\ "L" \in conn[node[n].conn].open =>
           /\ \/ accepting.pc \in {"add", "refusing"} /\ accepting.conn = node[n].conn
              \/ \E p \in peers : p.conn = node[n].conn /\ p.node = n
           /\ node[n].terms = [f \in {"res", "batch", "patch"} |-> Lesser(Announces[n][f], Announces[Listener][f])]
    /\ \A c \in Conns : ("L" \in conn[c].open) <=> Held(c)
    /\ \A p, q \in peers : p.conn = q.conn => p = q
    /\ Cardinality(peers) <= MaxPeers
    /\ ~refused

\* In the end every node is linked for good.
Linked(n) == node[n].pc = "open" /\ \E p \in peers : p.conn = node[n].conn

NodesLinked == \A n \in Nodes : []<>Linked(n)
=============================================================================
