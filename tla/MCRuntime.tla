----------------------------- MODULE MCRuntime -----------------------------
(***************************************************************************)
(* The concurrent building blocks and the life of transports, side by      *)
(* side: the background executor, the reference counters, the sync group,  *)
(* the channels; how z_open connects, links between peers, and the client  *)
(* transport that is lost and reopened.  They share no variable; a         *)
(* behaviour is one of the block that "block" names.                       *)
(***************************************************************************)
EXTENDS BackgroundExecutor, RefCount, SyncGroup, Channel

CONSTANTS c1, c2, n1, n2, n3, t1, t2, s1, s2, r1, r2, tk1

VARIABLES block,
          config, stage, locState, next, primary, elapsed, spent, timeLeft, failed, opened,
          links,                                                       \* OpenSession
          conn, node, backlog, accepting, peers, snTx, refused,
          faults,                                                      \* PeerLinks
          tpState, tpType, link, weakRefs, tasks, reopen, replaying, received,
          silence, leaseDue, expired, registered, declState, routerKnows,
          failures                                                     \* Reconnect

Open == INSTANCE OpenSession
            WITH MaxLocators <- 2, Timeouts <- {-1, 0, 2}, remaining <- timeLeft, result <- opened

\* Two nodes that differ from the listener, and a socket more than peers allowed.
Links == INSTANCE PeerLinks
             WITH Nodes <- {n1, n2}, Listener <- n3,
                  Announces <- [n \in {n1, n2, n3} |-> CASE n = n1 -> [res |-> 0, batch |-> 2, patch |-> 1]
                                                         [] n = n2 -> [res |-> 1, batch |-> 1, patch |-> 0]
                                                         [] n = n3 -> [res |-> 1, batch |-> 2, patch |-> 1]],
                  Conns <- {1, 2, 3}, MaxPeers <- 2, MaxFaults <- 1, MaxSent <- 4

Client == INSTANCE Reconnect
              WITH Subscribers <- {s1}, Tokens <- {tk1}, Lease <- 2, MaxFailures <- 2

openVars  == <<config, stage, locState, next, primary, elapsed, spent, timeLeft, failed, opened, links>>
linkVars  == <<conn, node, backlog, accepting, peers, snTx, refused, faults>>
clientVars == <<tpState, tpType, link, weakRefs, tasks, reopen, replaying, received, silence,
                leaseDue, expired, registered, declState, routerKnows, failures>>
blockVars == <<vars, rcVars, groupVars, channelVars>>

MCInit ==
    /\ block \in {"executor", "references", "group", "channel", "open", "links", "client"}
    /\ Init /\ RcInit /\ GroupInit /\ ChannelInit
    /\ Open!OpenInit /\ Links!LinksInit /\ Client!ReconnectInit
    /\ block # "channel" => channelKind = "fifo"
    /\ block # "open" =>
           /\ config = [mode |-> "peer", listen |-> TRUE, listenTimeout |-> 0, listenExit |-> FALSE,
                        timeout |-> -1, exit |-> FALSE]
           /\ locState = << >>

MCNext ==
    \/ /\ UNCHANGED <<block, openVars, linkVars, clientVars>>
       /\ \/ block = "executor" /\ Next /\ UNCHANGED <<rcVars, groupVars, channelVars>>
          \/ block = "references" /\ RcNext /\ UNCHANGED <<vars, groupVars, channelVars>>
          \/ block = "group" /\ GroupNext /\ UNCHANGED <<vars, rcVars, channelVars>>
          \/ block = "channel" /\ ChannelNext /\ UNCHANGED <<vars, rcVars, groupVars>>
    \/ /\ UNCHANGED <<block, blockVars>>
       /\ \/ block = "open" /\ Open!OpenNext /\ UNCHANGED <<linkVars, clientVars>>
          \/ block = "links" /\ Links!LinksNext /\ UNCHANGED <<openVars, clientVars>>
          \/ block = "client" /\ Client!ReconnectNext /\ UNCHANGED <<openVars, linkVars>>

\* The fairness of each specification, for the block in use.
MCFairness ==
    /\ \A c \in Clients : WF_vars(block = "executor" /\ Proceed(c))
    /\ \A g \in Gens : WF_vars(block = "executor" /\ XProceed(g))
    /\ \A t \in Tasks : WF_vars(block = "executor" /\ Elapse(t))
    /\ \A t \in Threads :
          /\ WF_groupVars(block = "group" /\ Resume(t))
          /\ WF_groupVars(block = "group" /\ Expire(t))
          /\ WF_groupVars(block = "group" /\ ExpiredReturns(t))
    /\ \A n \in Notifiers :
          WF_groupVars(block = "group" /\ (DropNotifier(n) \/ ReleaseNotifier(n)))
    /\ \A s \in Senders : WF_channelVars(block = "channel" /\ Push(s))
    /\ \A r \in Receivers : WF_channelVars(block = "channel" /\ Pull(r))
    /\ WF_openVars(block = "open" /\ Open!OpenStep)
    /\ \A n \in {n1, n2} : /\ WF_linkVars(block = "links" /\ Links!NodeStep(n))
                           /\ WF_linkVars(block = "links" /\ Links!KeepAlive(n))
    /\ WF_linkVars(block = "links" /\ Links!ListenerStep)
    /\ WF_linkVars(block = "links" /\ Links!LeaseTask)
    /\ WF_linkVars(block = "links" /\ Links!ReadPeers)
    /\ WF_clientVars(block = "client" /\ Client!ReopenStep)
    /\ WF_clientVars(block = "client" /\ Client!Tick)
    /\ WF_clientVars(block = "client" /\ Client!LeaseStep)

MCSpec ==
    /\ MCInit /\ [][MCNext]_<<block, blockVars, openVars, linkVars, clientVars>>
    /\ MCFairness

-----------------------------------------------------------------------------
\* Every wait on a sync group ends, and no wake-up of a channel is lost.
WaitsEnd == WaitersReleased /\ WakesUp

\* A reopened transport is whole and its router knows the subscribers; z_open
\* says what it did and links each locator once; peers agree on their links.
TransportSafe ==
    /\ block = "client" => Client!ReconnectSafe
    /\ block = "open" => Open!OpenRight
    /\ block = "links" => Links!LinksRight

\* A lost router is noticed and the transport reopened or closed; z_open and its
\* task go on; nodes are linked in the end.
TransportProceeds ==
    /\ Client!Reconnects /\ Open!OpenProceeds
    /\ \A n \in {n1, n2} : []<>(block # "links" \/ Links!Linked(n))
=============================================================================
