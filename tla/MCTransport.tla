----------------------------- MODULE MCTransport -----------------------------
(***************************************************************************)
(* The unicast transport on a stream link, with two sending threads,       *)
(* failing sends, keep-alives and batching calls, and on a datagram link   *)
(* that loses, duplicates and reorders; the multicast transport, with      *)
(* messages of every size but no leases, with leases, and with two nodes   *)
(* that are started again with other settings; and, apart from them, the   *)
(* wire format of the messages (Codec).  A behaviour is one of the link    *)
(* that "link" names, or one of the codec.                                 *)
(***************************************************************************)
EXTENDS UnicastTransport

CONSTANTS t1, t2, None, n1, n2

VARIABLES link,
          message, coded, foreign,  \* Codec
          node, air, late, rounds, peers, order, freed, tpOpen, sizes, heard, owed, balance, expired, excused,
          torn, faults, starts   \* Multicast

Dgram == INSTANCE UnicastTransport
             WITH Threads <- {t1}, Sizes <- {2, 5}, MaxMsgs <- 3, MaxFails <- 0, MaxCalls <- 0,
                  Datagram <- TRUE, WindowSize <- 2, FragMax <- 5

\* Numbers of at most three bytes, of which each but the last holds two bits.
Wire == INSTANCE Codec WITH VleBits <- 2, VleLen <- 3, Priorities <- 2, wire <- coded

Group == INSTANCE Multicast
             WITH Nodes <- {n1}, MsgSizes <- {1, 2, 3}, WindowSize <- 2, FragMax <- 2, Factor <- 0,
                  MaxMsgs <- 2, MaxAir <- 2, MaxFaults <- 1, MaxStarts <- 1, Settings <- {TRUE},
                  SnRes <- 31, InitialSn <- 30

Leases == INSTANCE Multicast
             WITH Nodes <- {n1}, MsgSizes <- {1}, WindowSize <- 2, FragMax <- 2, Factor <- 3,
                  MaxMsgs <- 1, MaxAir <- 2, MaxFaults <- 1, MaxStarts <- 1, Settings <- BOOLEAN,
                  SnRes <- 31, InitialSn <- 30

Restarts == INSTANCE Multicast
             WITH Nodes <- {n1, n2}, MsgSizes <- {1}, WindowSize <- 2, FragMax <- 2, Factor <- 0,
                  MaxMsgs <- 0, MaxAir <- 1, MaxFaults <- 0, MaxStarts <- 2, Settings <- BOOLEAN,
                  SnRes <- 31, InitialSn <- 30

codecVars == <<message, coded, foreign>>

groupVars == <<node, air, late, rounds, peers, order, freed, tpOpen, sizes, heard, owed, balance, expired, excused,
               torn, faults, starts>>

MCInit ==
    /\ Wire!CodecInit
    /\ \/ link \in {"stream", "codec", "multicast", "leases"} /\ Init /\ Group!McInit
       \/ link = "datagram" /\ Dgram!Init /\ Group!McInit
       \/ link = "restarts" /\ Init /\ Restarts!McInit

MCNext ==
    \/ link = "stream" /\ Next /\ UNCHANGED <<link, codecVars, groupVars>>
    \/ link = "datagram" /\ Dgram!Next /\ UNCHANGED <<link, codecVars, groupVars>>
    \/ link = "multicast" /\ Group!McNext /\ UNCHANGED <<link, vars, codecVars>>
    \/ link = "leases" /\ Leases!McNext /\ UNCHANGED <<link, vars, codecVars>>
    \/ link = "restarts" /\ Restarts!McNext /\ UNCHANGED <<link, vars, codecVars>>
    \/ link = "codec" /\ Wire!CodecNext /\ UNCHANGED <<link, vars, groupVars>>

MCSpec == MCInit /\ [][MCNext]_<<vars, link, codecVars, groupVars>>

-----------------------------------------------------------------------------
OnMulticast == link \in {"multicast", "leases", "restarts"}

SentOn == IF OnMulticast THEN Len(sizes) ELSE Len(msgs)

Reliable   == INSTANCE OrderedChannel
                  WITH sent <- SentOn,
                       delivered <- IF OnMulticast THEN Group!HeardOn("reliable") ELSE Received("reliable")
BestEffort == INSTANCE OrderedChannel
                  WITH sent <- SentOn,
                       delivered <- IF OnMulticast THEN Group!HeardOn("bestEffort")
                                    ELSE IF link # "datagram" THEN Received("bestEffort") ELSE << >>

\* ChannelsInOrder on the link in use: the reliable channel and, but on a unicast
\* link of datagrams, also the best-effort one deliver at most once and in order.
LinkInOrder == Reliable!Spec /\ BestEffort!Spec

\* What arrives on the link in use: on a stream everything, when no send fails
\* (StreamComplete); of datagrams nothing twice and nothing that was not sent
\* (DatagramsOnce); by multicast nothing made up, without losses everything, and
\* the list of peers is that of the nodes heard (MulticastDelivers).
LinkDelivers ==
    /\ link = "stream" => StreamComplete
    /\ link = "datagram" => Dgram!DatagramsOnce
    /\ OnMulticast /\ link # "restarts" => Group!MulticastDelivers
    /\ link = "restarts" => Restarts!MulticastDelivers

\* Whatever one side encodes, the other decodes, extensions it does not know included.
CodecRight == link = "codec" => Wire!CodecRight
=============================================================================
