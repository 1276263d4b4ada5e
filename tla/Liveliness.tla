----------------------------- MODULE Liveliness -----------------------------
(***************************************************************************)
(* Liveliness tokens of other sessions, liveliness subscribers and         *)
(* liveliness queries (src/src/session/liveliness.c, src/src/net/          *)
(* liveliness.c).  The read task handles the messages of the router or of  *)
(* the peers in order; a message updates the session's maps under the      *)
(* session mutex and the subscribers' callbacks run after it is released.  *)
(* Subscribers and queries are declared by application threads and match   *)
(* every key.  A subscriber's interest is numbered by the entity counter,  *)
(* a query's by a counter of its own that starts at 1 too: the numbers may *)
(* coincide, and only the number tells to whom an answer belongs.  The     *)
(* interests of write filters and matching listeners share the first       *)
(* counter; their DECL_FINAL does what a subscriber's does.                *)
(***************************************************************************)
EXTENDS Naturals, Sequences, FiniteSets, Functions

CONSTANTS Remotes,     \* the router of a client, or the peers of a peer
          IsClient,
          TokenIds, TokenKeys,
          WithHistory, WithoutHistory,  \* liveliness subscribers, by their history option
          LivelinessQueries,
          InterestNumber,               \* of a subscriber or a query
          MaxWire, MaxLosses

VARIABLES alive,         \* remote -> id -> the key it has declared under it, or NoKey
          told,          \* remote -> id -> the key it has declared to this session, or NoKey
          wire,          \* messages on their way, in order
          remoteTokens,  \* _remote_tokens: id -> key or NoKey
          triggers,      \* samples the read task still has to give to the subscribers
          subscriber,    \* subscriber -> where its declaration is
          tokenHistory,  \* subscriber -> the cloned tokens still to be told
          lastSample,    \* subscriber -> key -> the last sample's kind, or "none"
          tokenQuery,    \* query -> "new", "registered" or "ended"
          asked,         \* queries whose interest was sent, or failed to be
          dropped,       \* query -> calls of its dropper
          rxErrors, losses,
          misread        \* history: an answer was taken for another interest's, or a query's reply stored

livelinessVars == <<alive, told, wire, remoteTokens, triggers, subscriber, tokenHistory, lastSample, tokenQuery, asked,
                    dropped, rxErrors, losses, misread>>
queryVars      == <<tokenQuery, asked, dropped>>

NoKey          == "none"
NoInterest     == "none"
Subscribers    == WithHistory \cup WithoutHistory
Live           == {remoteTokens[i] : i \in TokenIds} \ {NoKey}
PendingQueries == {q \in LivelinessQueries : tokenQuery[q] = "registered"}

\* Each counter gives a number once.
ASSUME LivelinessAssumption ==
    /\ IsFiniteSet(TokenIds) /\ NoKey \notin TokenKeys
    /\ NoInterest \notin Subscribers \cup LivelinessQueries /\ Subscribers \cap LivelinessQueries = {}
    /\ \A x, y \in Subscribers : InterestNumber[x] = InterestNumber[y] => x = y
    /\ \A x, y \in LivelinessQueries : InterestNumber[x] = InterestNumber[y] => x = y

\* A router tells a client of the tokens once it has been asked for them, a peer
\* declares them to every peer.
Pushes == ~IsClient \/ \E s \in Subscribers : subscriber[s] = "declared"

\* The orders in which a map may be gone through.
Orders(S) == Surjection(1 .. Cardinality(S), S)

LivelinessInit ==
    /\ alive = [r \in Remotes |-> [i \in TokenIds |-> NoKey]] /\ told = alive /\ wire = << >>
    /\ remoteTokens = [i \in TokenIds |-> NoKey] /\ triggers = << >>
    /\ subscriber = [s \in Subscribers |-> "new"] /\ tokenHistory = [s \in Subscribers |-> {}]
    /\ lastSample = [s \in Subscribers |-> [k \in TokenKeys |-> "none"]]
    /\ tokenQuery = [q \in LivelinessQueries |-> "new"] /\ asked = {} /\ dropped = [q \in LivelinessQueries |-> 0]
    /\ rxErrors = 0 /\ losses = 0 /\ misread = FALSE

-----------------------------------------------------------------------------
\* A router or peer declares a key under a free id, and undeclares it.
RemoteDeclares(r, i, k) ==
    /\ alive[r][i] = NoKey /\ \A j \in TokenIds : alive[r][j] # k /\ Len(wire) < MaxWire
    /\ alive' = [alive EXCEPT ![r][i] = k]
    /\ IF Pushes
       THEN /\ told' = [told EXCEPT ![r][i] = k]
            /\ wire' = Append(wire, [tag |-> "DECL_TOKEN", from |-> r, id |-> i, key |-> k, interest |-> NoInterest])
       ELSE UNCHANGED <<told, wire>>
    /\ UNCHANGED <<remoteTokens, triggers, subscriber, tokenHistory, lastSample, queryVars, rxErrors, losses, misread>>

RemoteUndeclares(r, i) ==
    /\ alive[r][i] # NoKey /\ Len(wire) < MaxWire
    /\ alive' = [alive EXCEPT ![r][i] = NoKey]
    /\ told' = [told EXCEPT ![r][i] = NoKey]
    /\ wire' = IF told[r][i] = NoKey THEN wire ELSE Append(wire, [tag |-> "UNDECL_TOKEN", from |-> r, id |-> i])
    /\ UNCHANGED <<remoteTokens, triggers, subscriber, tokenHistory, lastSample, queryVars, rxErrors, losses, misread>>

\* The remote is lost.  A client's _zp_unicast_failed_result moves the tokens out
\* of the map and undeclares each of them (_z_liveliness_subscription_undeclare_all),
\* with nothing of its one link left to read; a peer drops the peer, of which
\* liveliness.c is not told.
RemoteLost(r) ==
    /\ triggers = << >> /\ losses < MaxLosses /\ losses' = losses + 1
    /\ alive' = [alive EXCEPT ![r] = [i \in TokenIds |-> NoKey]]
    /\ told' = [told EXCEPT ![r] = [i \in TokenIds |-> NoKey]]
    /\ IF IsClient
       THEN /\ wire' = << >> /\ remoteTokens' = [i \in TokenIds |-> NoKey]
            /\ \E keys \in Orders(Live) : triggers' = [n \in DOMAIN keys |-> [kind |-> "DELETE", key |-> keys[n]]]
       ELSE wire' = SelectSeq(wire, LAMBDA m : m.from # r) /\ UNCHANGED <<remoteTokens, triggers>>
    /\ UNCHANGED <<subscriber, tokenHistory, lastSample, queryVars, rxErrors, misread>>

-----------------------------------------------------------------------------
\* _z_liveliness_process_remote_token_declare: the same key again is ignored, a
\* stale entry under a reused id is replaced.
RemoteTokenDeclare(m) ==
    /\ remoteTokens' = [remoteTokens EXCEPT ![m.id] = m.key]
    /\ triggers' = IF remoteTokens[m.id] = m.key THEN << >>
                   ELSE (IF remoteTokens[m.id] = NoKey THEN << >> ELSE <<[kind |-> "DELETE", key |-> remoteTokens[m.id]]>>)
                        \o <<[kind |-> "PUT", key |-> m.key]>>

\* The pending query found under the number of a message's interest.
Taken(m) == {q \in PendingQueries : m.interest # NoInterest /\ InterestNumber[q] = InterestNumber[m.interest]}

\* _z_liveliness_process_token_declare: the reply to a pending query, whose
\* callback is called under the mutex, or a token to be stored.
ReadDeclare ==
    /\ triggers = << >> /\ wire # << >> /\ Head(wire).tag = "DECL_TOKEN" /\ wire' = Tail(wire)
    /\ IF Taken(Head(wire)) # {}
       THEN UNCHANGED <<remoteTokens, triggers>>
       ELSE RemoteTokenDeclare(Head(wire))
    /\ misread' = (misread \/ Taken(Head(wire)) # {Head(wire).interest} \cap LivelinessQueries)
    /\ UNCHANGED <<alive, told, subscriber, tokenHistory, lastSample, queryVars, rxErrors, losses>>

\* Mutation: the token stays in the map.
ReadUndeclareKeeps ==
    LET known == remoteTokens[Head(wire).id]
    IN  /\ triggers = << >> /\ wire # << >> /\ Head(wire).tag = "UNDECL_TOKEN" /\ wire' = Tail(wire)
        /\ triggers' = IF known = NoKey THEN << >> ELSE <<[kind |-> "DELETE", key |-> known]>>
        /\ UNCHANGED <<alive, told, remoteTokens, subscriber, tokenHistory, lastSample, queryVars, rxErrors, losses, misread>>

\* _z_liveliness_process_remote_token_undeclare: an id that is not known is an
\* error, which costs the connection.
ReadUndeclare ==
    LET known == remoteTokens[Head(wire).id]
    IN  /\ triggers = << >> /\ wire # << >> /\ Head(wire).tag = "UNDECL_TOKEN" /\ wire' = Tail(wire)
        /\ remoteTokens' = [remoteTokens EXCEPT ![Head(wire).id] = NoKey]
        /\ triggers' = IF known = NoKey THEN << >> ELSE <<[kind |-> "DELETE", key |-> known]>>
        /\ rxErrors' = IF known = NoKey THEN rxErrors + 1 ELSE rxErrors
        /\ UNCHANGED <<alive, told, subscriber, tokenHistory, lastSample, queryVars, losses, misread>>

\* Mutation: the dropper of a query that is gone is called again.
EndQueriesAgain(qs) ==
    /\ tokenQuery' = [q \in LivelinessQueries |-> IF q \in qs THEN "ended" ELSE tokenQuery[q]]
    /\ dropped' = [q \in LivelinessQueries |-> IF q \in qs THEN dropped[q] + 1 ELSE dropped[q]]

\* _z_liveliness_unregister_pending_query, of the given queries that are pending.
EndQueries(qs) ==
    /\ tokenQuery' = [q \in LivelinessQueries |-> IF q \in qs \cap PendingQueries THEN "ended" ELSE tokenQuery[q]]
    /\ dropped' = [q \in LivelinessQueries |-> IF q \in qs \cap PendingQueries THEN dropped[q] + 1 ELSE dropped[q]]

\* _z_liveliness_process_declare_final: it ends the query that has the number.
ReadFinal ==
    /\ triggers = << >> /\ wire # << >> /\ Head(wire).tag = "DECL_FINAL" /\ wire' = Tail(wire)
    /\ EndQueries(Taken(Head(wire)))
    /\ UNCHANGED <<alive, told, remoteTokens, triggers, subscriber, tokenHistory, lastSample, asked, rxErrors, losses,
                   misread>>

\* _z_trigger_liveliness_subscriptions_declare and _undeclare.
Trigger ==
    /\ triggers # << >> /\ triggers' = Tail(triggers)
    /\ lastSample' = [s \in Subscribers |->
           IF subscriber[s] \in {"new", "failed"} THEN lastSample[s]
           ELSE [lastSample[s] EXCEPT ![Head(triggers).key] = Head(triggers).kind]]
    /\ UNCHANGED <<alive, told, wire, remoteTokens, subscriber, tokenHistory, queryVars, rxErrors, losses, misread>>

-----------------------------------------------------------------------------
\* _z_register_liveliness_subscriber: the subscriber is listed; with history the
\* tokens are cloned under the mutex and told one by one without it; then the
\* interest is sent; a failure unregisters it.
RegisterSubscriber(s) ==
    /\ subscriber[s] = "new" /\ subscriber' = [subscriber EXCEPT ![s] = "listed"]
    /\ UNCHANGED <<alive, told, wire, remoteTokens, triggers, tokenHistory, lastSample, queryVars, rxErrors, losses, misread>>

TriggerHistory(s) ==
    /\ subscriber[s] = "listed" /\ subscriber' = [subscriber EXCEPT ![s] = "telling"]
    /\ tokenHistory' = [tokenHistory EXCEPT ![s] = IF s \in WithHistory THEN Live ELSE {}]
    /\ UNCHANGED <<alive, told, wire, remoteTokens, triggers, lastSample, queryVars, rxErrors, losses, misread>>

HistorySample(s) ==
    /\ \E k \in tokenHistory[s] :
          /\ tokenHistory' = [tokenHistory EXCEPT ![s] = @ \ {k}]
          /\ lastSample' = [lastSample EXCEPT ![s][k] = "PUT"]
    /\ UNCHANGED <<alive, told, wire, remoteTokens, triggers, subscriber, queryVars, rxErrors, losses, misread>>

\* What a remote may send for an interest in the current tokens.
Answers(r, interest) ==
    LET Declared(i) == [tag |-> "DECL_TOKEN", from |-> r, id |-> i, key |-> alive[r][i], interest |-> interest]
    IN  {[n \in DOMAIN tids |-> Declared(tids[n])] \o <<[tag |-> "DECL_FINAL", from |-> r, interest |-> interest]>> :
             tids \in Orders({i \in TokenIds : alive[r][i] # NoKey})}

\* With history the interest is in the current and the future tokens, which are
\* thereby declared to this session; without, in the future ones.
SendInterest(s) ==
    /\ subscriber[s] = "telling" /\ tokenHistory[s] = {}
    /\ \/ /\ subscriber' = [subscriber EXCEPT ![s] = "declared"]
          /\ IF s \in WithHistory
             THEN \E r \in Remotes : \E answer \in Answers(r, s) :
                      Len(wire) < MaxWire /\ wire' = wire \o answer /\ told' = [told EXCEPT ![r] = alive[r]]
             ELSE UNCHANGED <<told, wire>>
       \/ subscriber' = [subscriber EXCEPT ![s] = "failed"] /\ UNCHANGED <<told, wire>>
    /\ UNCHANGED <<alive, remoteTokens, triggers, tokenHistory, lastSample, queryVars, rxErrors, losses, misread>>

-----------------------------------------------------------------------------
\* _z_liveliness_query: the query is registered with its cancel handler, then its
\* interest is sent, also when it has been ended in between; a failure unregisters
\* it if it is still there.  The remote answers with its tokens, without declaring
\* them, and a final declaration; timeout_ms is not used.
QueryRegister(q) ==
    /\ tokenQuery[q] = "new" /\ tokenQuery' = [tokenQuery EXCEPT ![q] = "registered"]
    /\ UNCHANGED <<alive, told, wire, remoteTokens, triggers, subscriber, tokenHistory, lastSample, asked, dropped, rxErrors,
                   losses, misread>>

QuerySend(q) ==
    /\ tokenQuery[q] # "new" /\ q \notin asked /\ asked' = asked \cup {q}
    /\ \/ /\ \E r \in Remotes : \E answer \in Answers(r, q) : Len(wire) < MaxWire /\ wire' = wire \o answer
          /\ UNCHANGED <<tokenQuery, dropped>>
       \/ EndQueries({q}) /\ UNCHANGED wire
    /\ UNCHANGED <<alive, told, remoteTokens, triggers, subscriber, tokenHistory, lastSample, rxErrors, losses, misread>>

\* _z_cancel_liveliness_pending_query, or _z_liveliness_clear at the close.
QueryCancel(q) ==
    /\ q \in PendingQueries /\ EndQueries({q})
    /\ UNCHANGED <<alive, told, wire, remoteTokens, triggers, subscriber, tokenHistory, lastSample, asked, rxErrors, losses,
                   misread>>

LivelinessNext ==
    \/ \E r \in Remotes, i \in TokenIds : RemoteUndeclares(r, i) \/ \E k \in TokenKeys : RemoteDeclares(r, i, k)
    \/ \E r \in Remotes : RemoteLost(r)
    \/ ReadDeclare \/ ReadUndeclare \/ ReadFinal \/ Trigger
    \/ \E s \in Subscribers : RegisterSubscriber(s) \/ TriggerHistory(s) \/ HistorySample(s) \/ SendInterest(s)
    \/ \E q \in LivelinessQueries : QueryRegister(q) \/ QuerySend(q) \/ QueryCancel(q)

LivelinessSpec == LivelinessInit /\ [][LivelinessNext]_livelinessVars

-----------------------------------------------------------------------------
\* liveliness.h of the token: subscribers "will receive a PUT sample when
\* connectivity is achieved, and a DELETE sample if it's lost".  Once every
\* message is handled, the last sample of a subscriber with history for a key that
\* is declared is PUT; one without history, for a key declared to this session, may
\* have none.  For a key that is not it is DELETE or none; only a subscriber with
\* history, whose callbacks for the clone may come after a DELETE, can be left with
\* a PUT.  All this as long as no answer to a subscriber went to a query of the same
\* number, which keeps the token from being stored, and no reply was stored because
\* its query had ended.
TokensTold ==
    wire = << >> /\ triggers = << >> /\ ~misread =>
        \A k \in TokenKeys, s \in Subscribers :
            LET declared == \E r \in Remotes, i \in TokenIds : (IF s \in WithHistory THEN alive ELSE told)[r][i] = k
            IN  subscriber[s] = "declared" =>
                    /\ declared => lastSample[s][k] = "PUT" \/ (s \in WithoutHistory /\ lastSample[s][k] = "none")
                    /\ ~declared => lastSample[s][k] # "PUT" \/ s \in WithHistory

\* Whichever of a final declaration, its own or that of another interest with its
\* number, a failed send and a cancellation, also one before the send, comes first
\* ends a query; its dropper runs once.  Unless an answer was misread, the
\* session knows every token the router undeclares.
QueriesEndOnce ==
    /\ \A q \in LivelinessQueries : dropped[q] = IF tokenQuery[q] = "ended" THEN 1 ELSE 0
    /\ misread \/ rxErrors = 0

\* Liveliness subscribers know which tokens are alive; a liveliness query ends
\* once.
TokensRight == TokensTold /\ QueriesEndOnce
=============================================================================
