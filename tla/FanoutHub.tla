----------------------------- MODULE FanoutHub -----------------------------
(***************************************************************************)
(* Market-data fan-out: the hub of WebSocket sessions                      *)
(* (crates/protocols/md-fanout/src/hub.rs), the task of each client        *)
(* (client_session of services/market-data-gateway/src/app.rs) and the     *)
(* token endpoints (auth_http.rs).                                         *)
(*                                                                         *)
(* The hub is one mutex: a call of it, with the drain that follows under   *)
(* the same lock, is a step.  Feeds publish what they like; which events   *)
(* they are is FeedSession's matter.  Time is the gateway's clock.         *)
(***************************************************************************)
EXTENDS TokenAuth, SequencesExt, FiniteSets

CONSTANTS
  Instruments,               \* instruments the master knows
  Capacity,                  \* queue_capacity
  MaxSubscriptions,          \* max_subscriptions
  HeartbeatEvery, SessionTtl,
  Kinds,                     \* kinds of market events published
  MaxSessions,               \* bound: sessions opened
  MaxEvents,                 \* bound: events published
  MaxTexts,                  \* bound: frames clients send
  MaxNow                     \* bound: the clock

ASSUME HubAssumption ==
  /\ {Capacity, MaxSubscriptions, HeartbeatEvery, SessionTtl} \subseteq Nat \ {0}
  /\ Kinds \subseteq {"Tick", "Degraded", "BookReady"}
  /\ {AccessTtl, RefreshTtl, MaxPairs, MaxSessions, MaxEvents, MaxTexts, MaxNow} \subseteq Nat

VARIABLES
  now,        \* unix_logical_now
  auth,       \* TokenAuth
  sessions,   \* the hub's sessions; of each also its history: all messages ever
              \* queued, those its client read, and how many events had been
              \* published when a sweep first found its token bad
  nextId,     \* next session id
  events,     \* events published
  texts       \* frames clients sent

hubVars == <<now, auth, sessions, nextId, events, texts>>

Ids == 1 .. MaxSessions
NotYet == -1

HubInit ==
  /\ now = 0 /\ auth = NewAuth
  /\ sessions = [s \in {} |-> s] /\ nextId = 1 /\ events = 0 /\ texts = 0

-----------------------------------------------------------------------------
(* A session's queue.  Messages carry their place among those queued.      *)

Message(session, what, about) ==
  [place |-> Len(session.sent) + 1, what |-> what, about |-> about]

\* Mutants of Enqueue: a full queue drops the newest, or grows.
EnqueueUnbounded(session, what, about) ==
  LET message == Message(session, what, about)
  IN  [session EXCEPT !.sent = Append(@, message), !.outbound = Append(@, message)]

EnqueueNewest(session, what, about) ==
  LET message == Message(session, what, about)
      full == Len(session.outbound) >= Capacity
  IN  [session EXCEPT
         !.sent = Append(@, message),
         !.outbound = IF full THEN @ ELSE Append(@, message),
         !.dropped = IF full THEN @ + 1 ELSE @]

\* enqueue: a full queue drops its oldest message, whatever it is.
Enqueue(session, what, about) ==
  LET message == Message(session, what, about)
      full == Len(session.outbound) >= Capacity
  IN  [session EXCEPT
         !.sent = Append(@, message),
         !.outbound = IF full THEN Append(Tail(@), message) ELSE Append(@, message),
         !.dropped = IF full THEN @ + 1 ELSE @]

\* drain: the queue goes to the client's socket.
Drained(session) == [session EXCEPT !.outbound = <<>>, !.got = @ \o session.outbound]

-----------------------------------------------------------------------------
(* Sessions.                                                               *)

\* connect, and the start of client_session.
Connect(n) ==
  /\ nextId <= MaxSessions /\ Authenticates(auth, n, now)
  /\ sessions' = [s \in DOMAIN sessions \cup {nextId} |->
       IF s \in DOMAIN sessions THEN sessions[s]
       ELSE [token |-> n, subscriptions |-> {}, outbound |-> <<>>, dropped |-> 0,
             activity |-> now, heartbeat |-> now, dead |-> FALSE,
             sent |-> <<>>, got |-> <<>>, sweptAt |-> NotYet]]
  /\ nextId' = nextId + 1
  /\ UNCHANGED <<now, auth, events, texts>>

\* subscribe: to a symbol the master does not know, to one too many, or to i.
Subscribed(session, i) ==
  LET touched == [session EXCEPT !.activity = now]
      more == i \notin session.subscriptions
      full == Cardinality(session.subscriptions) >= MaxSubscriptions
  IN  IF i \notin Instruments THEN Enqueue(session, "Error", "unknown_instrument")
      ELSE IF more /\ full THEN Enqueue(touched, "Error", "too_many_subscriptions")
      ELSE Enqueue([touched EXCEPT !.subscriptions = @ \cup {i}], "Subscribed", i)

Unsubscribed(session, i) ==
  IF i \notin Instruments THEN Enqueue(session, "Error", "unknown_instrument")
  ELSE [session EXCEPT !.activity = now, !.subscriptions = @ \ {i}]

\* handle_text: a frame that does not decode is answered even by a dead
\* session, which answers nothing else.
Handled(session, command, i) ==
  CASE command = "garbage" -> Enqueue(session, "Error", "invalid_command")
    [] command # "garbage" /\ session.dead -> session
    [] command # "garbage" /\ ~session.dead ->
         CASE command = "heartbeat" -> [session EXCEPT !.activity = now]
           [] command = "subscribe" -> Subscribed(session, i)
           [] command = "unsubscribe" -> Unsubscribed(session, i)

Commands == {"subscribe", "unsubscribe"} \X (Instruments \cup {"unknown"})
              \cup {<<"heartbeat", "">>, <<"garbage", "">>}

\* A text frame of the client: handle_text, drain, flush.
Text(s, command) ==
  /\ s \in DOMAIN sessions /\ texts < MaxTexts /\ texts' = texts + 1
  /\ sessions' = [sessions EXCEPT ![s] = Drained(Handled(@, command[1], command[2]))]
  /\ UNCHANGED <<now, auth, nextId, events>>

\* The socket ends: disconnect.
Leave(s) ==
  /\ s \in DOMAIN sessions
  /\ sessions' = [t \in DOMAIN sessions \ {s} |-> sessions[t]]
  /\ UNCHANGED <<now, auth, nextId, events, texts>>

-----------------------------------------------------------------------------
(* Publishing.                                                             *)

\* Mutant of Hears: dead sessions are published to.
HearsDead(session, i) == i \in session.subscriptions

Hears(session, i) == ~session.dead /\ i \in session.subscriptions

\* publish
Publish(i, what) ==
  /\ events < MaxEvents /\ events' = events + 1
  /\ sessions' = [s \in DOMAIN sessions |->
       IF Hears(sessions[s], i)
       THEN Enqueue(sessions[s], what, [instrument |-> i, event |-> events + 1])
       ELSE sessions[s]]
  /\ UNCHANGED <<now, auth, nextId, texts>>

-----------------------------------------------------------------------------
(* The clock.                                                              *)

\* on_clock, one session of it: a bad token or a long silence ends it.
Swept(session) ==
  LET bad == ~Authenticates(auth, session.token, now)
      marked == [session EXCEPT !.sweptAt = IF bad /\ @ = NotYet THEN events ELSE @]
      idle == now - session.activity >= SessionTtl
  IN  CASE session.dead -> marked
        [] ~session.dead /\ bad -> Enqueue([marked EXCEPT !.dead = TRUE], "Error", "revoked_token")
        [] ~session.dead /\ ~bad /\ idle ->
             Enqueue([marked EXCEPT !.dead = TRUE], "Error", "session_expired")
        [] ~session.dead /\ ~bad /\ ~idle ->
             IF now - session.heartbeat >= HeartbeatEvery
             THEN Enqueue([marked EXCEPT !.heartbeat = now], "Heartbeat", session.dropped)
             ELSE marked

\* The 50 ms tick of a client's task sweeps every session and drains its own;
\* a session found dead is disconnected.
ClockTick(s) ==
  /\ s \in DOMAIN sessions
  /\ LET swept == [t \in DOMAIN sessions |-> Swept(sessions[t])]
         stays == IF swept[s].dead THEN DOMAIN sessions \ {s} ELSE DOMAIN sessions
     IN  sessions' = [t \in stays |-> IF t = s THEN Drained(swept[t]) ELSE swept[t]]
  /\ UNCHANGED <<now, auth, nextId, events, texts>>

Time ==
  /\ now < MaxNow /\ now' = now + 1
  /\ UNCHANGED <<auth, sessions, nextId, events, texts>>

-----------------------------------------------------------------------------
(* POST /v1/auth/token and /v1/auth/revoke.                                *)

Authorise(state) ==
  /\ auth' = state
  /\ UNCHANGED <<now, sessions, nextId, events, texts>>

IssueToken == auth.nextId <= MaxPairs /\ Authorise(Issue(auth, now))
RefreshToken(n) ==
  /\ auth.refresh[n].present
  /\ auth.nextId <= MaxPairs \/ auth.refresh[n].consumed \/ Expired(auth.refresh[n], now)
  /\ Authorise(RefreshPair(auth, n, now))
RevokeToken(n) == n \in DOMAIN auth.access /\ auth.access[n].present /\ Authorise(RevokeAccess(auth, n))
RevokeRefreshToken(n) == auth.refresh[n].present /\ Authorise(RevokeRefresh(auth, n))

HubNext ==
  \/ \E n \in Pairs \cup {Static} : Connect(n) \/ RevokeToken(n)
  \/ \E n \in Pairs : RefreshToken(n) \/ RevokeRefreshToken(n)
  \/ \E s \in Ids : \/ ClockTick(s) \/ Leave(s)
                    \/ \E c \in Commands : Text(s, c)
  \/ \E i \in Instruments, what \in Kinds : Publish(i, what)
  \/ IssueToken \/ Time

\* Clients' tasks run and time passes.
HubFairness == WF_hubVars(Time) /\ \A s \in Ids : WF_hubVars(ClockTick(s))

HubSpec == HubInit /\ [][HubNext]_hubVars /\ HubFairness

-----------------------------------------------------------------------------
(* Properties.                                                             *)

\* Every variable has its type.
HubTypeOK ==
  /\ now \in 0 .. MaxNow /\ nextId \in 1 .. MaxSessions + 1
  /\ DOMAIN sessions = {s \in DOMAIN sessions : s < nextId}
  /\ \A s \in DOMAIN sessions :
       /\ sessions[s].token \in Pairs \cup {Static}
       /\ Len(sessions[s].outbound) <= Capacity
       /\ Cardinality(sessions[s].subscriptions) <= MaxSubscriptions
  /\ auth.nextId \in 1 .. MaxPairs + 1 /\ auth.revoked \subseteq DOMAIN auth.access

Places(messages) == {messages[k].place : k \in 1 .. Len(messages)}

Reached(session) == session.got \o session.outbound

\* What a client has read and will read is what was queued for it, in that
\* order and once each; it includes the newest message, and the drops it is
\* told of in heartbeats are all the others.
NewestInOrder ==
  \A s \in DOMAIN sessions :
    LET session == sessions[s]
        reached == Reached(session)
    IN  /\ \A k \in 1 .. Len(reached) : reached[k] = session.sent[reached[k].place]
        /\ \A k \in 1 .. Len(reached) - 1 : reached[k].place < reached[k + 1].place
        /\ session.sent # <<>> => reached # <<>> /\ Last(reached) = Last(session.sent)
        /\ session.dropped = Len(session.sent) - Len(reached)

News == {"Tick", "Degraded", "BookReady"}

\* Revocation and expiry (of an access token, a refresh token, their family)
\* reach open sessions: nothing published after the first sweep that finds a
\* session's token bad is queued for it, whatever its client sends meanwhile.
SilentAfterRevocation ==
  \A s \in DOMAIN sessions : sessions[s].sweptAt # NotYet =>
    \A k \in 1 .. Len(sessions[s].sent) :
      sessions[s].sent[k].what \in News => sessions[s].sent[k].about.event <= sessions[s].sweptAt

\* "Old refresh becomes invalid": at most one refresh token of a family is good.
OneLiveRefresh ==
  \A f \in 1 .. auth.nextFamily :
    Cardinality({n \in Pairs : LET token == auth.refresh[n]
                               IN token.present /\ token.family = f /\ ~token.consumed}) <= 1

\* A session whose token is bad is closed.
Doomed(s) == s \in DOMAIN sessions /\ ~Authenticates(auth, sessions[s].token, now)
RevokedCloses == \A s \in Ids : Doomed(s) ~> s \notin DOMAIN sessions

\* "Oldest market-data is dropped on overflow" (FanoutConfig): market data only.
OnlyMarketDataDropped ==
  \A s \in DOMAIN sessions :
    \A p \in (1 .. Len(sessions[s].sent)) \ Places(Reached(sessions[s])) :
      sessions[s].sent[p].what \in News

\* The last word on the book of i among messages.
LastNews(messages, i) ==
  LET news == SelectSeq(messages, LAMBDA m : m.what \in News \ {"Tick"} /\ m.about.instrument = i)
  IN  IF news = <<>> THEN "none" ELSE Last(news).what

\* "UI should hide stale book": a client that has read all there is knows
\* whether a book may be trusted.
BadNewsArrives ==
  \A s \in DOMAIN sessions : \A i \in Instruments :
    sessions[s].outbound = <<>> => LastNews(sessions[s].got, i) = LastNews(sessions[s].sent, i)
=============================================================================
