------------------------------ MODULE Gateway ------------------------------
(***************************************************************************)
(* Where Minecraft clients connect: the subdomain router (routerService),  *)
(* the listener on a sleeping server's own port, and what both say to the  *)
(* client of a sleeping server (serveSleepingClient), with as much of      *)
(* HibernationService.wake as they see.  A packet is one token; TCP hands  *)
(* over any number of them at once.                                        *)
(***************************************************************************)
EXTENDS Integers, Sequences, FiniteSets, SequencesExt

CONSTANTS
  Client,
  Server,      \* named by their subdomains
  Nobody,      \* no server, no subdomain, no client
  Domain,      \* MC_ROUTER_DOMAIN, as a sequence of labels; empty when unset
  Fallback,    \* MC_ROUTER_DEFAULT_SUBDOMAIN, or Nobody
  HostNames,   \* the host names clients send, without port, marker and case
  Scripts,     \* what clients send, as sequences of packets
  MostTokens   \* stands for MAX_HANDSHAKE_BYTES

ASSUME GatewayAssumption ==
  /\ Nobody \notin Server \cup Client
  /\ Fallback \in Server \cup {Nobody}
  /\ MostTokens \in Nat \ {0}

VARIABLES
  conn,      \* [Client -> its connection]
  asleep,    \* servers whose row says hibernated
  jvm,       \* servers whose game port answers
  listener,  \* [Server -> open, closing or closed]
  owner      \* [Server -> who starts it: a client, "panel", or Nobody]

vars == <<conn, asleep, jvm, listener, owner>>

NoConn == [via |-> Nobody, host |-> <<>>, todo |-> <<>>, held |-> <<>>, stage |-> "none",
           timer |-> FALSE, tracked |-> FALSE, target |-> Nobody, reply |-> "none"]

\* Of a connection that its client has left, only a timer can remain.
Gone == [NoConn EXCEPT !.stage = "gone"]

\* Packets: a part of one; a handshake that asks for the status, a login or
\* something else; no handshake at all; what follows a handshake.
Handshakes == {"status", "login", "transfer"}

-----------------------------------------------------------------------------
(* The protocol and the choice of a server.                                *)

\* parseHandshake: not yet, not a handshake, or the state it asks for.
Handshake(held) ==
  LET whole == {i \in DOMAIN held: held[i] # "part"} IN
  IF whole = {} THEN "more"
  ELSE LET first == held[CHOOSE i \in whole: \A j \in whole: i <= j]
       IN IF first \in Handshakes THEN first ELSE "junk"

\* What is held after the handshake.
AfterHandshake(held) ==
  LET first == CHOOSE i \in DOMAIN held: held[i] # "part" /\ \A j \in 1..(i - 1): held[j] = "part"
  IN SubSeq(held, first + 1, Len(held))

\* extractSubdomain: the label before the domain; the default for the domain
\* itself, for no name and for no domain.
Subdomain(host) ==
  IF host = <<>> \/ Domain = <<>> \/ host = Domain THEN Fallback
  ELSE IF IsSuffix(Domain, host) /\ Len(host) = Len(Domain) + 1 THEN host[1]
  ELSE Nobody

\* findServerBySubdomain
ServerFor(name) == IF name \in Server THEN name ELSE Nobody

-----------------------------------------------------------------------------
(* One connection.  Each operator gives the connection's next value.       *)

\* Nobody reads on.
Unread(k) == [k EXCEPT !.host = <<>>, !.todo = <<>>, !.held = <<>>]

\* finish: the timer is cleared, the listener removed, the socket ended.
Finished(k) == [Unread(k) EXCEPT !.timer = FALSE, !.stage = "ended"]

\* Status requests are answered, a ping is echoed and ends it, the rest is ignored.
Answered(k) ==
  IF Contains(k.held, "ping")
    THEN [Finished(k) EXCEPT !.reply = "pong"]
    ELSE [k EXCEPT !.held = SelectSeq(@, LAMBDA t: t = "part"),
                   !.reply = IF Contains(k.held, "request") THEN "status" ELSE @]

\* Broken on purpose (for ClientsAreServed): the listener keeps track of it.
WakingTracked(k) == [Unread(k) EXCEPT !.stage = "waking", !.timer = FALSE]

\* A login: the timer is cleared, and the listener forgets the socket, so that
\* closing the port does not end it.
Waking(k) == [Unread(k) EXCEPT !.stage = "waking", !.timer = FALSE, !.tracked = FALSE]

\* Broken on purpose (for ClientsAreServed): the timer is for the handshake only.
ConsumedUntimed(k) ==
  IF k.stage = "status" THEN Answered(k)
  ELSE CASE Handshake(k.held) = "more" -> k
         [] Handshake(k.held) = "login" -> Waking(k)
         [] OTHER -> Answered([k EXCEPT !.stage = "status", !.timer = FALSE, !.held = <<>>])

\* serveSleepingClient, with what is held.
Consumed(k) ==
  IF k.stage = "asleep"
    THEN CASE Handshake(k.held) = "more" -> k
           [] Handshake(k.held) = "status" ->
                Answered([k EXCEPT !.stage = "status", !.held = AfterHandshake(@)])
           [] Handshake(k.held) = "login" -> Waking(k)
           [] OTHER -> Finished(k)
    ELSE Answered(k)

\* A router's socket that is given up: ended without a further look at its timer.
Refused(k) == [Unread(k) EXCEPT !.stage = "ended"]

\* The held bytes go to the game; what comes before it answers is dropped.
Dialled(k, s) == [Unread(k) EXCEPT !.stage = "dialling", !.timer = FALSE, !.target = s]

\* The router knows the handshake: it serves a sleeping server's client itself.
\* serveSleepingClient starts a timer of its own.
Routed(k) ==
  LET s == ServerFor(Subdomain(k.host)) IN
  IF s = Nobody THEN [Refused(k) EXCEPT !.timer = FALSE]
  ELSE IF s \in asleep THEN Consumed([k EXCEPT !.stage = "asleep", !.timer = TRUE, !.target = s])
  ELSE Dialled(k, s)

RouterRead(k) ==
  CASE Handshake(k.held) = "more" -> k
    [] Handshake(k.held) = "junk" ->
         IF ServerFor(Fallback) = Nobody THEN Refused(k) ELSE Dialled(k, Fallback)
    [] OTHER -> Routed(k)

\* The data listener of the stage the connection is in, if it has one.
Given(k, packets) ==
  LET more == [k EXCEPT !.held = @ \o packets] IN
  IF k.stage \notin {"reading", "asleep", "status"} THEN k
  ELSE IF Len(more.held) > MostTokens
    THEN IF k.stage = "reading" THEN Refused(more) ELSE Finished(more)
  ELSE IF k.stage = "reading" THEN RouterRead(more) ELSE Consumed(more)

-----------------------------------------------------------------------------
(* Clients and the network.                                                *)

\* To a server's own port: its listener, while it sleeps.
ConnectPort(c) ==
  /\ conn[c].stage = "none"
  /\ \E s \in Server, script \in Scripts:
       /\ listener[s] = "open"
       /\ conn' = [conn EXCEPT ![c] = [NoConn EXCEPT !.via = s, !.target = s, !.todo = script,
                     !.stage = "asleep", !.timer = TRUE, !.tracked = TRUE]]
  /\ UNCHANGED <<asleep, jvm, listener, owner>>

ConnectRouter(c) ==
  /\ conn[c].stage = "none"
  /\ \E host \in HostNames, script \in Scripts:
       conn' = [conn EXCEPT ![c] = [NoConn EXCEPT !.via = "router", !.host = host,
                  !.todo = script, !.stage = "reading", !.timer = TRUE]]
  /\ UNCHANGED <<asleep, jvm, listener, owner>>

\* Some of what the client has sent arrives.
Arrives(c) ==
  /\ conn[c].stage # "none" /\ conn[c].todo # <<>>
  /\ \E n \in 1..Len(conn[c].todo):
       conn' = [conn EXCEPT ![c] = Given([@ EXCEPT !.todo = SubSeq(@, n + 1, Len(@))],
                                         SubSeq(conn[c].todo, 1, n))]
  /\ UNCHANGED <<asleep, jvm, listener, owner>>

\* The client leaves; its listeners clear their timers, where they are still there.
Leaves(c) ==
  /\ conn[c].stage \notin {"none", "gone"}
  /\ conn' = [conn EXCEPT ![c] = [Gone EXCEPT !.timer = conn[c].stage = "ended" /\ conn[c].timer]]
  /\ UNCHANGED <<asleep, jvm, listener, owner>>

\* Five seconds without a handshake (or, for a sleeper's client, without a ping).
\* The router gives the client to the default server, and does so as well for one
\* that it gave up before.
Timeout(c) ==
  LET k == conn[c] IN
  /\ k.timer
  /\ conn' = [conn EXCEPT ![c] =
       IF k.stage \in {"asleep", "status"} THEN Finished(k)
       ELSE IF ServerFor(Fallback) = Nobody THEN Finished(k)
       ELSE IF k.stage = "gone" THEN [k EXCEPT !.timer = FALSE]
       ELSE Dialled(k, Fallback)]
  /\ UNCHANGED <<asleep, jvm, listener, owner>>

\* The game answers, or nobody does.
UpstreamAnswers(c) ==
  LET s == conn[c].target IN
  /\ conn[c].stage = "dialling"
  /\ \/ s \in jvm /\ conn' = [conn EXCEPT ![c].stage = "piped"]
     \/ conn' = [conn EXCEPT ![c].stage = "ended"]
  /\ UNCHANGED <<asleep, jvm, listener, owner>>

\* The game ends the connection, or exits.
UpstreamEnds(c) ==
  /\ conn[c].stage = "piped"
  /\ conn' = [conn EXCEPT ![c].stage = "ended"]
  /\ UNCHANGED <<asleep, jvm, listener, owner>>

-----------------------------------------------------------------------------
(* Waking.                                                                 *)

\* socket.end(loginDisconnect(...)), unless the socket is ended or gone.
Reply(c, message) ==
  conn' = [conn EXCEPT ![c] = IF @.stage # "waking" THEN @
                              ELSE [@ EXCEPT !.reply = message, !.stage = "ended"]]

\* Four seconds have passed and the start is not decided.
StillWaiting(c) ==
  /\ conn[c].stage = "waking"
  /\ Reply(c, "waiting")
  /\ UNCHANGED <<asleep, jvm, listener, owner>>

\* wake() finds the server owned, or awake by now.
WakeRefused(c) ==
  LET s == conn[c].target IN
  /\ conn[c].stage = "waking" /\ c \notin {owner[t]: t \in Server}
  /\ owner[s] # Nobody \/ s \notin asleep
  /\ Reply(c, "refused")
  /\ UNCHANGED <<asleep, jvm, listener, owner>>

\* Somebody starts a sleeper: the port is closed first.  Open sockets are ended;
\* the ones that wake are no longer among them.
Closing(s) ==
  IF listener[s] = "open"
    THEN /\ listener' = [listener EXCEPT ![s] = "closing"]
         /\ conn' = [c \in Client |->
              IF conn[c].tracked /\ conn[c].via = s /\ conn[c].stage # "ended"
                THEN Finished(conn[c]) ELSE conn[c]]
    ELSE UNCHANGED <<listener, conn>>

WakeBegins(c) ==
  LET s == conn[c].target IN
  /\ conn[c].stage = "waking" /\ c \notin {owner[t]: t \in Server}
  /\ owner[s] = Nobody /\ s \in asleep
  /\ owner' = [owner EXCEPT ![s] = c]
  /\ Closing(s)
  /\ UNCHANGED <<asleep, jvm>>

PanelStarts(s) ==
  /\ owner[s] = Nobody /\ s \in asleep
  /\ owner' = [owner EXCEPT ![s] = "panel"]
  /\ Closing(s)
  /\ UNCHANGED <<asleep, jvm>>

\* All connections have ended, or 250 ms are over and the rest is cut.  The
\* row says starting from here on.
PortClosed(s) ==
  /\ listener[s] = "closing"
  /\ listener' = [listener EXCEPT ![s] = "closed"]
  /\ conn' = [c \in Client |->
       IF conn[c].tracked /\ conn[c].via = s
         THEN Gone ELSE conn[c]]
  /\ asleep' = asleep \ {s}
  /\ UNCHANGED <<jvm, owner>>

\* Docker accepts the start: whoever asked, and still listens, is told.
Started(s) ==
  /\ owner[s] # Nobody /\ listener[s] = "closed"
  /\ owner' = [owner EXCEPT ![s] = Nobody]
  /\ IF owner[s] \in Client THEN Reply(owner[s], "started") ELSE UNCHANGED conn
  /\ UNCHANGED <<asleep, jvm, listener>>

\* It refuses, or throws: the server sleeps on and its listener comes back.
StartFailed(s) ==
  /\ owner[s] # Nobody /\ listener[s] = "closed"
  /\ asleep' = asleep \cup {s}
  /\ listener' = [listener EXCEPT ![s] = "open"]
  /\ owner' = [owner EXCEPT ![s] = Nobody]
  /\ IF owner[s] \in Client THEN Reply(owner[s], "failed") ELSE UNCHANGED conn
  /\ UNCHANGED jvm

\* The game's port opens, and closes; a server goes to sleep.
GameUp(s) ==
  /\ s \notin asleep \cup jvm /\ owner[s] = Nobody
  /\ jvm' = jvm \cup {s}
  /\ UNCHANGED <<conn, asleep, listener, owner>>

Sleeps(s) ==
  /\ s \in jvm /\ owner[s] = Nobody
  /\ jvm' = jvm \ {s} /\ asleep' = asleep \cup {s}
  /\ listener' = [listener EXCEPT ![s] = "open"]
  /\ UNCHANGED <<conn, owner>>

-----------------------------------------------------------------------------

Init ==
  /\ conn = [c \in Client |-> NoConn]
  /\ asleep \in SUBSET Server /\ jvm = Server \ asleep
  /\ listener = [s \in Server |-> IF s \in asleep THEN "open" ELSE "closed"]
  /\ owner = [s \in Server |-> Nobody]

Next ==
  \/ \E c \in Client:
       \/ ConnectPort(c) \/ ConnectRouter(c) \/ Arrives(c) \/ Leaves(c) \/ Timeout(c)
       \/ UpstreamAnswers(c) \/ UpstreamEnds(c)
       \/ StillWaiting(c) \/ WakeRefused(c) \/ WakeBegins(c)
  \/ \E s \in Server:
       \/ PanelStarts(s) \/ PortClosed(s) \/ Started(s) \/ StartFailed(s)
       \/ GameUp(s) \/ Sleeps(s)

Spec == Init /\ [][Next]_vars

\* Timers fire, and a dial ends.
Fires(c) == Timeout(c) \/ StillWaiting(c) \/ UpstreamAnswers(c)

FairSpec == Spec /\ \A c \in Client: WF_vars(Fires(c))

-----------------------------------------------------------------------------
(* Properties.                                                             *)

Stages == {"none", "reading", "asleep", "status", "waking", "dialling", "piped", "ended", "gone"}

\* Every variable has its type.
TypeOK ==
  /\ asleep \subseteq Server /\ jvm \subseteq Server
  /\ listener \in [Server -> {"open", "closing", "closed"}]
  /\ owner \in [Server -> Client \cup {"panel", Nobody}]
  /\ \A c \in Client: conn[c].stage \in Stages

\* A client that asked to join is never cut off without a word, whatever
\* becomes of the port meanwhile, and "started" is said only by the start of
\* the server it asked for.
JoinsAreAnswered ==
  [][\A c \in Client:
       /\ conn[c].stage = "waking" /\ conn'[c].stage = "ended" => conn'[c].reply # conn[c].reply
       /\ conn'[c].reply = "started" /\ conn[c].reply # "started" =>
            conn[c].target \notin asleep' /\ owner[conn[c].target] = c]_vars

\* No connection is held for ever: it is ended, handed to a game, or the client leaves.
ConnectionsEnd ==
  \A c \in Client: []<>(conn[c].stage \in {"none", "piped", "ended", "gone"})

\* What the documentation says of the router: handshakes have a limit.  A client
\* that was given up for it is not connected to a server afterwards.
LimitIsFinal ==
  [][\A c \in Client: conn[c].stage = "ended" => conn'[c].stage \in {"ended", "gone"}]_vars
=============================================================================
