----------------------------- MODULE DaemonBind -----------------------------
(***************************************************************************)
(* Who owns a repository's daemon.sock (crates/alt-cli: run() and bind()   *)
(* of bin/altd.rs, connect_or_spawn() of client.rs): daemons start, find a *)
(* socket file in the way, take it for stale or bow out, accept requests,  *)
(* and leave after an idle window, removing whatever socket file is there. *)
(***************************************************************************)
EXTENDS Naturals

CONSTANTS
    Server,      \* the daemon processes that clients spawn
    Caller,      \* the clients, one request each
    NoServer

ASSUME BindAssumption == NoServer \notin Server

VARIABLES
    socket,      \* the daemon whose socket the file daemon.sock is, or NoServer
    at,          \* where each daemon is
    workers,     \* the requests each daemon has accepted and not answered
    request,     \* where each client's request is
    peer         \* the daemon it is connected to

bindVars == <<socket, at, workers, request, peer>>

Starting  == {"start", "bound", "probe", "remove", "rebind"}
Listening == {"serving", "leaving"}
Over      == {"bowedOut", "failed", "left", "killed"}

BindInit ==
    /\ socket = NoServer
    /\ at = [d \in Server |-> "none"]
    /\ workers = [d \in Server |-> {}]
    /\ request = [c \in Caller |-> "idle"]
    /\ peer = [c \in Caller |-> NoServer]

Moves(d, where) == at' = [at EXCEPT ![d] = where]

\* connect() succeeds exactly when the file's socket is being listened on.
Reachable == socket # NoServer /\ at[socket] \in Listening

-----------------------------------------------------------------------------
(* connect_or_spawn() *)

Connect(c) ==
    /\ request[c] = "idle" /\ Reachable
    /\ request' = [request EXCEPT ![c] = "backlog"]
    /\ peer' = [peer EXCEPT ![c] = socket]
    /\ UNCHANGED <<socket, at, workers>>

SpawnServer(d) ==
    /\ at[d] = "none"
    /\ \E c \in Caller : request[c] = "idle" /\ ~Reachable
    /\ Moves(d, "start")
    /\ UNCHANGED <<socket, workers, request, peer>>

\* Polling for a daemon to come up takes too long: the client runs directly.
FallBack(c) ==
    /\ request[c] = "idle"
    /\ request' = [request EXCEPT ![c] = "direct"]
    /\ UNCHANGED <<socket, at, workers, peer>>

-----------------------------------------------------------------------------
(* bind() *)

\* UnixListener::bind makes the file first and listens afterwards (Listen).
TryBind(d) ==
    /\ at[d] = "start"
    /\ IF socket = NoServer THEN socket' = d /\ Moves(d, "bound")
                      ELSE Moves(d, "probe") /\ UNCHANGED socket
    /\ UNCHANGED <<workers, request, peer>>

Listen(d) ==
    /\ at[d] = "bound"
    /\ Moves(d, "serving")
    /\ UNCHANGED <<socket, workers, request, peer>>

Probe(d) ==
    /\ at[d] = "probe"
    /\ Moves(d, IF Reachable THEN "bowedOut" ELSE "remove")
    /\ UNCHANGED <<socket, workers, request, peer>>

RemoveStale(d) ==
    /\ at[d] = "remove"
    /\ socket' = NoServer
    /\ Moves(d, "rebind")
    /\ UNCHANGED <<workers, request, peer>>

Rebind(d) ==
    /\ at[d] = "rebind"
    /\ IF socket = NoServer THEN socket' = d /\ Moves(d, "bound")
                      ELSE Moves(d, "failed") /\ UNCHANGED socket
    /\ UNCHANGED <<workers, request, peer>>

-----------------------------------------------------------------------------
(* run() *)

Accept(d, c) ==
    /\ at[d] = "serving" /\ request[c] = "backlog" /\ peer[c] = d
    /\ workers' = [workers EXCEPT ![d] = @ \cup {c}]
    /\ request' = [request EXCEPT ![c] = "accepted"]
    /\ UNCHANGED <<socket, at, peer>>

Answer(d, c) ==
    /\ at[d] \in Listening /\ c \in workers[d]
    /\ workers' = [workers EXCEPT ![d] = @ \ {c}]
    /\ request' = [request EXCEPT ![c] = "answered"]
    /\ UNCHANGED <<socket, at, peer>>

\* Mutant: only the owner of the socket file may leave.
IdleExitOfOwner(d) ==
    /\ at[d] = "serving" /\ workers[d] = {} /\ socket = d
    /\ \A c \in Caller : ~(request[c] = "backlog" /\ peer[c] = d)
    /\ Moves(d, "leaving")
    /\ UNCHANGED <<socket, workers, request, peer>>

\* Mutant: the requests in flight are not counted.
IdleExitBusy(d) ==
    /\ at[d] = "serving"
    /\ \A c \in Caller : ~(request[c] = "backlog" /\ peer[c] = d)
    /\ Moves(d, "leaving")
    /\ UNCHANGED <<socket, workers, request, peer>>

\* The poll times out with nothing in the backlog and nothing in flight.
IdleExit(d) ==
    /\ at[d] = "serving" /\ workers[d] = {}
    /\ \A c \in Caller : ~(request[c] = "backlog" /\ peer[c] = d)
    /\ Moves(d, "leaving")
    /\ UNCHANGED <<socket, workers, request, peer>>

\* The listener closes after the file is gone; what waits in the backlog, unlike
\* what was accepted, is reset.
Close(d, how) ==
    /\ Moves(d, how)
    /\ workers' = [workers EXCEPT ![d] = {}]
    /\ request' = [c \in Caller |->
         IF peer[c] = d /\ request[c] \in {"backlog", "accepted"}
         THEN "lost" ELSE request[c]]
    /\ UNCHANGED peer

Leave(d) ==
    /\ at[d] = "leaving"
    /\ socket' = NoServer
    /\ Close(d, "left")

KillServer(d) ==
    /\ at[d] \in Starting \cup Listening
    /\ Close(d, "killed")
    /\ UNCHANGED socket

\* Mutant: the retry goes on as if it had been sent, with no connection.
RetryUnsent(c) ==
    /\ request[c] = "lost"
    /\ request' = [request EXCEPT ![c] = "sent"]
    /\ UNCHANGED <<socket, at, workers, peer>>

\* serve_write() tries again under the same id.
Retry(c) ==
    /\ request[c] = "lost"
    /\ request' = [request EXCEPT ![c] = "idle"]
    /\ UNCHANGED <<socket, at, workers, peer>>

ServerStep(d) ==
    \/ TryBind(d) \/ Listen(d) \/ Probe(d) \/ RemoveStale(d) \/ Rebind(d)
    \/ IdleExit(d) \/ Leave(d)
    \/ \E c \in Caller : Accept(d, c) \/ Answer(d, c)

BindNext ==
    \/ \E d \in Server : ServerStep(d) \/ SpawnServer(d) \/ KillServer(d)
    \/ \E c \in Caller : Connect(c) \/ FallBack(c) \/ Retry(c)

BindSpec == BindInit /\ [][BindNext]_bindVars

\* A daemon's threads run and its idle window ends; clients are under no
\* obligation to start, to retry or to spawn, and nobody has to be killed.
BindFairSpec == BindSpec /\ \A d \in Server : WF_bindVars(ServerStep(d))

-----------------------------------------------------------------------------
\* The types: what the socket file may lead to, and where run() and its clients
\* may be.
BindTypeOK ==
    /\ socket \in Server \cup {NoServer}
    /\ at \in [Server -> {"none"} \cup Starting \cup Listening \cup Over]
    /\ workers \in [Server -> SUBSET Caller]
    /\ request \in [Caller -> {"idle", "backlog", "accepted", "answered", "lost", "direct"}]
    /\ peer \in [Caller -> Server \cup {NoServer}]

\* The idle exit of a daemon never drops a request it accepted: only a kill does,
\* for the loop leaves when `active`, counted before the worker starts, is zero.
ExitDropsNothing ==
    [][\A c \in Caller : request[c] = "accepted" /\ request'[c] = "lost" => at'[peer[c]] = "killed"]_bindVars

\* A daemon that lost its socket file to another, so that no client can reach
\* it, is not left running for ever: it ends when its idle window does.
OrphansEnd ==
    \A d \in Server : (at[d] = "serving" /\ socket # d) ~> (at[d] \in Over)

\* The comment of bind: a starter bows out "if a live daemon already owns it".
OneDaemon == \A d, e \in Server : at[d] = "serving" /\ at[e] = "serving" => d = e
=============================================================================
