------------------------------ MODULE CliServer ------------------------------
(***************************************************************************)
(* The command line interface server: cli::server::server,                 *)
(* connection_manager and the asynchronous part of connection.  One thread *)
(* runs io_service::run(), so a completion handler is one atomic step; the *)
(* clients, the operating system that completes the asynchronous           *)
(* operations, and the thread that calls server::stop() interleave with    *)
(* the handlers.                                                           *)
(*                                                                         *)
(* Every asynchronous operation is followed from its start to the call of  *)
(* its handler: "pending" is started, and an outcome ("done", "data", ...) *)
(* says that the completion is queued and the handler not called yet.      *)
(* io_service does not promise to call the handlers of different           *)
(* operations in the order in which the operations completed, so any       *)
(* queued completion may be the next one.                                  *)
(***************************************************************************)
EXTENDS FiniteSets

CONSTANTS Conns,        \* connection objects; a bound: all the process ever makes
          AcceptErrors  \* whether the OS may complete an accept with an error

ASSUME AcceptErrorsAssumption == AcceptErrors \in BOOLEAN

VARIABLES run,          \* server::run(): "before", "running", "returned"
          stopq,        \* handle_stop, posted by stop()
          acceptorOpen, \* whether acceptor_ is open
          acc,          \* the asynchronous accept of the server
          next,         \* new_connection_, the connection the accept fills
          manager,      \* connection_manager_.connections_
          sock,         \* sock[c]: socket_ of connection c
          rd,           \* rd[c]: the asynchronous read of connection c
          peer          \* peer[c]: the client at the other end of c

reactor == <<stopq, acceptorOpen, acc, next, manager, sock, rd>>
vars == <<run, reactor, peer>>

AcceptStates == {"idle", "pending", "done", "error"}
ReadStates == {"idle", "pending", "data", "close", "eof", "aborted", "bad"}

\* The objects `new connection(...)` may still return.
Unborn == {c \in Conns : sock[c] = "none" /\ c # next}

TypeOK ==
  /\ run \in {"before", "running", "returned"}
  /\ stopq \in {"never", "posted", "handled"}
  /\ acceptorOpen \in BOOLEAN
  /\ acc \in AcceptStates
  /\ manager \subseteq Conns
  /\ next \in Conns \ manager
  /\ sock \in [Conns -> {"none", "open", "closed"}]
  /\ rd \in [Conns -> ReadStates]
  /\ peer \in [Conns -> {"none", "connected", "left"}]

-----------------------------------------------------------------------------
(* server::server(): the acceptor listens and the first accept is started  *)
(* before run() is called.                                                 *)

Init ==
  /\ run = "before"
  /\ stopq = "never"
  /\ acceptorOpen = TRUE
  /\ acc = "pending"
  /\ next \in Conns
  /\ manager = {}
  /\ sock = [d \in Conns |-> "none"]
  /\ rd = [d \in Conns |-> "idle"]
  /\ peer = [d \in Conns |-> "none"]

-----------------------------------------------------------------------------
(* The operating system and the clients.                                   *)

\* A client connects.  A connection object has to be left for the next
\* accept: the bound Conns.
AcceptCompletes ==
  /\ acc = "pending" /\ acceptorOpen
  /\ Unborn # {}
  /\ acc' = "done"
  /\ sock' = [sock EXCEPT ![next] = "open"]
  /\ peer' = [peer EXCEPT ![next] = "connected"]
  /\ UNCHANGED <<run, stopq, acceptorOpen, next, manager, rd>>

AcceptFails ==
  /\ AcceptErrors
  /\ acc = "pending"
  /\ acc' = "error"
  /\ UNCHANGED <<run, stopq, acceptorOpen, next, manager, sock, rd, peer>>

\* Bytes arrive: `kind` is "close" when they complete a CLOSE command, and
\* "data" when they complete another command, none, or are invalid.
ReadCompletes(c, kind) ==
  /\ rd[c] = "pending" /\ peer[c] = "connected"
  /\ rd' = [rd EXCEPT ![c] = kind]
  /\ UNCHANGED <<run, stopq, acceptorOpen, acc, next, manager, sock, peer>>

ClientLeaves(c) ==
  /\ peer[c] = "connected"
  /\ peer' = [peer EXCEPT ![c] = "left"]
  /\ UNCHANGED <<run, reactor>>

ReadEof(c) ==
  /\ rd[c] = "pending" /\ peer[c] = "left"
  /\ rd' = [rd EXCEPT ![c] = "eof"]
  /\ UNCHANGED <<run, stopq, acceptorOpen, acc, next, manager, sock, peer>>

-----------------------------------------------------------------------------
(* server::stop(), called from another thread: once, for g_stop_server()   *)
(* then waits for the server's thread and starts another server, if any.   *)

PostStop ==
  /\ stopq = "never"
  /\ stopq' = "posted"
  /\ UNCHANGED <<run, acceptorOpen, acc, next, manager, sock, rd, peer>>

-----------------------------------------------------------------------------
(* The handlers, called by io_service::run().                              *)

\* Closing a socket completes the read that is pending on it with
\* operation_aborted; a completion that is already queued keeps its result.
AfterClose(r) == IF r = "pending" THEN "aborted" ELSE r

\* The outcome of starting an operation on an open or a closed descriptor:
\* on a closed one it completes at once with bad_descriptor.
StartRead(s) == IF s = "open" THEN "pending" ELSE "bad"
StartAccept(open) == IF open THEN "pending" ELSE "error"

\* Mutants: new_connection_ is used again; no further accept is started.
HandleAcceptOkReusing ==
  /\ run = "running" /\ acc = "done"
  /\ manager' = manager \cup {next}
  /\ rd' = [rd EXCEPT ![next] = StartRead(sock[next])]
  /\ acc' = StartAccept(acceptorOpen)
  /\ UNCHANGED <<run, stopq, acceptorOpen, next, sock, peer>>

HandleAcceptOkOnce ==
  /\ run = "running" /\ acc = "done"
  /\ manager' = manager \cup {next}
  /\ rd' = [rd EXCEPT ![next] = StartRead(sock[next])]
  /\ next' \in Unborn
  /\ acc' = "idle"
  /\ UNCHANGED <<run, stopq, acceptorOpen, sock, peer>>

HandleAcceptOk ==
  /\ run = "running" /\ acc = "done"
  /\ manager' = manager \cup {next}
  /\ rd' = [rd EXCEPT ![next] = StartRead(sock[next])]
  /\ next' \in Unborn
  /\ acc' = StartAccept(acceptorOpen)
  /\ UNCHANGED <<run, stopq, acceptorOpen, sock, peer>>

\* handle_accept with an error returns: no accept is started again.
HandleAcceptError ==
  /\ run = "running" /\ acc = "error"
  /\ acc' = "idle"
  /\ UNCHANGED <<run, stopq, acceptorOpen, next, manager, sock, rd, peer>>

\* handle_read without an error: the command that the bytes complete, if
\* any, is handled, and the next read is started.
HandleReadOk(c) ==
  /\ run = "running" /\ rd[c] = "data"
  /\ rd' = [rd EXCEPT ![c] = StartRead(sock[c])]
  /\ UNCHANGED <<run, stopq, acceptorOpen, acc, next, manager, sock, peer>>

\* connection_manager::stop(c), given what becomes of c's read.  The first
\* form is a mutant: erase() is forgotten.
StopConnectionKeptInSet(c) ==
  /\ manager' = manager
  /\ sock' = [sock EXCEPT ![c] = "closed"]

StopConnection(c) ==
  /\ manager' = manager \ {c}
  /\ sock' = [sock EXCEPT ![c] = "closed"]

\* The CLOSE command: disconnect_client(), then handle_read still starts a
\* read, on the closed socket.
HandleClose(c) ==
  /\ run = "running" /\ rd[c] = "close"
  /\ StopConnection(c)
  /\ rd' = [rd EXCEPT ![c] = StartRead("closed")]
  /\ UNCHANGED <<run, stopq, acceptorOpen, acc, next, peer>>

\* Mutants: the connection is not stopped; a failed read is tried again.
HandleReadErrorIgnored(c) ==
  /\ run = "running" /\ rd[c] \in {"eof", "bad", "aborted"}
  /\ rd' = [rd EXCEPT ![c] = "idle"]
  /\ UNCHANGED <<run, stopq, acceptorOpen, acc, next, manager, sock, peer>>

HandleReadErrorRetried(c) ==
  /\ run = "running" /\ rd[c] \in {"eof", "bad", "aborted"}
  /\ IF rd[c] = "eof" THEN StopConnection(c) ELSE UNCHANGED <<manager, sock>>
  /\ rd' = [rd EXCEPT ![c] = StartRead(sock'[c])]
  /\ UNCHANGED <<run, stopq, acceptorOpen, acc, next, peer>>

\* handle_read with an error: the connection is stopped, unless the read
\* was aborted because its socket has been closed.
HandleReadError(c) ==
  /\ run = "running" /\ rd[c] \in {"eof", "bad", "aborted"}
  /\ rd' = [rd EXCEPT ![c] = "idle"]
  /\ IF rd[c] = "aborted" THEN UNCHANGED <<manager, sock>> ELSE StopConnection(c)
  /\ UNCHANGED <<run, stopq, acceptorOpen, acc, next, peer>>

\* connection_manager::stop_all(), after two mutants: it is not called; it
\* empties the set without stopping the connections.
StopAllSkipped == UNCHANGED <<manager, sock, rd>>

StopAllKeepsSockets ==
  /\ manager' = {}
  /\ UNCHANGED <<sock, rd>>

StopAll ==
  /\ sock' = [c \in Conns |-> IF c \in manager THEN "closed" ELSE sock[c]]
  /\ rd' = [c \in Conns |-> IF c \in manager THEN AfterClose(rd[c]) ELSE rd[c]]
  /\ manager' = {}

\* acceptor_.close() aborts a pending accept; one that has completed stays
\* queued, with its connection.
HandleStop ==
  /\ run = "running" /\ stopq = "posted"
  /\ stopq' = "handled"
  /\ acceptorOpen' = FALSE
  /\ acc' = IF acc = "pending" THEN "error" ELSE acc
  /\ StopAll
  /\ UNCHANGED <<run, next, peer>>

RunStarts ==
  /\ run = "before"
  /\ run' = "running"
  /\ UNCHANGED <<reactor, peer>>

\* io_service::run() returns when nothing is outstanding: no operation is
\* pending and no handler is queued.
RunReturns ==
  /\ run = "running"
  /\ stopq # "posted" /\ acc = "idle" /\ \A c \in Conns : rd[c] = "idle"
  /\ run' = "returned"
  /\ UNCHANGED <<reactor, peer>>

-----------------------------------------------------------------------------

System ==
  \/ AcceptCompletes
  \/ AcceptFails
  \/ \E c \in Conns : \E kind \in {"data", "close"} : ReadCompletes(c, kind)
  \/ \E c \in Conns : ClientLeaves(c)
  \/ \E c \in Conns : ReadEof(c)

Handler ==
  \/ HandleAcceptOk
  \/ HandleAcceptError
  \/ \E c \in Conns : HandleReadOk(c) \/ HandleClose(c) \/ HandleReadError(c)
  \/ HandleStop
  \/ RunReturns

Next == System \/ Handler \/ RunStarts \/ PostStop

\* The server thread runs and calls every queued handler, in an order that
\* forgets none; the OS reports the end of a stream.  Clients owe nothing:
\* they may stay connected and silent for ever.
Fairness ==
  /\ WF_vars(RunStarts)
  /\ WF_vars(HandleAcceptOk)
  /\ WF_vars(HandleAcceptError)
  /\ WF_vars(HandleStop)
  /\ WF_vars(RunReturns)
  /\ \A c \in Conns : /\ WF_vars(HandleReadOk(c))
                      /\ WF_vars(HandleClose(c))
                      /\ WF_vars(HandleReadError(c))
                      /\ WF_vars(ReadEof(c))

Spec == Init /\ [][Next]_vars
FairSpec == Spec /\ Fairness

-----------------------------------------------------------------------------
(* The connections as the rest of the plugin sees them: a connection is    *)
(* open from handle_accept, which starts it, until its socket is closed.   *)

ServiceState ==
  IF run = "returned" THEN "down"
  ELSE IF ~acceptorOpen THEN "draining"
  ELSE IF acc \in {"error", "idle"} THEN "deaf" ELSE "serving"

Service ==
  INSTANCE ConnService WITH
    srv <- ServiceState,
    live <- manager,
    past <- {c \in Conns : sock[c] = "closed"},
    straggler <- ~acceptorOpen /\ acc = "done"

\* The asynchronous server implements ConnService: whatever the order in
\* which completions are handled, a connection is opened and closed once,
\* a stop closes every one, and run() returns only when none is left.
ImplementsService == Service!Spec

-----------------------------------------------------------------------------
(* Properties.                                                             *)

\* Between handlers the manager holds exactly the connections whose
\* sockets are open, except an accepted one whose handle_accept is still
\* queued: no open socket is out of stop_all()'s reach, and none is kept
\* after it was closed (server.cpp:64-83, connection_manager.cpp:20-37).
ManagedIffOpen ==
  \A c \in Conns :
    c \in manager <=> sock[c] = "open" /\ ~(c = next /\ acc = "done")

\* Every managed connection has a read outstanding, so that it is heard
\* and its end noticed, and no closed or unused socket has one pending, so
\* that run() is not held up by it (connection.cpp:52-64, 674-704).
ReadArmed ==
  \A c \in Conns :
    /\ c \in manager => rd[c] # "idle"
    /\ rd[c] = "pending" => c \in manager

\* A stop lets at most one more connection in: the one whose accept had
\* completed before the acceptor was closed (server.cpp:64-83).
AtMostOneLate == ~acceptorOpen => \A c, d \in manager : c = d

\* Once the stop has been handled, and no accept was caught between its
\* completion and its handler, run() returns, however long the clients
\* stay: what server.cpp:78-80 promises, in the cases where it holds.
StopDrains ==
  (~acceptorOpen /\ acc # "done" /\ manager = {}) ~> run = "returned"

\* A connection whose client has gone is forgotten (connection.cpp:700-703).
LeaverForgotten ==
  \A c \in Conns : peer[c] = "left" ~> c \notin manager /\ sock[c] = "closed"

=============================================================================
