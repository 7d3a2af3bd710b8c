---------------------------- MODULE ServerControl ----------------------------
(***************************************************************************)
(* The life of the command line interface server inside the player:        *)
(* foo_dsp_bfir.cpp's on_init, on_quit, g_start_server, g_stop_server,     *)
(* g_apply_preferences and g_cli_server_thread_worker, and the General     *)
(* preferences page that applies the settings.  The UI thread and the      *)
(* server's thread share cli_server, cli_server_thread and the             *)
(* configuration without a lock.                                           *)
(*                                                                         *)
(* The reactor variables of CliServer are those of the server that was     *)
(* constructed last, number `gen`; an earlier one has returned from run()  *)
(* and is never deleted, but the pointer cli_server may still name it.     *)
(***************************************************************************)
EXTENDS CliServer, Naturals

CONSTANTS Ports,      \* values of cfg_cli_port
          MaxApplies  \* bound: how often the user applies the preferences

ASSUME ControlAssumption == Ports # {} /\ MaxApplies \in Nat

VARIABLES process,    \* "up", "terminated" (uncaught exception), "undefined"
          ui,         \* where the UI thread is
          after,      \* what g_stop_server() was called for: "apply" or "quit"
          cfgEnable,  \* cfg_cli_enable
          cfgPort,    \* cfg_cli_port
          worker,     \* the thread cli_server_thread: "none" is NULL
          gen,        \* how many servers have been constructed
          cliServer,  \* the server that the pointer cli_server names, 0 for NULL
          port,       \* the port the worker has read for its server
          applies     \* how often apply() has run

control == <<process, ui, after, cfgEnable, cfgPort, worker, gen, cliServer, port, applies>>
allVars == <<vars, control>>

ControlTypeOK ==
  /\ TypeOK
  /\ process \in {"up", "terminated", "undefined"}
  /\ ui \in {"init", "idle", "stop", "join", "stopped", "quit"}
  /\ after \in {"apply", "quit"}
  /\ cfgEnable \in BOOLEAN
  /\ cfgPort \in Ports
  /\ worker \in {"none", "spawned", "building", "built", "serving"}
  /\ gen \in Nat
  /\ cliServer \in 0 .. gen
  /\ port \in Ports
  /\ applies \in Nat

\* Before the first server is constructed the reactor is that of no server.
ControlInit ==
  /\ Init
  /\ process = "up" /\ ui = "init" /\ after = "apply"
  /\ cfgEnable \in BOOLEAN /\ cfgPort \in Ports
  /\ worker = "none" /\ gen = 0 /\ cliServer = 0
  /\ port = cfgPort
  /\ applies = 0

-----------------------------------------------------------------------------
(* The UI thread.                                                          *)

\* g_start_server()
StartServer == worker' = "spawned"

OnInit ==
  /\ ui = "init"
  /\ ui' = "idle"
  /\ IF cfgEnable THEN StartServer ELSE UNCHANGED worker
  /\ UNCHANGED <<vars, process, after, cfgEnable, cfgPort, gen, cliServer, port, applies>>

\* prefs_gen::apply() stores what the dialog shows and calls
\* g_apply_preferences(), which begins with g_stop_server().
Apply(enable, p) ==
  /\ ui = "idle" /\ applies < MaxApplies
  /\ applies' = applies + 1
  /\ cfgEnable' = enable /\ cfgPort' = p
  /\ ui' = "stop" /\ after' = "apply"
  /\ UNCHANGED <<vars, process, worker, gen, cliServer, port>>

OnQuit ==
  /\ ui = "idle"
  /\ ui' = "stop" /\ after' = "quit"
  /\ UNCHANGED <<vars, process, cfgEnable, cfgPort, worker, gen, cliServer, port, applies>>

\* g_stop_server() without a thread.
StopNothing ==
  /\ ui = "stop" /\ worker = "none"
  /\ ui' = "stopped"
  /\ UNCHANGED <<vars, process, after, cfgEnable, cfgPort, worker, gen, cliServer, port, applies>>

\* cli_server->stop() through a pointer that was never assigned.
StopThroughNull ==
  /\ ui = "stop" /\ worker # "none" /\ cliServer = 0
  /\ process' = "undefined"
  /\ UNCHANGED <<vars, ui, after, cfgEnable, cfgPort, worker, gen, cliServer, port, applies>>

\* cli_server->stop(): the post reaches the server that the pointer names.
\* One that has returned from run() never calls a handler again.
\* The first form is a mutant that does not wait.
StopThroughPointerWithoutJoin ==
  /\ ui = "stop" /\ worker # "none" /\ cliServer # 0
  /\ IF cliServer = gen /\ stopq = "never" THEN PostStop ELSE UNCHANGED vars
  /\ ui' = "stopped" /\ worker' = "none"
  /\ UNCHANGED <<process, after, cfgEnable, cfgPort, gen, cliServer, port, applies>>

StopThroughPointer ==
  /\ ui = "stop" /\ worker # "none" /\ cliServer # 0
  /\ IF cliServer = gen /\ stopq = "never" THEN PostStop ELSE UNCHANGED vars
  /\ ui' = "join"
  /\ UNCHANGED <<process, after, cfgEnable, cfgPort, worker, gen, cliServer, port, applies>>

\* cli_server_thread->join() returns when the worker function has returned.
JoinServer ==
  /\ ui = "join"
  /\ worker = "serving" /\ run = "returned"
  /\ ui' = "stopped" /\ worker' = "none"
  /\ UNCHANGED <<vars, process, after, cfgEnable, cfgPort, gen, cliServer, port, applies>>

\* The rest of g_apply_preferences(); the first form is a mutant that starts
\* the server again whether it is still enabled or not.
RestartStale ==
  /\ ui = "stopped" /\ after = "apply"
  /\ ui' = "idle"
  /\ IF cfgEnable \/ gen # 0 THEN StartServer ELSE UNCHANGED worker
  /\ UNCHANGED <<vars, process, after, cfgEnable, cfgPort, gen, cliServer, port, applies>>

Restart ==
  /\ ui = "stopped" /\ after = "apply"
  /\ ui' = "idle"
  /\ IF cfgEnable THEN StartServer ELSE UNCHANGED worker
  /\ UNCHANGED <<vars, process, after, cfgEnable, cfgPort, gen, cliServer, port, applies>>

\* The rest of on_quit(): the path the server's threads use is cleaned up.
CleanPath ==
  /\ ui = "stopped" /\ after = "quit"
  /\ ui' = "quit"
  /\ UNCHANGED <<vars, process, after, cfgEnable, cfgPort, worker, gen, cliServer, port, applies>>

-----------------------------------------------------------------------------
(* The server's thread: g_cli_server_thread_worker().                      *)

\* Mutant: the pointer is assigned before there is a server.
WorkerReadsPortAndAssigns ==
  /\ worker = "spawned"
  /\ worker' = "building"
  /\ port' = cfgPort
  /\ cliServer' = gen + 1
  /\ UNCHANGED <<vars, process, ui, after, cfgEnable, cfgPort, gen, applies>>

WorkerReadsPort ==
  /\ worker = "spawned"
  /\ worker' = "building"
  /\ port' = cfgPort
  /\ UNCHANGED <<vars, process, ui, after, cfgEnable, cfgPort, gen, cliServer, applies>>

\* The constructor throws when the address cannot be resolved or bound;
\* nothing catches it on this thread.
ConstructorThrows ==
  /\ worker = "building"
  /\ process' = "terminated"
  /\ UNCHANGED <<vars, ui, after, cfgEnable, cfgPort, worker, gen, cliServer, port, applies>>

WorkerConstructs ==
  /\ worker = "building"
  /\ worker' = "built"
  /\ gen' = gen + 1
  /\ run' = "before"
  /\ stopq' = "never"
  /\ acceptorOpen' = TRUE
  /\ acc' = "pending"
  /\ next' \in Conns
  /\ manager' = {}
  /\ sock' = [d \in Conns |-> "none"]
  /\ rd' = [d \in Conns |-> "idle"]
  /\ peer' = [d \in Conns |-> "none"]
  /\ UNCHANGED <<process, ui, after, cfgEnable, cfgPort, cliServer, port, applies>>

\* The pointer is assigned when the constructor has returned, and run() is
\* called through it.
WorkerAssigns ==
  /\ worker = "built"
  /\ worker' = "serving"
  /\ cliServer' = gen
  /\ UNCHANGED <<vars, process, ui, after, cfgEnable, cfgPort, gen, port, applies>>

\* The server that the worker has constructed.
ServerStep ==
  /\ worker \in {"built", "serving"}
  /\ \/ System
     \/ Handler
     \/ worker = "serving" /\ RunStarts
  /\ UNCHANGED control

-----------------------------------------------------------------------------

UiStep ==
  \/ OnInit
  \/ \E e \in BOOLEAN, p \in Ports : Apply(e, p)
  \/ OnQuit
  \/ StopNothing \/ StopThroughNull \/ StopThroughPointer
  \/ JoinServer
  \/ Restart \/ CleanPath

WorkerStep ==
  \/ WorkerReadsPort \/ ConstructorThrows \/ WorkerConstructs \/ WorkerAssigns

ControlNext == process = "up" /\ (UiStep \/ WorkerStep \/ ServerStep)

ControlSpec == ControlInit /\ [][ControlNext]_allVars

\* Both threads run while the process is up: the UI thread finishes the
\* call it is in, the worker goes on to run(), and the reactor calls every
\* queued handler.  The user owes no click and a client no byte.
Running(A) == process = "up" /\ A
ServerHandles(A) == Running(worker \in {"built", "serving"} /\ A /\ UNCHANGED control)

ControlFairness ==
  /\ WF_allVars(Running(StopNothing \/ StopThroughNull \/ StopThroughPointer))
  /\ WF_allVars(Running(JoinServer))
  /\ WF_allVars(Running(Restart \/ CleanPath))
  /\ WF_allVars(Running(WorkerReadsPort))
  /\ WF_allVars(Running(WorkerConstructs \/ ConstructorThrows))
  /\ WF_allVars(Running(WorkerAssigns))
  /\ WF_allVars(ServerHandles(worker = "serving" /\ RunStarts))
  /\ WF_allVars(ServerHandles(HandleAcceptOk))
  /\ WF_allVars(ServerHandles(HandleAcceptError))
  /\ WF_allVars(ServerHandles(HandleStop))
  /\ WF_allVars(ServerHandles(RunReturns))
  /\ \A c \in Conns : /\ WF_allVars(ServerHandles(HandleReadOk(c)))
                      /\ WF_allVars(ServerHandles(HandleClose(c)))
                      /\ WF_allVars(ServerHandles(HandleReadError(c)))
                      /\ WF_allVars(ServerHandles(ReadEof(c)))

ControlFairSpec == ControlSpec /\ ControlFairness

-----------------------------------------------------------------------------
(* Properties.                                                             *)

\* Whenever the UI thread is back at rest, the preferences that the user
\* applied last are in force: there is a server thread exactly when the
\* interface is enabled, its port is the configured one, and nothing has
\* told it to stop, although the port is read later and by another thread
\* (foo_dsp_bfir.cpp:510-539, prefs_gen.cpp:52-61).
AppliedPrefsInForce ==
  process = "up" /\ ui = "idle" =>
    /\ cfgEnable <=> worker # "none"
    /\ worker \in {"building", "built", "serving"} => port = cfgPort
    /\ worker \in {"built", "serving"} => stopq = "never" /\ acceptorOpen

\* When on_quit cleans up the path, no server thread is left that could
\* still handle a command, and no connection (foo_dsp_bfir.cpp:63-70).
QuitIsQuiet ==
  ui = "quit" => worker = "none" /\ manager = {} /\ run # "running"

\* While no accept fails, a server that has not been told to stop always
\* has an accept outstanding, so that its run() cannot return
\* (server.cpp:48-55, 64-83).
KeepsAccepting ==
  ~AcceptErrors /\ worker \in {"built", "serving"} /\ acceptorOpen => acc # "idle" /\ acc # "error"

\* A UI thread that waits for a server which has handled the stop, and let
\* no straggler in, is released: Apply and Quit return
\* (foo_dsp_bfir.cpp:521-529).
ApplyReturns ==
  (ui = "join" /\ cliServer = gen /\ worker = "serving" /\ stopq = "handled" /\ manager = {} /\ acc # "done")
    ~> ui # "join"

\* server.cpp:59-60: "Post a call to the stop function so that
\* server::stop() is safe to call from any thread."  Here: g_stop_server()
\* calls it on the server that its thread runs.
StopIsSafe ==
  /\ process # "undefined"
  /\ ui = "join" => worker = "serving" /\ cliServer = gen

=============================================================================
