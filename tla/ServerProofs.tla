----------------------------- MODULE ServerProofs -----------------------------
(***************************************************************************)
(* The CLI server, for every set of connections.  Of one server, CliServer:*)
(* the connection manager's safety invariants, and the step simulation     *)
(* that shows the asynchronous server to implement ConnService.  Of its    *)
(* life cycle, ServerControl, for every number of ports and of applied     *)
(* preferences: the preferences the user sees applied are those of the     *)
(* server that runs, and quitting leaves no server thread behind.  Of the  *)
(* commands of one client, CliFraming, for any commands and any cuts of    *)
(* their bytes: what is executed is what was sent, in order, each once.    *)
(***************************************************************************)
EXTENDS ServerControl, CliFraming, SequenceTheorems, TLAPS

\* The accept chain: the one asynchronous accept and the connection it
\* fills.  The socket of new_connection_ is open exactly while a completed
\* accept waits for its handler; a pending accept means an open acceptor;
\* and a straggler is only ever alone.
AcceptChain ==
  /\ acc = "done" => sock[next] = "open"
  /\ acc # "done" => sock[next] = "none"
  /\ rd[next] = "idle"
  /\ acc = "pending" => acceptorOpen
  /\ stopq = "handled" <=> ~acceptorOpen
  /\ ~acceptorOpen /\ acc = "done" => manager = {}

\* The reads: an unused connection has none, and a failed read that was
\* not ended by the client belongs to a closed socket.
ReadChain ==
  \A c \in Conns :
    /\ sock[c] = "none" => rd[c] = "idle"
    /\ rd[c] \in {"bad", "aborted"} => sock[c] = "closed"

IInv ==
  /\ TypeOK
  /\ ManagedIffOpen
  /\ ReadArmed
  /\ AtMostOneLate
  /\ AcceptChain
  /\ ReadChain

LEMMA InitIInv == Init => IInv
BY DEF Init, IInv, TypeOK, ManagedIffOpen, ReadArmed, AtMostOneLate, AcceptChain,
       ReadChain, AcceptStates, ReadStates

LEMMA StepIInv == IInv /\ [Next]_vars => IInv'
<1> SUFFICES ASSUME IInv, [Next]_vars PROVE IInv'
  OBVIOUS
<1> USE DEF IInv, TypeOK, ManagedIffOpen, ReadArmed, AtMostOneLate, AcceptChain,
            ReadChain, AcceptStates, ReadStates
<1>1. CASE AcceptCompletes
  BY <1>1 DEF AcceptCompletes, Unborn, reactor
<1>2. CASE AcceptFails
  BY <1>2 DEF AcceptFails, reactor
<1>3. ASSUME NEW c \in Conns, NEW kind \in {"data", "close"}, ReadCompletes(c, kind)
      PROVE IInv'
  BY <1>3 DEF ReadCompletes, reactor
<1>4. ASSUME NEW c \in Conns, ClientLeaves(c)
      PROVE IInv'
  BY <1>4 DEF ClientLeaves, reactor
<1>5. ASSUME NEW c \in Conns, ReadEof(c)
      PROVE IInv'
  BY <1>5 DEF ReadEof, reactor
<1>6. CASE HandleAcceptOk
  BY <1>6 DEF HandleAcceptOk, Unborn, StartRead, StartAccept, reactor
<1>7. CASE HandleAcceptError
  BY <1>7 DEF HandleAcceptError, reactor
<1>8. ASSUME NEW c \in Conns, HandleReadOk(c)
      PROVE IInv'
  BY <1>8 DEF HandleReadOk, StartRead, reactor
<1>9. ASSUME NEW c \in Conns, HandleClose(c)
      PROVE IInv'
  BY <1>9 DEF HandleClose, StartRead, StopConnection, reactor
<1>10. ASSUME NEW c \in Conns, HandleReadError(c)
      PROVE IInv'
  BY <1>10 DEF HandleReadError, StopConnection, reactor
<1>11. CASE HandleStop
  BY <1>11 DEF HandleStop, StopAll, AfterClose, reactor
<1>12. CASE RunReturns
  BY <1>12 DEF RunReturns, reactor
<1>13. CASE RunStarts
  BY <1>13 DEF RunStarts, reactor
<1>14. CASE PostStop
  BY <1>14 DEF PostStop, reactor
<1>15. CASE UNCHANGED vars
  BY <1>15 DEF vars, reactor
<1>16. QED
  BY <1>1, <1>2, <1>3, <1>4, <1>5, <1>6, <1>7, <1>8, <1>9, <1>10, <1>11, <1>12, <1>13, <1>14, <1>15 DEF Next, System, Handler

THEOREM Inductive == Spec => []IInv
<1>1. Init => IInv
  BY InitIInv
<1>2. IInv /\ [Next]_vars => IInv'
  BY StepIInv
<1>3. QED
  BY <1>1, <1>2, PTL DEF Spec

\* Type correctness: in particular the connections are numbered by the order
\* in which they are created, and the one waiting for the next client is in
\* no manager's set.
THEOREM TypeCorrect == Spec => []TypeOK
<1>1. IInv => TypeOK
  BY DEF IInv
<1>2. QED
  BY <1>1, Inductive, PTL

\* The manager's set is exactly the connections with open sockets, but for
\* an accepted one that handle_accept has not seen yet: stop_all() misses
\* no other, and no closed connection is retained.
THEOREM ManagedIffOpenHolds == Spec => []ManagedIffOpen
<1>1. IInv => ManagedIffOpen
  BY DEF IInv
<1>2. QED
  BY <1>1, Inductive, PTL

\* Every managed connection is being read, and nothing is pending on any
\* other socket.
THEOREM ReadArmedHolds == Spec => []ReadArmed
<1>1. IInv => ReadArmed
  BY DEF IInv
<1>2. QED
  BY <1>1, Inductive, PTL

\* After the stop at most one connection is ever open.
THEOREM AtMostOneLateHolds == Spec => []AtMostOneLate
<1>1. IInv => AtMostOneLate
  BY DEF IInv
<1>2. QED
  BY <1>1, Inductive, PTL

LEMMA StepService == IInv /\ IInv' /\ [Next]_vars => [Service!Next]_(Service!svars)
<1> SUFFICES ASSUME IInv, IInv', [Next]_vars PROVE [Service!Next]_(Service!svars)
  OBVIOUS
<1> USE DEF IInv, TypeOK, ManagedIffOpen, AcceptChain, ReadChain, AcceptStates,
            ReadStates, ServiceState, Service!svars
<1>1. CASE AcceptCompletes
  BY <1>1 DEF AcceptCompletes
<1>2. CASE AcceptFails
  BY <1>2 DEF AcceptFails, Service!Next, Service!GoDeaf
<1>3. ASSUME NEW c \in Conns, NEW kind \in {"data", "close"}, ReadCompletes(c, kind)
      PROVE [Service!Next]_(Service!svars)
  BY <1>3 DEF ReadCompletes
<1>4. ASSUME NEW c \in Conns, ClientLeaves(c)
      PROVE [Service!Next]_(Service!svars)
  BY <1>4 DEF ClientLeaves, reactor
<1>5. ASSUME NEW c \in Conns, ReadEof(c)
      PROVE [Service!Next]_(Service!svars)
  BY <1>5 DEF ReadEof
<1>6. CASE HandleAcceptOk
  BY <1>6 DEF HandleAcceptOk, Unborn, StartRead, StartAccept, Service!Next, Service!Open
<1>7. CASE HandleAcceptError
  BY <1>7 DEF HandleAcceptError
<1>8. ASSUME NEW c \in Conns, HandleReadOk(c)
      PROVE [Service!Next]_(Service!svars)
  BY <1>8 DEF HandleReadOk
<1>9. ASSUME NEW c \in Conns, HandleClose(c)
      PROVE [Service!Next]_(Service!svars)
  BY <1>9 DEF HandleClose, StopConnection, Service!Next, Service!Close
<1>10. ASSUME NEW c \in Conns, HandleReadError(c)
      PROVE [Service!Next]_(Service!svars)
  BY <1>10 DEF HandleReadError, StopConnection, Service!Next, Service!Close
<1>11. CASE HandleStop
  BY <1>11 DEF HandleStop, StopAll, Service!Next, Service!Shutdown
<1>12. CASE RunReturns
  BY <1>12 DEF RunReturns, reactor, ReadArmed, Service!Next, Service!Down
<1>13. CASE RunStarts
  BY <1>13 DEF RunStarts, reactor
<1>14. CASE PostStop
  BY <1>14 DEF PostStop
<1>15. CASE UNCHANGED vars
  BY <1>15 DEF vars, reactor
<1>16. QED
  BY <1>1, <1>2, <1>3, <1>4, <1>5, <1>6, <1>7, <1>8, <1>9, <1>10, <1>11, <1>12, <1>13, <1>14, <1>15 DEF Next, System, Handler

\* The asynchronous server implements the service that hides its
\* completions: every connection is opened and closed once, a stop closes
\* all of them, at most one straggler follows, and run() returns only when
\* none is left.
THEOREM Implementation == Spec => ImplementsService
<1>1. Init => Service!Init
  BY DEF Init, Service!Init, ServiceState
<1>2. IInv /\ IInv' /\ [Next]_vars => [Service!Next]_(Service!svars)
  BY StepService
<1>3. QED
  BY <1>1, <1>2, Inductive, PTL DEF Spec, ImplementsService, Service!Spec

-----------------------------------------------------------------------------
(* The life cycle.                                                         *)

\* A server that has returned has nothing outstanding, and while no server
\* is constructed and unjoined the reactor is at rest.
ReactorAtRest ==
  /\ run = "returned" => acc = "idle" /\ \A c \in Conns : rd[c] = "idle"
  /\ worker \in {"none", "spawned", "building"} => run # "running" /\ manager = {}
  /\ worker = "built" => run = "before"

\* What the UI thread knows of the worker at each point of its calls.  The
\* stop of a server is posted only by the UI thread that then waits for it.
UiKnowsWorker ==
  /\ ui \in {"init", "stopped", "quit"} => worker = "none"
  /\ ui \in {"idle", "stop"} /\ worker \in {"built", "serving"} => stopq = "never"
  /\ ui = "idle" => (cfgEnable <=> worker # "none")
  /\ ui = "idle" /\ worker \in {"building", "built", "serving"} => port = cfgPort

CInv ==
  /\ ControlTypeOK
  /\ IInv
  /\ ReactorAtRest
  /\ UiKnowsWorker
  /\ KeepsAccepting

LEMMA InitCInv == ControlInit => CInv
<1> SUFFICES ASSUME ControlInit PROVE CInv
  OBVIOUS
<1>1. IInv
  BY InitIInv DEF ControlInit
<1>2. QED
  BY <1>1 DEF ControlInit, Init, CInv, ControlTypeOK, IInv, ReactorAtRest, UiKnowsWorker,
             KeepsAccepting

\* A step of the server, and the post of a stop, are steps of CliServer.
LEMMA StepReactor == CInv /\ ServerStep => IInv'
BY StepIInv DEF CInv, ServerStep, Next

\* What a step of the server leaves alone and what it does to the parts of
\* the invariant that the reactor shares with the UI.
LEMMA StepServer == CInv /\ ServerStep => CInv'
<1> SUFFICES ASSUME CInv, ServerStep PROVE CInv'
  OBVIOUS
<1>1. IInv'
  BY StepReactor
<1>2. UNCHANGED control
  BY DEF ServerStep
<1>3. ControlTypeOK'
  BY <1>1, <1>2 DEF CInv, ControlTypeOK, IInv, control
<1> USE DEF CInv, ControlTypeOK, IInv, TypeOK, ManagedIffOpen, ReadArmed, AcceptChain, ReadChain,
            AcceptStates, ReadStates, ReactorAtRest, UiKnowsWorker, KeepsAccepting, control
<1>4. CASE AcceptCompletes
  BY <1>1, <1>2, <1>3, <1>4 DEF AcceptCompletes
<1>5. CASE AcceptFails
  BY <1>1, <1>2, <1>3, <1>5 DEF AcceptFails
<1>6. ASSUME NEW c \in Conns, NEW kind \in {"data", "close"}, ReadCompletes(c, kind)
      PROVE CInv'
  BY <1>1, <1>2, <1>3, <1>6 DEF ReadCompletes
<1>7. ASSUME NEW c \in Conns, ClientLeaves(c)
      PROVE CInv'
  BY <1>1, <1>2, <1>3, <1>7 DEF ClientLeaves, reactor
<1>8. ASSUME NEW c \in Conns, ReadEof(c)
      PROVE CInv'
  BY <1>1, <1>2, <1>3, <1>8 DEF ReadEof
<1>9. CASE HandleAcceptOk
  BY <1>1, <1>2, <1>3, <1>9 DEF HandleAcceptOk, Unborn, StartAccept, StartRead
<1>10. CASE HandleAcceptError
  BY <1>1, <1>2, <1>3, <1>10 DEF HandleAcceptError
<1>11. ASSUME NEW c \in Conns, HandleReadOk(c)
      PROVE CInv'
  BY <1>1, <1>2, <1>3, <1>11 DEF HandleReadOk, StartRead
<1>12. ASSUME NEW c \in Conns, HandleClose(c)
      PROVE CInv'
  BY <1>1, <1>2, <1>3, <1>12 DEF HandleClose, StartRead, StopConnection
<1>13. ASSUME NEW c \in Conns, HandleReadError(c)
      PROVE CInv'
  BY <1>1, <1>2, <1>3, <1>13 DEF HandleReadError, StopConnection
<1>14. CASE HandleStop
  BY <1>1, <1>2, <1>3, <1>14 DEF HandleStop, StopAll, AfterClose
<1>15. CASE RunReturns
  BY <1>1, <1>2, <1>3, <1>15 DEF RunReturns, reactor
<1>16. CASE worker = "serving" /\ RunStarts
  BY <1>1, <1>2, <1>3, <1>16 DEF RunStarts, reactor
<1>17. QED
  BY <1>4, <1>5, <1>6, <1>7, <1>8, <1>9, <1>10, <1>11, <1>12, <1>13, <1>14, <1>15, <1>16 DEF ServerStep, System, Handler

\* Posting a stop is a step of CliServer too.
LEMMA StepPost == CInv /\ PostStop => IInv'
BY StepIInv DEF CInv, Next

LEMMA StepUi == CInv /\ UiStep => CInv'
<1> SUFFICES ASSUME CInv, UiStep PROVE CInv'
  OBVIOUS
<1>1. UNCHANGED vars => IInv'
  BY StepIInv DEF CInv
<1> USE DEF CInv, ControlTypeOK, ReactorAtRest, UiKnowsWorker, KeepsAccepting
<1>2. CASE OnInit
  BY <1>2, <1>1 DEF OnInit, StartServer, vars, reactor, IInv
<1>3. ASSUME NEW e \in BOOLEAN, NEW p \in Ports, Apply(e, p)
      PROVE CInv'
  BY <1>3, <1>1 DEF Apply, vars, reactor, IInv
<1>4. CASE OnQuit
  BY <1>4, <1>1 DEF OnQuit, vars, reactor, IInv
<1>5. CASE StopNothing
  BY <1>5, <1>1 DEF StopNothing, vars, reactor, IInv
<1>6. CASE StopThroughNull
  BY <1>6, <1>1 DEF StopThroughNull, vars, reactor, IInv
<1>7. CASE StopThroughPointer
  <2>1. CASE PostStop
    BY <1>7, <2>1, StepPost DEF StopThroughPointer, PostStop, IInv
  <2>2. CASE UNCHANGED vars
    BY <1>7, <2>2, <1>1 DEF StopThroughPointer, vars, reactor, IInv
  <2>3. QED
    BY <1>7, <2>1, <2>2 DEF StopThroughPointer
<1>8. CASE JoinServer
  <2>1. manager = {}
    BY <1>8 DEF JoinServer, IInv, TypeOK, ReadArmed
  <2>2. QED
    BY <1>8, <2>1, <1>1 DEF JoinServer, vars, reactor, IInv
<1>9. CASE Restart
  BY <1>9, <1>1 DEF Restart, StartServer, vars, reactor, IInv
<1>10. CASE CleanPath
  BY <1>10, <1>1 DEF CleanPath, vars, reactor, IInv
<1>11. QED
  BY <1>2, <1>3, <1>4, <1>5, <1>6, <1>7, <1>8, <1>9, <1>10 DEF UiStep

\* A newly constructed server is as CliServer starts.
LEMMA StepWorker == CInv /\ WorkerStep => CInv'
<1> SUFFICES ASSUME CInv, WorkerStep PROVE CInv'
  OBVIOUS
<1>1. UNCHANGED vars => IInv'
  BY StepIInv DEF CInv
<1> USE DEF CInv, ControlTypeOK, ReactorAtRest, UiKnowsWorker, KeepsAccepting
<1>2. CASE WorkerReadsPort
  BY <1>1, <1>2 DEF WorkerReadsPort, vars, reactor, IInv
<1>3. CASE ConstructorThrows
  BY <1>1, <1>3 DEF ConstructorThrows, vars, reactor, IInv
<1>4. CASE WorkerConstructs
  <2>1. IInv'
    BY <1>4 DEF WorkerConstructs, IInv, TypeOK, ManagedIffOpen, ReadArmed, AtMostOneLate,
                AcceptChain, ReadChain, AcceptStates, ReadStates
  <2>2. QED
    BY <1>4, <2>1 DEF WorkerConstructs, IInv
<1>5. CASE WorkerAssigns
  BY <1>1, <1>5 DEF WorkerAssigns, vars, reactor, IInv
<1>6. QED
  BY <1>2, <1>3, <1>4, <1>5 DEF WorkerStep

LEMMA StepCInv == CInv /\ [ControlNext]_allVars => CInv'
<1> SUFFICES ASSUME CInv, [ControlNext]_allVars PROVE CInv'
  OBVIOUS
<1>1. CASE ControlNext
  BY <1>1, StepUi, StepWorker, StepServer DEF ControlNext
<1>2. CASE UNCHANGED allVars
  <2>1. IInv'
    BY <1>2, StepIInv DEF allVars, CInv
  <2>2. QED
    BY <1>2, <2>1 DEF allVars, vars, reactor, control, CInv, ControlTypeOK, IInv, ReactorAtRest,
                      UiKnowsWorker, KeepsAccepting
<1>3. QED
  BY <1>1, <1>2

THEOREM ControlInductive == ControlSpec => []CInv
<1>1. ControlInit => CInv
  BY InitCInv
<1>2. CInv /\ [ControlNext]_allVars => CInv'
  BY StepCInv
<1>3. QED
  BY <1>1, <1>2, PTL DEF ControlSpec

\* The types of the lifecycle's state.
THEOREM ControlTypeCorrect == ControlSpec => []ControlTypeOK
<1>1. CInv => ControlTypeOK
  BY DEF CInv
<1>2. QED
  BY <1>1, ControlInductive, PTL

\* Whenever the UI thread is at rest, the server thread, its port and its
\* open acceptor are what the preferences say.
THEOREM AppliedPrefsInForceHolds == ControlSpec => []AppliedPrefsInForce
<1>1. CInv => AppliedPrefsInForce
  BY DEF CInv, IInv, AcceptChain, UiKnowsWorker, AppliedPrefsInForce
<1>2. QED
  BY <1>1, ControlInductive, PTL

\* After on_quit has cleaned up, no thread of the server is left.
THEOREM QuitIsQuietHolds == ControlSpec => []QuitIsQuiet
<1>1. CInv => QuitIsQuiet
  BY DEF CInv, ReactorAtRest, UiKnowsWorker, QuitIsQuiet
<1>2. QED
  BY <1>1, ControlInductive, PTL

\* While no accept fails, a server that was not stopped is always accepting.
THEOREM KeepsAcceptingHolds == ControlSpec => []KeepsAccepting
<1>1. CInv => KeepsAccepting
  BY DEF CInv
<1>2. QED
  BY <1>1, ControlInductive, PTL

-----------------------------------------------------------------------------
(* The commands of a client, CliFraming: whatever commands it sends and    *)
(* however the network cuts its bytes.                                     *)

Chars == Plain \cup {"SP", "CR", "HI"}
Bytes == Seq(Chars)
Requests == [op : Bytes, data : Bytes]

\* What the client has sent and the parser has not seen.
Rest == buffer \o wire

\* The same as FramingTypeOK, and what the bytes and commands are.
Typed ==
  /\ sent \in Seq(Commands) /\ buffer \in Bytes /\ wire \in Bytes
  /\ Len(buffer) <= BufferSize
  /\ state \in {"op_start", "op", "data_start", "data"}
  /\ command \in Requests /\ executed \in Seq(Requests)
  /\ replies \in Nat

-----------------------------------------------------------------------------
(* Sequences.                                                              *)

LEMMA SplitJoin ==
  ASSUME NEW T, NEW s \in Seq(T), NEW n \in 1 .. Len(s)
  PROVE  /\ SubSeq(s, 1, n) \in Seq(T) /\ Len(SubSeq(s, 1, n)) = n
         /\ SubSeq(s, n + 1, Len(s)) \in Seq(T)
         /\ SubSeq(s, 1, n) \o SubSeq(s, n + 1, Len(s)) = s
<1>1. Len(s) \in Nat /\ n \in Nat /\ \A j \in 1 .. Len(s) : s[j] \in T
  BY LenProperties, ElementOfSeq
<1>2. SubSeq(s, 1, n) \in Seq(T) /\ Len(SubSeq(s, 1, n)) = n
  BY <1>1
<1>3. SubSeq(s, n + 1, Len(s)) \in Seq(T)
  BY <1>1
<1>4. SubSeq(s, 1, n) \o SubSeq(s, n + 1, Len(s)) = SubSeq(s, 1, Len(s))
  <2>1. 1 \in 1 .. Len(s) + 1 /\ n \in 1 - 1 .. Len(s) /\ Len(s) \in n .. Len(s)
    BY <1>1
  <2> QED BY <2>1, ConcatAdjacentSubSeq
<1> QED BY <1>2, <1>3, <1>4, SubSeqFull

LEMMA JoinAt ==
  ASSUME NEW T, NEW s \in Seq(T), NEW t \in Seq(T)
  PROVE  /\ s \o t \in Seq(T) /\ Len(s \o t) = Len(s) + Len(t)
         /\ Len(s) \in Nat /\ Len(t) \in Nat
         /\ \A j \in 1 .. Len(s) : (s \o t)[j] = s[j]
         /\ \A j \in 1 .. Len(t) : (s \o t)[Len(s) + j] = t[j]
OBVIOUS

LEMMA TailOfJoin ==
  ASSUME NEW T, NEW s \in Seq(T), s # <<>>, NEW t \in Seq(T)
  PROVE  /\ s \o t \in Seq(T) /\ s \o t # <<>> /\ (s \o t)[1] = Head(s)
         /\ Tail(s) \in Seq(T) /\ Len(Tail(s)) = Len(s) - 1
         /\ Tail(s) \o t = Tail(s \o t)
<1>1. Tail(s) \in Seq(T) /\ Len(Tail(s)) = Len(s) - 1 /\ Len(s) \in Nat \ {0}
      /\ \A j \in 1 .. Len(s) - 1 : Tail(s)[j] = s[j + 1]
  OBVIOUS
<1>2. /\ s \o t \in Seq(T) /\ Len(s \o t) = Len(s) + Len(t)
      /\ \A j \in 1 .. Len(s) : (s \o t)[j] = s[j]
      /\ \A j \in 1 .. Len(t) : (s \o t)[Len(s) + j] = t[j]
  BY <1>1
<1> DEFINE u == s \o t
           a == Tail(s) \o t
           b == Tail(u)
<1>3. /\ a \in Seq(T) /\ Len(a) = (Len(s) - 1) + Len(t)
      /\ \A j \in 1 .. Len(a) : a[j] = IF j <= Len(s) - 1 THEN Tail(s)[j] ELSE t[j - (Len(s) - 1)]
  BY <1>1
<1> HIDE DEF u
<1>4. /\ b \in Seq(T) /\ Len(b) = (Len(s) + Len(t)) - 1
      /\ \A j \in 1 .. Len(b) : b[j] = u[j + 1]
  BY <1>1, <1>2 DEF u
<1> HIDE DEF a, b
<1>5. \A j \in 1 .. Len(b) : u[j + 1] = IF j + 1 <= Len(s) THEN s[j + 1] ELSE t[(j + 1) - Len(s)]
  BY <1>1, <1>2, <1>4 DEF u
<1>6. \A j \in 1 .. Len(b) : a[j] = b[j]
  BY <1>1, <1>3, <1>4, <1>5
<1>7. Len(a) = Len(b)
  BY <1>1, <1>3, <1>4
<1>8. a = b
  BY ONLY <1>3, <1>4, <1>6, <1>7, SeqEqual
<1> QED BY <1>1, <1>2, <1>8 DEF a, b, u

\* The bytes of a command.
LEMMA CommandBytes ==
  ASSUME NEW c \in Commands
  PROVE  /\ c.op \in Bytes /\ c.data \in Bytes /\ c.op # <<>>
         /\ \A j \in 1 .. Len(c.op) : c.op[j] \notin {"SP", "CR"}
         /\ \A j \in 1 .. Len(c.data) : c.data[j] # "CR"
         /\ Len(c.op) \in Nat \ {0} /\ Len(c.data) \in Nat /\ (c.data = <<>> <=> Len(c.data) = 0)
<1>1. c.op \in Seq(Plain \cup {"HI"}) /\ c.op # <<>> /\ c.data \in Seq(Plain \cup {"SP", "HI"})
  BY FramingAssumption
<1>2. c.op \in Seq(Chars) /\ c.data \in Seq(Chars)
  BY <1>1 DEF Chars
<1>3. \A j \in 1 .. Len(c.op) : c.op[j] \notin {"SP", "CR"}
  BY <1>1, FramingAssumption
<1>4. \A j \in 1 .. Len(c.data) : c.data[j] # "CR"
  BY <1>1, FramingAssumption
<1> QED BY <1>1, <1>2, <1>3, <1>4 DEF Bytes

EncodedLen(c) == IF c.data = <<>> THEN Len(c.op) + 1 ELSE (Len(c.op) + Len(c.data)) + 2

EncodedByte(c, j) ==
  IF j = EncodedLen(c) THEN "CR" ELSE IF j <= Len(c.op) THEN c.op[j]
  ELSE IF j = Len(c.op) + 1 THEN "SP" ELSE c.data[(j - Len(c.op)) - 1]

LEMMA EncodedAt ==
  ASSUME NEW c \in Commands
  PROVE  /\ Encoded(c) \in Bytes /\ Len(Encoded(c)) = EncodedLen(c)
         /\ \A j \in 1 .. EncodedLen(c) : Encoded(c)[j] = EncodedByte(c, j)
<1>1. PICK lo \in Nat \ {0}, ld \in Nat :
        lo = Len(c.op) /\ ld = Len(c.data) /\ (c.data = <<>> <=> ld = 0)
  BY CommandBytes
<1>2. PICK a, d : a = c.op /\ d = c.data /\ a \in Seq(Chars) /\ d \in Seq(Chars)
  BY CommandBytes DEF Bytes
<1>3. <<"SP">> \in Seq(Chars) /\ <<"CR">> \in Seq(Chars)
  BY DEF Chars
<1>4. CASE c.data = <<>>
  <2>1. Encoded(c) = a \o (<<>> \o <<"CR">>)
    BY <1>2, <1>4 DEF Encoded
  <2>2. <<>> \o <<"CR">> = <<"CR">>
    OBVIOUS
  <2>3. Encoded(c) = a \o <<"CR">>
    BY <2>1, <2>2
  <2>4. /\ Encoded(c) \in Seq(Chars) /\ Len(Encoded(c)) = lo + 1 /\ Encoded(c)[lo + 1] = "CR"
        /\ \A j \in 1 .. lo : Encoded(c)[j] = a[j]
    BY <1>1, <1>2, <1>3, <2>3
  <2>5. EncodedLen(c) = lo + 1
    BY <1>1, <1>4 DEF EncodedLen
  <2>6. \A j \in 1 .. lo + 1 : EncodedByte(c, j) = IF j = lo + 1 THEN "CR" ELSE a[j]
    BY <1>1, <1>2, <2>5 DEF EncodedByte
  <2> QED BY <1>1, <2>4, <2>5, <2>6 DEF Bytes
<1>5. CASE c.data # <<>>
  <2>1. PICK s : s = <<"SP">> \o d
    OBVIOUS
  <2>2. PICK f : f = s \o <<"CR">>
    OBVIOUS
  <2>3. PICK g : g = a \o f
    OBVIOUS
  <2>4. s \in Seq(Chars) /\ Len(s) = ld + 1 /\ s[1] = "SP" /\ \A j \in 1 .. ld : s[j + 1] = d[j]
    BY <1>1, <1>2, <1>3, <2>1
  <2>5. /\ f \in Seq(Chars) /\ Len(f) = ld + 2 /\ f[ld + 2] = "CR"
        /\ \A j \in 1 .. ld + 1 : f[j] = s[j]
    BY <1>1, <1>3, <2>2, <2>4
  <2>6. Encoded(c) = (a \o s) \o <<"CR">>
    BY <1>2, <1>5, <2>1 DEF Encoded
  <2>7. Encoded(c) = g
    <3>1. ASSUME NEW r \in Seq(Chars), NEW u \in Seq(Chars), NEW v \in Seq(Chars)
          PROVE  (r \o u) \o v = r \o (u \o v)
      BY <3>1
    <3> QED BY <1>2, <1>3, <2>2, <2>3, <2>4, <2>6, <3>1
  <2>8. /\ g \in Seq(Chars) /\ Len(g) = (lo + ld) + 2
        /\ \A j \in 1 .. lo : g[j] = a[j]
        /\ \A j \in 1 .. ld + 2 : g[lo + j] = f[j]
    <3>1. Len(a) = lo /\ Len(f) = ld + 2 /\ g = a \o f
      BY <1>1, <1>2, <2>3, <2>5
    <3>2. /\ a \o f \in Seq(Chars) /\ Len(a \o f) = Len(a) + Len(f)
          /\ \A j \in 1 .. Len(a) : (a \o f)[j] = a[j]
          /\ \A j \in 1 .. Len(f) : (a \o f)[Len(a) + j] = f[j]
      <4>1. a \in Seq(Chars) /\ f \in Seq(Chars)
        BY <1>2, <2>5
      <4> QED BY ONLY <4>1, JoinAt
    <3>3. Len(a) + Len(f) = (lo + ld) + 2
      BY <3>1
    <3> QED BY <3>1, <3>2, <3>3
  <2>9. EncodedLen(c) = (lo + ld) + 2 /\ ld >= 1
    BY <1>1, <1>5 DEF EncodedLen
  <2>10. ASSUME NEW j \in 1 .. (lo + ld) + 2
         PROVE  g[j] = EncodedByte(c, j)
    <3>1. EncodedByte(c, j) =
            IF j = (lo + ld) + 2 THEN "CR" ELSE IF j <= lo THEN a[j]
            ELSE IF j = lo + 1 THEN "SP" ELSE d[(j - lo) - 1]
      BY <1>1, <1>2, <2>9 DEF EncodedByte
    <3>2. CASE j = (lo + ld) + 2
      <4>1. j = lo + (ld + 2)
        BY <3>2
      <4> QED BY <2>5, <2>8, <3>1, <3>2, <4>1
    <3>3. CASE j <= lo
      BY <2>8, <3>1, <3>3
    <3>4. CASE j = lo + 1
      <4>1. g[lo + 1] = f[1] /\ f[1] = s[1]
        BY <2>5, <2>8
      <4> QED BY <2>4, <2>9, <3>1, <3>4, <4>1
    <3>5. CASE j > lo + 1 /\ j < (lo + ld) + 2
      <4> DEFINE k == (j - lo) - 1
      <4>1. k \in 1 .. ld /\ j = lo + (k + 1) /\ k + 1 \in 1 .. ld + 2 /\ k + 1 \in 1 .. ld + 1
        BY <3>5
      <4> HIDE DEF k
      <4>2. g[lo + (k + 1)] = f[k + 1] /\ f[k + 1] = s[k + 1] /\ s[k + 1] = d[k]
        BY <2>4, <2>5, <2>8, <4>1
      <4>3. EncodedByte(c, j) = d[k]
        BY <3>1, <3>5 DEF k
      <4> QED BY <4>1, <4>2, <4>3
    <3> QED BY <3>2, <3>3, <3>4, <3>5
  <2> QED BY <2>7, <2>8, <2>9, <2>10 DEF Bytes
<1> QED BY <1>4, <1>5
-----------------------------------------------------------------------------
(* The inductive invariant.                                                *)

\* The client never gets two replies to a command.
AllOnce == \A c \in Commands : c.replies = 1

\* The terminators still on their way belong to commands later than those
\* already answered, in order: there is one for every reply to come.
Terminators(s) == {j \in 1 .. Len(s) : s[j] = "CR"}

Increasing(f) == \A i, j \in DOMAIN f : i < j => f[i] < f[j]

EndsToCome ==
  AllOnce =>
    /\ replies <= Len(sent)
    /\ \E f \in [Terminators(Rest) -> replies + 1 .. Len(sent)] : Increasing(f)

\* The parser has consumed the first k bytes of command c.
Parsed(c, k) ==
  IF k = 0 THEN state = "op_start" /\ command = Empty
  ELSE IF k <= Len(c.op) THEN
         state = "op" /\ command = [op |-> SubSeq(c.op, 1, k), data |-> <<>>]
  ELSE IF k = Len(c.op) + 1 THEN
         state = "data_start" /\ command = [op |-> c.op, data |-> <<>>]
  ELSE state = "data" /\ command = [op |-> c.op, data |-> SubSeq(c.data, 1, (k - Len(c.op)) - 1)]

\* The rest of the bytes is the rest of that command.
Awaits(c, k) ==
  /\ k \in 0 .. EncodedLen(c) - 1
  /\ Len(Rest) = EncodedLen(c) - k
  /\ \A j \in 1 .. EncodedLen(c) - k : Rest[j] = EncodedByte(c, k + j)
  /\ Parsed(c, k)

\* Every command sent has been executed but, at most, the last one.
InStep ==
  WellBehaved =>
    /\ replies = Len(executed)
    /\ \A j \in 1 .. Len(executed) : executed[j] = Request(sent[j])
    /\ \/ /\ Len(sent) = Len(executed)
          /\ Rest = <<>> /\ state = "op_start" /\ command = Empty
       \/ /\ Len(sent) = Len(executed) + 1
          /\ \E k \in Nat : Awaits(sent[Len(sent)], k)

-----------------------------------------------------------------------------
(* Typing.                                                                 *)

\* What consume() makes of a byte that leaves the command incomplete.
Consumed(ch) ==
  \/ /\ state = "op" /\ ch = "SP"
     /\ state' = "data_start" /\ command' = command
  \/ /\ state = "op_start" \/ (state = "op" /\ ch \notin {"SP", "CR"})
     /\ state' = "op" /\ command' = [command EXCEPT !.op = Append(@, ch)]
  \/ /\ state = "data_start" \/ (state = "data" /\ ch # "CR")
     /\ state' = "data" /\ command' = [command EXCEPT !.data = Append(@, ch)]

LEMMA ConsumeByCases ==
  ASSUME Typed, NEW ch, ch = Head(buffer)
  PROVE  /\ ParseMore => ch # "HI" /\ Consumed(ch)
         /\ ParseComplete => ch = "CR" /\ state \in {"op", "data"}
         /\ ParseInvalid => ch = "HI"
<1>1. /\ Consume(ch).result = "true" => ch = "CR" /\ state \in {"op", "data"}
      /\ Consume(ch).result = "false" => ch = "HI"
  BY DEF Consume, ToDataStart, Ends, ToOp, ToData, IsChar
<1>2. ASSUME Consume(ch).result = "more"
      PROVE  /\ ch # "HI"
             /\ state' = Consume(ch).state /\ command' = Consume(ch).command => Consumed(ch)
  BY <1>2 DEF Typed, Consume, ToDataStart, Ends, ToOp, ToData, IsChar, Consumed
<1> QED BY <1>1, <1>2 DEF ParseMore, ParseComplete, ParseInvalid

\* What is left to read does not depend on how the reads cut it.
LEMMA ReadKeepsRest ==
  ASSUME Typed, ReadSome
  PROVE  /\ buffer' \in Bytes /\ wire' \in Bytes /\ Len(buffer') <= BufferSize
         /\ Rest' = Rest
<1>1. PICK n \in 1 .. BufferSize :
        /\ n <= Len(wire)
        /\ buffer' = SubSeq(wire, 1, n)
        /\ wire' = SubSeq(wire, n + 1, Len(wire))
  BY DEF ReadSome
<1>2. wire \in Seq(Chars) /\ Len(wire) \in Nat /\ BufferSize \in Nat
  BY FramingAssumption DEF Typed, Bytes
<1>3. n \in 1 .. Len(wire) /\ n <= BufferSize
  BY <1>1, <1>2
<1>4. /\ buffer' \in Seq(Chars) /\ Len(buffer') = n /\ wire' \in Seq(Chars)
      /\ buffer' \o wire' = wire
  BY <1>1, <1>2, <1>3, SplitJoin
<1>5. Rest = wire
  BY <1>2 DEF ReadSome, Rest
<1> QED BY <1>3, <1>4, <1>5 DEF Bytes, Rest

\* A byte consumed is the first of the rest.
LEMMA ParseTakesHead ==
  ASSUME Typed, buffer # <<>>
  PROVE  /\ Rest \in Bytes /\ Rest # <<>> /\ Rest[1] = Head(buffer) /\ Head(buffer) \in Chars
         /\ ParseMore => /\ buffer' \in Bytes /\ Len(buffer') <= BufferSize
                         /\ Rest' = Tail(Rest)
<1>1. buffer \in Seq(Chars) /\ wire \in Seq(Chars)
  BY DEF Typed, Bytes
<1>2. /\ buffer \o wire \in Seq(Chars) /\ buffer \o wire # <<>>
      /\ (buffer \o wire)[1] = Head(buffer)
      /\ Tail(buffer) \in Seq(Chars) /\ Len(Tail(buffer)) = Len(buffer) - 1
      /\ Tail(buffer) \o wire = Tail(buffer \o wire)
  BY <1>1, TailOfJoin
<1>3. Head(buffer) \in Chars
  BY <1>1
<1>4. ParseMore => buffer' = Tail(buffer) /\ wire' = wire
  BY DEF ParseMore
<1>5. Len(buffer) \in Nat /\ BufferSize \in Nat /\ Len(buffer) <= BufferSize
  BY <1>1, FramingAssumption DEF Typed
<1>6. Rest \in Bytes /\ Rest # <<>> /\ Rest[1] = Head(buffer)
  BY <1>2 DEF Rest, Bytes
<1>7. ASSUME ParseMore
      PROVE  buffer' \in Bytes /\ Len(buffer') <= BufferSize /\ Rest' = Tail(Rest)
  <2>1. Rest' = Tail(buffer) \o wire
    BY <1>4, <1>7 DEF Rest
  <2>2. buffer' \in Bytes /\ Len(buffer') = Len(buffer) - 1
    BY <1>2, <1>4, <1>7 DEF Bytes
  <2>3. Rest' = Tail(Rest)
    BY <1>2, <2>1 DEF Rest
  <2> QED BY <1>5, <2>2, <2>3
<1> QED BY <1>3, <1>6, <1>7

LEMMA SendKeepsBytes ==
  ASSUME Typed, NEW c \in Commands, ClientSends(c)
  PROVE  /\ Encoded(c) \in Bytes /\ wire' \in Bytes /\ Rest \in Bytes
         /\ Rest' = Rest \o Encoded(c)
<1>1. buffer \in Seq(Chars) /\ wire \in Seq(Chars) /\ Encoded(c) \in Seq(Chars)
  BY EncodedAt DEF Typed, Bytes
<1>2. wire' = wire \o Encoded(c) /\ buffer' = buffer
  BY DEF ClientSends
<1>3. wire \o Encoded(c) \in Seq(Chars) /\ buffer \o wire \in Seq(Chars)
  BY <1>1, ConcatProperties
<1>4. buffer \o (wire \o Encoded(c)) = (buffer \o wire) \o Encoded(c)
  BY <1>1, ConcatAssociative
<1> QED BY <1>1, <1>2, <1>3, <1>4 DEF Rest, Bytes

LEMMA RepliesPositive ==
  ASSUME NEW r
  PROVE  /\ RepliesTo(r) \in {1, 2}
         /\ AllOnce => RepliesTo(r) = 1
<1>1. CASE \E c \in Commands : Request(c) = r
  <2>1. (CHOOSE c \in Commands : Request(c) = r) \in Commands
    BY <1>1
  <2>2. \A c \in Commands : c.replies \in {1, 2}
    BY FramingAssumption
  <2> QED BY <1>1, <2>1, <2>2 DEF RepliesTo, AllOnce
<1>2. CASE ~ \E c \in Commands : Request(c) = r
  BY <1>2 DEF RepliesTo
<1> QED BY <1>1, <1>2

LEMMA Typing == FramingSpec => []Typed
<1>1. FramingInit => Typed
  <2> SUFFICES ASSUME FramingInit PROVE Typed
    OBVIOUS
  <2>1. <<>> \in Bytes /\ Len(<<>>) = 0 /\ <<>> \in Seq(Commands) /\ <<>> \in Seq(Requests)
    BY DEF Bytes
  <2>2. Empty \in Requests
    BY <2>1 DEF Empty, Requests
  <2> QED BY <2>1, <2>2, FramingAssumption DEF FramingInit, Typed
<1>2. Typed /\ [FramingNext]_framingVars => Typed'
  <2> SUFFICES ASSUME Typed, [FramingNext]_framingVars PROVE Typed'
    OBVIOUS
  <2>1. ASSUME NEW c \in Commands, ClientSends(c) PROVE Typed'
    <3>1. wire' \in Bytes
      BY <2>1, SendKeepsBytes
    <3>2. sent' \in Seq(Commands)
      BY <2>1 DEF ClientSends, Typed
    <3> QED BY <2>1, <3>1, <3>2 DEF ClientSends, Typed
  <2>2. CASE ReadSome
    BY <2>2, ReadKeepsRest DEF ReadSome, Typed
  <2>3. CASE buffer # <<>> /\ ParseMore
    <3>1. /\ Head(buffer) \in Chars /\ buffer' \in Bytes /\ Len(buffer') <= BufferSize
          /\ Consumed(Head(buffer))
      BY <2>3, ParseTakesHead, ConsumeByCases
    <3>2. /\ Append(command.op, Head(buffer)) \in Bytes
          /\ Append(command.data, Head(buffer)) \in Bytes
      BY <3>1 DEF Typed, Requests, Bytes
    <3>3. state' \in {"op_start", "op", "data_start", "data"}
      BY <3>1 DEF Consumed
    <3>4. command' \in Requests
      BY <3>1, <3>2 DEF Consumed, Typed, Requests
    <3> QED BY <2>3, <3>1, <3>3, <3>4 DEF ParseMore, Typed
  <2>4. CASE buffer # <<>> /\ (ParseComplete \/ ParseInvalid)
    <3>1. <<>> \in Bytes /\ Len(<<>>) = 0
      BY DEF Bytes
    <3>2. buffer' = <<>> /\ state' = "op_start" /\ command' = Empty /\ sent' = sent /\ wire' = wire
      BY <2>4 DEF ParseComplete, ParseInvalid, StartOver
    <3>3. Empty \in Requests
      BY <3>1 DEF Empty, Requests
    <3>4. executed' \in Seq(Requests)
      BY <2>4 DEF ParseComplete, ParseInvalid, Typed
    <3>5. replies' \in Nat
      <4>1. RepliesTo(command) \in Nat
        BY RepliesPositive
      <4> QED BY <2>4, <4>1 DEF ParseComplete, ParseInvalid, Typed
    <3> QED BY <3>1, <3>2, <3>3, <3>4, <3>5, FramingAssumption DEF Typed
  <2>5. CASE UNCHANGED framingVars
    BY <2>5 DEF framingVars, Typed
  <2> QED BY <2>1, <2>2, <2>3, <2>4, <2>5 DEF FramingNext, ParseByte
<1> QED BY <1>1, <1>2, PTL DEF FramingSpec

-----------------------------------------------------------------------------
(* No command is answered twice.                                           *)

Assigned(s, l, h) == \E f \in [Terminators(s) -> l + 1 .. h] : Increasing(f)

\* Dropping the first n bytes drops the first terminators.
LEMMA DropAssigned ==
  ASSUME NEW s \in Bytes, NEW t \in Bytes, NEW n \in Nat, NEW l \in Nat, NEW h \in Nat,
         Len(s) = n + Len(t), \A j \in 1 .. Len(t) : t[j] = s[n + j],
         Assigned(s, l, h)
  PROVE  /\ Assigned(t, l, h)
         /\ n >= 1 /\ s[1] = "CR" => l + 1 <= h /\ Assigned(t, l + 1, h)
<1>1. PICK f \in [Terminators(s) -> l + 1 .. h] : Increasing(f)
  BY DEF Assigned
<1>2. Len(s) \in Nat /\ Len(t) \in Nat
  BY DEF Bytes
<1>3. \A j \in Terminators(t) : j \in Nat \ {0} /\ n + j \in Terminators(s)
  BY <1>2 DEF Terminators
<1>4. PICK g : g = [j \in Terminators(t) |-> f[n + j]]
  OBVIOUS
<1>5. g \in [Terminators(t) -> l + 1 .. h] /\ DOMAIN g = Terminators(t)
  BY <1>1, <1>3, <1>4
<1>6. Increasing(g)
  <2> SUFFICES ASSUME NEW i \in Terminators(t), NEW j \in Terminators(t), i < j
               PROVE  g[i] < g[j]
    BY <1>5 DEF Increasing
  <2>1. n + i \in DOMAIN f /\ n + j \in DOMAIN f /\ n + i < n + j
    BY <1>1, <1>3
  <2>2. f[n + i] < f[n + j]
    BY <1>1, <2>1 DEF Increasing
  <2> QED BY <1>4, <2>2
<1>7. ASSUME n >= 1, s[1] = "CR"
      PROVE  l + 1 <= h /\ Assigned(t, l + 1, h)
  <2>1. 1 \in Terminators(s)
    BY <1>2, <1>7 DEF Terminators
  <2>2. f[1] \in l + 1 .. h
    BY <1>1, <2>1
  <2>3. \A j \in Terminators(t) : g[j] \in (l + 1) + 1 .. h
    <3> SUFFICES ASSUME NEW j \in Terminators(t) PROVE g[j] \in (l + 1) + 1 .. h
      OBVIOUS
    <3>1. 1 \in DOMAIN f /\ n + j \in DOMAIN f /\ 1 < n + j
      BY <1>1, <1>3, <1>7, <2>1
    <3>2. f[1] < f[n + j]
      BY <1>1, <3>1 DEF Increasing
    <3>3. g[j] = f[n + j] /\ g[j] \in l + 1 .. h
      BY <1>4, <1>5
    <3> QED BY <2>2, <3>2, <3>3
  <2>4. g \in [Terminators(t) -> (l + 1) + 1 .. h]
    BY <1>4, <2>3
  <2> QED BY <1>6, <2>2, <2>4 DEF Assigned
<1> QED BY <1>5, <1>6, <1>7 DEF Assigned

LEMMA AtLeastTwoBytes ==
  ASSUME NEW c \in Commands
  PROVE  EncodedLen(c) \in Nat /\ EncodedLen(c) >= 2
<1>1. PICK lo \in Nat \ {0}, ld \in Nat :
        lo = Len(c.op) /\ ld = Len(c.data) /\ (c.data = <<>> <=> ld = 0)
  BY CommandBytes
<1>2. EncodedLen(c) = IF ld = 0 THEN lo + 1 ELSE (lo + ld) + 2
  BY <1>1 DEF EncodedLen
<1> QED BY <1>2

\* The terminator is the last byte of a command and no other.
LEMMA TerminatorIsLast ==
  ASSUME NEW c \in Commands, NEW j \in 1 .. EncodedLen(c)
  PROVE  EncodedByte(c, j) = "CR" <=> j = EncodedLen(c)
<1>1. PICK lo \in Nat \ {0}, ld \in Nat :
        lo = Len(c.op) /\ ld = Len(c.data) /\ (c.data = <<>> <=> ld = 0)
  BY CommandBytes
<1>2. PICK k : k = EncodedLen(c)
  OBVIOUS
<1>3. k = IF ld = 0 THEN lo + 1 ELSE (lo + ld) + 2
  BY <1>1, <1>2 DEF EncodedLen
<1>4. j \in 1 .. lo => c.op[j] # "CR"
  BY <1>1, CommandBytes
<1>5. (j - lo) - 1 \in 1 .. ld => c.data[(j - lo) - 1] # "CR"
  BY <1>1, CommandBytes
<1>6. j \in Nat /\ (\/ j = k \/ j \in 1 .. lo \/ (j = lo + 1 /\ j # k)
                     \/ (j > lo + 1 /\ j # k /\ (j - lo) - 1 \in 1 .. ld))
  BY <1>2, <1>3
<1>7. EncodedByte(c, j) = IF j = k THEN "CR" ELSE IF j <= lo THEN c.op[j]
                          ELSE IF j = lo + 1 THEN "SP" ELSE c.data[(j - lo) - 1]
  BY <1>1, <1>2 DEF EncodedByte
<1>8. j = k => EncodedByte(c, j) = "CR"
  BY <1>7
<1>9. j # k => EncodedByte(c, j) # "CR"
  <2>1. CASE j \in 1 .. lo
    BY <1>4, <1>7, <2>1
  <2>2. CASE j = lo + 1
    BY <1>7, <2>2
  <2>3. CASE j > lo + 1 /\ j # k /\ (j - lo) - 1 \in 1 .. ld
    BY <1>5, <1>7, <2>3
  <2> QED BY <1>6, <2>1, <2>2, <2>3
<1> QED BY <1>2, <1>8, <1>9

\* A command sent adds one terminator, behind all others.
LEMMA SendAssigned ==
  ASSUME NEW s \in Bytes, NEW c \in Commands, NEW l \in Nat, NEW h \in Nat, l <= h,
         Assigned(s, l, h)
  PROVE  Assigned(s \o Encoded(c), l, h + 1)
<1>1. PICK f \in [Terminators(s) -> l + 1 .. h] : Increasing(f)
  BY DEF Assigned
<1>2. /\ Encoded(c) \in Seq(Chars) /\ Len(Encoded(c)) = EncodedLen(c)
      /\ \A j \in 1 .. EncodedLen(c) : Encoded(c)[j] = EncodedByte(c, j)
  BY EncodedAt DEF Bytes
<1>3. PICK k \in Nat \ {0} : k = EncodedLen(c)
  BY AtLeastTwoBytes
<1>4. \A j \in 1 .. k : EncodedByte(c, j) = "CR" <=> j = k
  BY <1>3, TerminatorIsLast
<1>5. s \in Seq(Chars) /\ Len(s) \in Nat
  BY DEF Bytes
<1>6. PICK u : u = s \o Encoded(c)
  OBVIOUS
<1>7. /\ Len(u) = Len(s) + k
      /\ \A j \in 1 .. Len(s) : u[j] = s[j]
      /\ \A j \in 1 .. k : u[Len(s) + j] = Encoded(c)[j]
  <2>1. /\ Len(s \o Encoded(c)) = Len(s) + Len(Encoded(c))
        /\ \A j \in 1 .. Len(s) : (s \o Encoded(c))[j] = s[j]
        /\ \A j \in 1 .. Len(Encoded(c)) : (s \o Encoded(c))[Len(s) + j] = Encoded(c)[j]
    <3>1. s \in Seq(Chars) /\ Encoded(c) \in Seq(Chars)
      BY <1>2, <1>5
    <3> QED BY ONLY <3>1, JoinAt
  <2> QED BY <1>2, <1>3, <1>6, <2>1
<1>8. ASSUME NEW j \in 1 .. Len(s) + k
      PROVE  u[j] = "CR" <=> j \in Terminators(s) \/ j = Len(s) + k
  <2>1. CASE j <= Len(s)
    BY <1>3, <1>5, <1>7, <2>1 DEF Terminators
  <2>2. CASE j > Len(s)
    <3>1. PICK i : i = j - Len(s)
      OBVIOUS
    <3>2. i \in 1 .. k /\ j = Len(s) + i
      BY <1>3, <1>5, <2>2, <3>1
    <3>3. u[j] = EncodedByte(c, i)
      BY <1>2, <1>3, <1>7, <3>2
    <3>4. u[j] = "CR" <=> i = k
      BY <1>4, <3>2, <3>3
    <3>5. j \notin Terminators(s)
      BY <1>5, <2>2 DEF Terminators
    <3> QED BY <1>3, <1>5, <3>2, <3>4, <3>5
  <2> QED BY <1>3, <1>5, <2>1, <2>2
<1>9. Terminators(u) = Terminators(s) \cup {Len(s) + k}
  <2>1. Len(s) + k \in 1 .. Len(s) + k /\ Terminators(s) \subseteq 1 .. Len(s) + k
    BY <1>3, <1>5 DEF Terminators
  <2>2. Terminators(u) = {j \in 1 .. Len(s) + k : u[j] = "CR"}
    BY <1>7 DEF Terminators
  <2> QED BY <1>8, <2>1, <2>2
<1>10. \A j \in Terminators(s) : j \in Nat /\ j < Len(s) + k
  BY <1>3, <1>5 DEF Terminators
<1>11. PICK g : g = [j \in Terminators(u) |-> IF j \in Terminators(s) THEN f[j] ELSE h + 1]
  OBVIOUS
<1>12. g \in [Terminators(u) -> l + 1 .. h + 1] /\ DOMAIN g = Terminators(u)
  <2>1. \A j \in Terminators(s) : f[j] \in l + 1 .. h + 1
    BY <1>1
  <2>2. h + 1 \in l + 1 .. h + 1
    OBVIOUS
  <2> QED BY <1>11, <2>1, <2>2
<1>13. Increasing(g)
  <2> SUFFICES ASSUME NEW i \in Terminators(u), NEW j \in Terminators(u), i < j
               PROVE  g[i] < g[j]
    BY <1>12 DEF Increasing
  <2>1. i \in Terminators(s)
    BY <1>3, <1>5, <1>9, <1>10
  <2>2. g[i] = f[i] /\ f[i] \in l + 1 .. h
    BY <1>1, <1>11, <2>1
  <2>3. CASE j \in Terminators(s)
    <3>1. i \in DOMAIN f /\ j \in DOMAIN f
      BY <1>1, <2>1, <2>3
    <3>2. f[i] < f[j]
      BY <1>1, <3>1 DEF Increasing
    <3> QED BY <1>11, <2>2, <2>3, <3>2
  <2>4. CASE j \notin Terminators(s)
    <3>1. g[j] = h + 1
      BY <1>11, <2>4
    <3> QED BY <2>2, <3>1
  <2> QED BY <2>3, <2>4
<1> QED BY <1>6, <1>12, <1>13 DEF Assigned

\* What the end of a parse leaves of the bytes: those not read yet.
LEMMA WireIsRest ==
  ASSUME Typed, buffer # <<>>, buffer' = <<>>, wire' = wire
  PROVE  /\ Rest' = wire /\ Len(buffer) \in Nat \ {0} /\ Len(Rest) = Len(buffer) + Len(wire)
         /\ \A j \in 1 .. Len(wire) : wire[j] = Rest[Len(buffer) + j]
<1>1. buffer \in Seq(Chars) /\ wire \in Seq(Chars)
  BY DEF Typed, Bytes
<1>2. /\ Len(buffer \o wire) = Len(buffer) + Len(wire) /\ Len(buffer) \in Nat
      /\ \A j \in 1 .. Len(wire) : (buffer \o wire)[Len(buffer) + j] = wire[j]
  BY <1>1, JoinAt
<1>3. Len(buffer) # 0
  BY <1>1
<1>4. Rest' = wire
  BY <1>1 DEF Rest
<1> QED BY <1>2, <1>3, <1>4 DEF Rest

LEMMA EndsInvariant == FramingSpec => []EndsToCome
<1>1. FramingInit => EndsToCome
  <2> SUFFICES ASSUME FramingInit PROVE EndsToCome
    OBVIOUS
  <2>1. Rest = <<>> /\ replies = 0 /\ Len(sent) = 0
    BY DEF FramingInit, Rest
  <2>2. Terminators(Rest) = {}
    BY <2>1 DEF Terminators
  <2>3. PICK f : f = [j \in {} |-> 0]
    OBVIOUS
  <2>4. f \in [Terminators(Rest) -> replies + 1 .. Len(sent)] /\ Increasing(f)
    BY <2>2, <2>3 DEF Increasing
  <2> QED BY <2>1, <2>4 DEF EndsToCome
<1>2. Typed /\ EndsToCome /\ [FramingNext]_framingVars => EndsToCome'
  <2> SUFFICES ASSUME Typed, EndsToCome, [FramingNext]_framingVars, AllOnce
               PROVE  replies' <= Len(sent') /\ Assigned(Rest', replies', Len(sent'))
    BY DEF EndsToCome, Assigned, AllOnce
  <2>1. /\ replies \in Nat /\ Len(sent) \in Nat /\ replies <= Len(sent)
        /\ Assigned(Rest, replies, Len(sent))
    BY DEF Typed, EndsToCome, Assigned
  <2>2. Rest \in Bytes /\ wire \in Bytes
    <3>1. buffer \in Seq(Chars) /\ wire \in Seq(Chars)
      BY DEF Typed, Bytes
    <3> QED BY <3>1, JoinAt DEF Rest, Bytes
  <2>3. ASSUME NEW c \in Commands, ClientSends(c)
        PROVE  replies' <= Len(sent') /\ Assigned(Rest', replies', Len(sent'))
    <3>1. replies' = replies /\ Len(sent') = Len(sent) + 1
      BY <2>3 DEF ClientSends, Typed
    <3>2. Rest' = Rest \o Encoded(c)
      BY <2>3, SendKeepsBytes
    <3>3. Assigned(Rest \o Encoded(c), replies, Len(sent) + 1)
      BY <2>1, <2>2, SendAssigned
    <3> QED BY <2>1, <3>1, <3>2, <3>3
  <2>4. CASE ReadSome
    <3>1. Rest' = Rest /\ replies' = replies /\ sent' = sent
      BY <2>4, ReadKeepsRest DEF ReadSome
    <3> QED BY <2>1, <3>1
  <2>5. CASE buffer # <<>> /\ ParseMore
    <3>1. /\ Rest' = Tail(Rest) /\ Rest \in Seq(Chars) /\ Rest # <<>>
          /\ replies' = replies /\ sent' = sent
      BY <2>5, ParseTakesHead DEF ParseMore, Bytes
    <3>2. PICK t : t = Tail(Rest)
      OBVIOUS
    <3>3. t \in Seq(Chars) /\ Len(Rest) = 1 + Len(t) /\ \A j \in 1 .. Len(t) : t[j] = Rest[1 + j]
      BY <3>1, <3>2
    <3>4. Assigned(t, replies, Len(sent))
      <4>1. t \in Bytes /\ Rest \in Bytes /\ 1 \in Nat
        BY <3>3, <2>2 DEF Bytes
      <4> QED BY <2>1, <3>3, <4>1, DropAssigned
    <3> QED BY <2>1, <3>1, <3>2, <3>4
  <2>6. CASE buffer # <<>> /\ (ParseComplete \/ ParseInvalid)
    <3>1. buffer' = <<>> /\ wire' = wire /\ sent' = sent
      BY <2>6 DEF ParseComplete, ParseInvalid
    <3>2. /\ Rest' = wire /\ Len(buffer) \in Nat \ {0} /\ Len(Rest) = Len(buffer) + Len(wire)
          /\ \A j \in 1 .. Len(wire) : wire[j] = Rest[Len(buffer) + j]
      BY <2>6, <3>1, WireIsRest
    <3>3. /\ Assigned(wire, replies, Len(sent))
          /\ Rest[1] = "CR" => replies + 1 <= Len(sent) /\ Assigned(wire, replies + 1, Len(sent))
      <4>1. PICK n \in Nat : n = Len(buffer) /\ n >= 1
        BY <3>2
      <4>2. Len(Rest) = n + Len(wire) /\ \A j \in 1 .. Len(wire) : wire[j] = Rest[n + j]
        BY <3>2, <4>1
      <4> QED BY <2>1, <2>2, <4>1, <4>2, DropAssigned
    <3>4. CASE ParseInvalid
      <4>1. replies' = replies
        BY <3>4 DEF ParseInvalid
      <4> QED BY <2>1, <3>1, <3>2, <3>3, <4>1
    <3>5. CASE ParseComplete
      <4>1. replies' = replies + 1
        BY <3>5, RepliesPositive DEF ParseComplete
      <4>2. Rest[1] = Head(buffer) /\ Head(buffer) = "CR"
        BY <2>6, <3>5, ParseTakesHead, ConsumeByCases
      <4> QED BY <3>1, <3>2, <3>3, <4>1, <4>2
    <3> QED BY <2>6, <3>4, <3>5
  <2>7. CASE UNCHANGED framingVars
    <3>1. Rest' = Rest /\ replies' = replies /\ sent' = sent
      BY <2>7 DEF framingVars, Rest
    <3> QED BY <2>1, <3>1
  <2> QED BY <2>3, <2>4, <2>5, <2>6, <2>7 DEF FramingNext, ParseByte
<1> QED BY <1>1, <1>2, Typing, PTL DEF FramingSpec

\* No command is answered twice if none asks for two replies: however the
\* network cuts the bytes, whatever bytes the commands have and however many
\* commands the client leaves unanswered, the replies never run ahead of the
\* commands (connection.cpp:674-704).
THEOREM NeverAnsweredTwiceHolds == FramingSpec => []NeverAnsweredTwice
<1>1. EndsToCome => NeverAnsweredTwice
  BY DEF EndsToCome, AllOnce, NeverAnsweredTwice
<1> QED BY <1>1, EndsInvariant, PTL

-----------------------------------------------------------------------------
(* What is executed is what was sent.                                      *)

LEMMA AppendNext ==
  ASSUME NEW T, NEW s \in Seq(T), NEW n \in 0 .. Len(s) - 1
  PROVE  Append(SubSeq(s, 1, n), s[n + 1]) = SubSeq(s, 1, n + 1)
<1>1. PICK a : a = SubSeq(s, 1, n)
  OBVIOUS
<1>2. PICK b : b = SubSeq(s, 1, n + 1)
  OBVIOUS
<1>3. n \in Nat /\ n + 1 \in 1 .. Len(s) /\ s[n + 1] \in T
  OBVIOUS
<1>4. a \in Seq(T) /\ Len(a) = n /\ \A j \in 1 .. n : a[j] = s[j]
  BY <1>1, <1>3
<1>5. b \in Seq(T) /\ Len(b) = n + 1 /\ \A j \in 1 .. n + 1 : b[j] = s[j]
  BY <1>2, <1>3
<1>6. PICK d : d = Append(a, s[n + 1])
  OBVIOUS
<1>7. d \in Seq(T) /\ Len(d) = n + 1 /\ (\A j \in 1 .. n : d[j] = a[j]) /\ d[n + 1] = s[n + 1]
  BY <1>3, <1>4, <1>6
<1>8. \A j \in 1 .. n + 1 : d[j] = b[j]
  BY <1>3, <1>4, <1>5, <1>7
<1>9. d = b
  BY <1>5, <1>7, <1>8
<1> QED BY <1>1, <1>2, <1>6, <1>9

LEMMA PrefixAt ==
  ASSUME NEW T, NEW s \in Seq(T), NEW n \in 0 .. Len(s)
  PROVE  /\ SubSeq(s, 1, n) \in Seq(T) /\ Len(SubSeq(s, 1, n)) = n
         /\ \A j \in 1 .. n : SubSeq(s, 1, n)[j] = s[j]
OBVIOUS

LEMMA WholeSequence ==
  ASSUME NEW T, NEW s \in Seq(T)
  PROVE  SubSeq(s, 1, Len(s)) = s
BY SubSeqFull

\* No byte of an ASCII command is invalid.
LEMMA AsciiBytes ==
  ASSUME NEW c \in Commands, Ascii(c), NEW j \in 1 .. EncodedLen(c)
  PROVE  EncodedByte(c, j) # "HI"
<1>1. PICK lo \in Nat \ {0}, ld \in Nat :
        lo = Len(c.op) /\ ld = Len(c.data) /\ (c.data = <<>> <=> ld = 0)
  BY CommandBytes
<1>2. PICK a, d : a = c.op /\ d = c.data /\ a \in Seq(Chars) /\ d \in Seq(Chars)
  BY CommandBytes DEF Bytes
<1>3. lo \in Nat /\ lo >= 1 /\ ld \in Nat /\ lo = Len(a) /\ ld = Len(d)
  BY ONLY <1>1, <1>2
<1>4. PICK u : u = a \o d
  OBVIOUS
<1>5. /\ a \o d \in Seq(Chars) /\ Len(a \o d) = Len(a) + Len(d)
      /\ \A i \in 1 .. Len(a) : (a \o d)[i] = a[i]
      /\ \A i \in 1 .. Len(d) : (a \o d)[Len(a) + i] = d[i]
  <2>1. a \in Seq(Chars) /\ d \in Seq(Chars)
    BY <1>2
  <2> QED BY ONLY <2>1, JoinAt
<1>6. /\ DOMAIN u = 1 .. lo + ld
      /\ \A i \in 1 .. lo : u[i] = a[i]
      /\ \A i \in 1 .. ld : u[lo + i] = d[i]
  <2>1. u \in Seq(Chars) /\ Len(u) = lo + ld
    BY ONLY <1>3, <1>4, <1>5
  <2>2. DOMAIN u = 1 .. lo + ld
    BY ONLY <2>1
  <2> QED BY ONLY <1>3, <1>4, <1>5, <2>2
<1>7. \A i \in DOMAIN u : u[i] # "HI"
  BY <1>2, <1>4 DEF Ascii, ToSet, IsChar
<1>8. \A i \in 1 .. lo : a[i] # "HI"
  BY ONLY <1>3, <1>6, <1>7
<1>9. \A i \in 1 .. ld : d[i] # "HI"
  <2> SUFFICES ASSUME NEW i \in 1 .. ld PROVE d[i] # "HI"
    OBVIOUS
  <2>1. lo + i \in DOMAIN u /\ u[lo + i] = d[i]
    BY ONLY <1>3, <1>6, i \in 1 .. ld
  <2> QED BY <1>7, <2>1
<1>10. PICK e : e = EncodedLen(c)
  OBVIOUS
<1>11. e = IF ld = 0 THEN lo + 1 ELSE (lo + ld) + 2
  BY <1>1, <1>10 DEF EncodedLen
<1>12. EncodedByte(c, j) = IF j = e THEN "CR" ELSE IF j <= lo THEN a[j]
                           ELSE IF j = lo + 1 THEN "SP" ELSE d[(j - lo) - 1]
  BY <1>1, <1>2, <1>10 DEF EncodedByte
<1>13. \/ j = e \/ (j # e /\ j \in 1 .. lo) \/ (j # e /\ j = lo + 1)
       \/ (j # e /\ j > lo + 1 /\ (j - lo) - 1 \in 1 .. ld)
  <2>1. j \in 1 .. e
    BY <1>10
  <2> QED BY ONLY <1>3, <1>11, <2>1
<1>14. CASE j # e /\ j > lo + 1 /\ (j - lo) - 1 \in 1 .. ld
  <2>1. d[(j - lo) - 1] # "HI"
    BY <1>9, <1>14
  <2>2. j \in Nat
    BY AtLeastTwoBytes
  <2>3. ~(j <= lo) /\ j # lo + 1
    BY ONLY <1>14, <1>3, <2>2
  <2> QED BY ONLY <1>12, <1>14, <2>1, <2>3
<1>15. CASE j # e /\ j \in 1 .. lo
  BY ONLY <1>8, <1>12, <1>15, <1>3
<1>16. CASE j # e /\ j = lo + 1
  BY ONLY <1>12, <1>16, <1>3
<1> QED BY <1>12, <1>13, <1>14, <1>15, <1>16

\* A request executed is answered as often as its command asks for.
LEMMA RepliesToOwn ==
  ASSUME NEW c \in Commands
  PROVE  RepliesTo(Request(c)) = c.replies
<1>1. \A d \in Commands : Request(d) = Request(c) => d = c
  <2> SUFFICES ASSUME NEW d \in Commands, Request(d) = Request(c) PROVE d = c
    OBVIOUS
  <2>1. d.op = c.op /\ d.data = c.data
    BY DEF Request
  <2> QED BY <2>1, FramingAssumption
<1>2. (CHOOSE d \in Commands : Request(d) = Request(c)) = c
  BY <1>1
<1> QED BY <1>2 DEF RepliesTo

\* One byte consumed is one byte less to wait for.
LEMMA ParsedNext ==
  ASSUME Typed, NEW c \in Commands, NEW k \in Nat, Awaits(c, k),
         NEW ch, ch = EncodedByte(c, k + 1), Consumed(ch)
  PROVE  k + 1 < EncodedLen(c) /\ Parsed(c, k + 1)'
<1>1. Parsed(c, k) /\ ch = EncodedByte(c, k + 1) /\ Consumed(ch)
  BY DEF Awaits
<1>2. PICK lo \in Nat \ {0}, ld \in Nat :
        lo = Len(c.op) /\ ld = Len(c.data) /\ (c.data = <<>> <=> ld = 0)
  BY CommandBytes
<1>3. PICK a, d : a = c.op /\ d = c.data /\ a \in Seq(Chars) /\ d \in Seq(Chars)
  BY CommandBytes DEF Bytes
<1>4. PICK e \in Nat : e = EncodedLen(c) /\ k \in 0 .. e - 1
  BY AtLeastTwoBytes DEF Awaits
<1>5. /\ e = IF ld = 0 THEN lo + 1 ELSE (lo + ld) + 2
      /\ k \in Nat /\ k <= e - 1 /\ e \in Nat /\ lo \in Nat /\ lo >= 1 /\ ld \in Nat
  <2>1. e = IF ld = 0 THEN lo + 1 ELSE (lo + ld) + 2
    BY <1>2, <1>4 DEF EncodedLen
  <2>2. k \in Nat /\ k <= e - 1
    BY ONLY <1>4, e \in Nat
  <2> QED BY <2>1, <2>2
<1>6. ch = IF k + 1 = e THEN "CR" ELSE IF k + 1 <= lo THEN a[k + 1]
           ELSE IF k + 1 = lo + 1 THEN "SP" ELSE d[k - lo]
  <2>1. ((k + 1) - lo) - 1 = k - lo
    BY <1>5
  <2> QED BY <1>1, <1>2, <1>3, <1>4, <2>1 DEF EncodedByte
<1>7. /\ \A i \in 1 .. lo : a[i] \notin {"SP", "CR"}
      /\ \A i \in 1 .. ld : d[i] # "CR"
  BY <1>2, <1>3, CommandBytes
<1>8. /\ k = 0 => state = "op_start" /\ command = Empty
      /\ k \in 1 .. lo => state = "op" /\ command = [op |-> SubSeq(a, 1, k), data |-> <<>>]
      /\ k = lo + 1 => state = "data_start" /\ command = [op |-> a, data |-> <<>>]
      /\ k > lo + 1 => /\ state = "data"
                       /\ command = [op |-> a, data |-> SubSeq(d, 1, (k - lo) - 1)]
  BY <1>1, <1>2, <1>3, <1>5 DEF Parsed
<1>9. PICK m \in Nat : m = k + 1
  OBVIOUS
<1>10. SUFFICES /\ m < e
                /\ m <= lo => state' = "op" /\ command' = [op |-> SubSeq(a, 1, m), data |-> <<>>]
                /\ m = lo + 1 => state' = "data_start" /\ command' = [op |-> a, data |-> <<>>]
                /\ m > lo + 1 => /\ state' = "data"
                                 /\ command' = [op |-> a, data |-> SubSeq(d, 1, (m - lo) - 1)]
  <2>1. m # 0 /\ (m <= lo \/ m = lo + 1 \/ m > lo + 1)
    BY <1>2, <1>5, <1>9
  <2> QED BY <1>2, <1>3, <1>4, <1>9, <2>1 DEF Parsed
<1>11. CASE k = 0
  <2>1. state = "op_start" /\ command = Empty /\ ch = a[1] /\ m = 1 /\ m < e /\ m <= lo
    BY ONLY <1>5, <1>6, <1>8, <1>9, <1>11
  <2>2. state' = "op" /\ command' = [command EXCEPT !.op = Append(command.op, ch)]
    BY ONLY <1>5, <2>1, <1>1 DEF Consumed
  <2>3. Append(SubSeq(a, 1, 0), a[0 + 1]) = SubSeq(a, 1, 0 + 1)
    <3>1. 0 \in 0 .. Len(a) - 1
      BY ONLY <1>2, <1>3, <1>5
    <3> QED BY ONLY <1>5, <1>3, <3>1, AppendNext
  <2>4. SubSeq(a, 1, 0) = <<>>
    OBVIOUS
  <2>5. Append(<<>>, ch) = SubSeq(a, 1, 1)
    BY ONLY <1>5, <2>1, <2>3, <2>4
  <2>6. command' = [op |-> SubSeq(a, 1, 1), data |-> <<>>]
    BY ONLY <1>5, <2>1, <2>2, <2>5 DEF Empty
  <2>7. m <= lo /\ ~(m = lo + 1) /\ ~(m > lo + 1)
    BY ONLY <1>5, <1>9, <2>1
  <2>8. command' = [op |-> SubSeq(a, 1, m), data |-> <<>>]
    BY ONLY <2>1, <2>6
  <2> QED BY ONLY <2>1, <2>2, <2>6, <2>8, <2>7
<1>12. CASE k \in 1 .. lo - 1
  <2>1. /\ state = "op" /\ command = [op |-> SubSeq(a, 1, k), data |-> <<>>]
        /\ ch = a[k + 1] /\ m < e /\ m <= lo /\ k + 1 \in 1 .. lo
    BY ONLY <1>5, <1>6, <1>8, <1>9, <1>12
  <2>2. ch \notin {"SP", "CR"}
    BY ONLY <1>5, <1>7, <2>1
  <2>3. state' = "op" /\ command' = [command EXCEPT !.op = Append(command.op, ch)]
    BY ONLY <1>5, <2>1, <2>2, <1>1 DEF Consumed
  <2>4. Append(SubSeq(a, 1, k), a[k + 1]) = SubSeq(a, 1, k + 1)
    <3>1. k \in 0 .. Len(a) - 1
      BY ONLY <1>2, <1>3, <1>12, <1>5
    <3> QED BY ONLY <1>5, <1>3, <3>1, AppendNext
  <2>5. command' = [op |-> SubSeq(a, 1, m), data |-> <<>>]
    BY ONLY <1>5, <1>9, <2>1, <2>3, <2>4
  <2>6. m <= lo /\ ~(m = lo + 1) /\ ~(m > lo + 1)
    BY ONLY <1>5, <1>9, <2>1
  <2> QED BY ONLY <2>1, <2>3, <2>5, <2>6
<1>13. CASE k = lo
  <2>1. state = "op" /\ command = [op |-> SubSeq(a, 1, lo), data |-> <<>>] /\ m = lo + 1
    BY ONLY <1>5, <1>8, <1>9, <1>13
  <2>2. ch # "CR"
    BY ONLY <1>5, <2>1, <1>1 DEF Consumed
  <2>3. m # e /\ ch = "SP"
    BY ONLY <1>5, <1>6, <1>9, <1>13, <2>2
  <2>4. m < e
    BY ONLY <1>5, <1>9, <2>3
  <2>5. state' = "data_start" /\ command' = command
    BY ONLY <1>5, <2>1, <2>3, <1>1 DEF Consumed
  <2>6. SubSeq(a, 1, lo) = a
    BY ONLY <1>2, <1>3, WholeSequence
  <2>7. ~(m <= lo) /\ m = lo + 1 /\ ~(m > lo + 1)
    BY ONLY <1>5, <1>9, <2>1
  <2>8. command' = [op |-> a, data |-> <<>>]
    BY ONLY <2>1, <2>5, <2>6
  <2> QED BY ONLY <2>1, <2>4, <2>5, <2>6, <2>8, <2>7
<1>14. CASE k = lo + 1
  <2>1. /\ state = "data_start" /\ command = [op |-> a, data |-> <<>>]
        /\ m = lo + 2 /\ ld # 0 /\ m < e
    BY ONLY <1>5, <1>8, <1>9, <1>14
  <2>2. ch = d[1]
    BY ONLY <1>5, <1>6, <1>9, <1>14, <2>1
  <2>3. state' = "data" /\ command' = [command EXCEPT !.data = Append(command.data, ch)]
    BY ONLY <1>5, <2>1, <1>1 DEF Consumed
  <2>4. Append(SubSeq(d, 1, 0), d[0 + 1]) = SubSeq(d, 1, 0 + 1)
    <3>1. 0 \in 0 .. Len(d) - 1
      BY ONLY <1>2, <1>3, <2>1, <1>5
    <3> QED BY ONLY <1>5, <1>3, <3>1, AppendNext
  <2>5. SubSeq(d, 1, 0) = <<>>
    OBVIOUS
  <2>6. Append(<<>>, ch) = SubSeq(d, 1, 1)
    BY ONLY <1>5, <2>2, <2>4, <2>5
  <2>7. command' = [op |-> a, data |-> SubSeq(d, 1, 1)]
    BY ONLY <1>5, <2>1, <2>3, <2>6
  <2>8. (m - lo) - 1 = 1
    BY ONLY <1>5, <2>1
  <2>9. ~(m <= lo) /\ ~(m = lo + 1) /\ m > lo + 1
    BY ONLY <1>5, <1>9, <2>1
  <2>10. command' = [op |-> a, data |-> SubSeq(d, 1, (m - lo) - 1)]
    BY ONLY <2>7, <2>8
  <2> QED BY ONLY <2>1, <2>3, <2>7, <2>8, <2>10, <2>9
<1>15. CASE k > lo + 1
  <2>1. k \in Nat /\ k <= e - 1 /\ lo \in Nat /\ ld \in Nat
    BY ONLY <1>5
  <2>2. e = (lo + ld) + 2
    BY ONLY <1>5, <1>15, <2>1
  <2>3. PICK i : i = (k - lo) - 1
    OBVIOUS
  <2>4. i \in 1 .. ld /\ k - lo = i + 1 /\ (m - lo) - 1 = i + 1 /\ m > lo + 1
    BY ONLY <1>5, <1>9, <1>15, <2>1, <2>2, <2>3
  <2>5. state = "data" /\ command = [op |-> a, data |-> SubSeq(d, 1, i)]
    BY ONLY <1>5, <1>8, <1>15, <2>3
  <2>6. ch # "CR"
    BY ONLY <1>5, <2>5, <1>1 DEF Consumed
  <2>7. m # e /\ ch = d[i + 1]
    <3>1. ~(k + 1 <= lo) /\ k + 1 # lo + 1
      BY ONLY <1>5, <1>15, <2>1
    <3> QED BY ONLY <1>5, <1>6, <1>9, <2>4, <2>6, <3>1
  <2>8. m < e
    BY ONLY <1>5, <1>9, <2>7
  <2>9. state' = "data" /\ command' = [command EXCEPT !.data = Append(command.data, ch)]
    BY ONLY <1>5, <2>5, <2>6, <1>1 DEF Consumed
  <2>10. Append(SubSeq(d, 1, i), d[i + 1]) = SubSeq(d, 1, i + 1)
    <3>1. i \in 0 .. Len(d) - 1
      <4>1. i \in Nat /\ i <= ld - 1
        BY ONLY <1>5, <1>9, <2>1, <2>2, <2>3, <2>4, <2>8
      <4> QED BY ONLY <1>2, <1>3, <1>5, <4>1
    <3> QED BY ONLY <1>5, <1>3, <3>1, AppendNext
  <2>11. command' = [op |-> a, data |-> SubSeq(d, 1, i + 1)]
    BY ONLY <1>5, <2>5, <2>7, <2>9, <2>10
  <2>12. ~(m <= lo) /\ ~(m = lo + 1) /\ m > lo + 1
    BY ONLY <1>5, <1>9, <2>4
  <2>13. command' = [op |-> a, data |-> SubSeq(d, 1, (m - lo) - 1)]
    BY ONLY <2>4, <2>11
  <2> QED BY ONLY <2>4, <2>8, <2>9, <2>11, <2>13, <2>12
<1> QED BY ONLY <1>5, <1>11, <1>12, <1>13, <1>14, <1>15

\* The command is complete exactly when its last byte is consumed.
LEMMA ParsedWhole ==
  ASSUME NEW c \in Commands, Parsed(c, EncodedLen(c) - 1)
  PROVE  command = Request(c)
<1>1. PICK lo \in Nat \ {0}, ld \in Nat :
        lo = Len(c.op) /\ ld = Len(c.data) /\ (c.data = <<>> <=> ld = 0)
  BY CommandBytes
<1>2. PICK a, d : a = c.op /\ d = c.data /\ a \in Seq(Chars) /\ d \in Seq(Chars)
  BY CommandBytes DEF Bytes
<1>3. SubSeq(a, 1, lo) = a /\ SubSeq(d, 1, ld) = d
  BY <1>1, <1>2, WholeSequence
<1>4. CASE ld = 0
  <2>1. EncodedLen(c) - 1 = lo
    BY <1>1, <1>4 DEF EncodedLen
  <2>2. command = [op |-> SubSeq(a, 1, lo), data |-> <<>>]
    BY <1>1, <1>2, <2>1 DEF Parsed
  <2> QED BY <1>1, <1>2, <1>3, <1>4, <2>2 DEF Request
<1>5. CASE ld # 0
  <2>1. PICK k : k = EncodedLen(c) - 1
    OBVIOUS
  <2>2. EncodedLen(c) = (lo + ld) + 2
    BY <1>1, <1>5 DEF EncodedLen
  <2>3. k = (lo + ld) + 1 /\ k # 0 /\ ~(k <= lo) /\ k # lo + 1 /\ (k - lo) - 1 = ld
    BY <1>5, <2>1, <2>2
  <2>4. command = [op |-> a, data |-> SubSeq(d, 1, ld)]
    BY <1>1, <1>2, <2>1, <2>3 DEF Parsed
  <2> QED BY <1>2, <1>3, <2>4 DEF Request
<1> QED BY <1>4, <1>5

\* A client that is well-behaved now always was.
LEMMA WellBehavedPast ==
  ASSUME Typed, WellBehaved',
         \/ sent' = sent
         \/ \E c \in Commands : sent' = Append(sent, c)
  PROVE  /\ WellBehaved
         /\ \A i \in 1 .. Len(sent) : sent'[i] = sent[i]
<1>1. sent \in Seq(Commands)
  BY DEF Typed
<1>2. /\ Len(sent) \in Nat /\ DOMAIN sent = 1 .. Len(sent)
      /\ \A i \in DOMAIN sent : i \in DOMAIN sent' /\ sent'[i] = sent[i]
  BY <1>1
<1>3. \A i \in DOMAIN sent' : Ascii(sent'[i]) /\ sent'[i].replies = 1
  BY DEF WellBehaved, Ascii
<1>4. \A i \in DOMAIN sent : Ascii(sent[i]) /\ sent[i].replies = 1
  BY <1>2, <1>3
<1> QED BY <1>2, <1>4 DEF WellBehaved

Current == sent[Len(sent)]

\* While a byte is parsed, a well-behaved client waits for its last command.
LEMMA ParsingLast ==
  ASSUME Typed, WellBehaved, InStep, buffer # <<>>
  PROVE  /\ Len(sent) = Len(executed) + 1 /\ replies = Len(executed)
         /\ Len(executed) \in Nat /\ Len(sent) \in 1 .. Len(sent)
         /\ Current \in Commands /\ Ascii(Current) /\ Current.replies = 1
         /\ \A j \in 1 .. Len(executed) : executed[j] = Request(sent[j])
         /\ \E k \in Nat : Awaits(Current, k)
<1>1. Rest # <<>>
  BY ParseTakesHead
<1>2. /\ replies = Len(executed) /\ Len(sent) = Len(executed) + 1
      /\ \A j \in 1 .. Len(executed) : executed[j] = Request(sent[j])
      /\ \E k \in Nat : Awaits(Current, k)
  BY <1>1 DEF InStep, Current
<1>3. sent \in Seq(Commands) /\ executed \in Seq(Requests)
  BY DEF Typed
<1>4. Len(executed) \in Nat /\ Len(sent) \in 1 .. Len(sent) /\ DOMAIN sent = 1 .. Len(sent)
  BY <1>2, <1>3
<1>5. Current \in Commands /\ Ascii(Current) /\ Current.replies = 1
  BY <1>3, <1>4 DEF WellBehaved, Current
<1> QED BY <1>2, <1>4, <1>5

LEMMA StepInvariant ==
  ASSUME Window = 1
  PROVE  FramingSpec => []InStep
<1>1. FramingInit => InStep
  BY DEF FramingInit, InStep, Rest
<1>2. Typed /\ InStep /\ [FramingNext]_framingVars => InStep'
  <2> SUFFICES ASSUME Typed, InStep, [FramingNext]_framingVars, WellBehaved'
               PROVE  InStep'
    BY DEF InStep
  <2>1. ASSUME NEW c \in Commands, ClientSends(c)
        PROVE  InStep'
    <3>1. /\ sent' = Append(sent, c) /\ state' = state /\ command' = command
          /\ executed' = executed /\ replies' = replies /\ Len(sent) < replies + 1
      BY <2>1 DEF ClientSends
    <3>2. WellBehaved /\ \A i \in 1 .. Len(sent) : sent'[i] = sent[i]
      BY <3>1, WellBehavedPast
    <3>3. sent \in Seq(Commands) /\ executed \in Seq(Requests) /\ Len(sent) \in Nat /\ Len(executed) \in Nat
      BY DEF Typed
    <3>4. /\ Len(sent) = Len(executed) /\ replies = Len(executed)
          /\ Rest = <<>> /\ state = "op_start" /\ command = Empty
          /\ \A j \in 1 .. Len(executed) : executed[j] = Request(sent[j])
      BY <3>1, <3>2, <3>3 DEF InStep
    <3>5. Rest' = Encoded(c)
      <4>1. Rest' = <<>> \o Encoded(c) /\ Encoded(c) \in Seq(Chars)
        BY <2>1, <3>4, SendKeepsBytes DEF Bytes
      <4> QED BY <4>1
    <3>6. Len(sent') = Len(sent) + 1 /\ sent'[Len(sent')] = c
      BY <3>1, <3>3
    <3>7. Awaits(c, 0)'
      <4>1. EncodedLen(c) \in Nat /\ EncodedLen(c) >= 2
        BY AtLeastTwoBytes
      <4>2. 0 \in 0 .. EncodedLen(c) - 1 /\ EncodedLen(c) - 0 = EncodedLen(c)
        BY ONLY <4>1
      <4>3. Len(Rest') = EncodedLen(c) /\ \A j \in 1 .. EncodedLen(c) : Rest'[j] = EncodedByte(c, j)
        BY <3>5, EncodedAt
      <4>4. \A j \in 1 .. EncodedLen(c) : 0 + j = j
        BY ONLY <4>1
      <4>5. Parsed(c, 0)'
        BY <3>1, <3>4 DEF Parsed, Empty
      <4> QED BY <4>2, <4>3, <4>4, <4>5 DEF Awaits
    <3>8. \E k \in Nat : Awaits(sent[Len(sent)], k)'
      BY <3>6, <3>7
    <3>9. \A j \in 1 .. Len(executed') : executed'[j] = Request(sent'[j])
      BY <3>1, <3>2, <3>4
    <3> QED BY <3>1, <3>4, <3>6, <3>8, <3>9 DEF InStep
  <2>2. CASE ReadSome
    <3>1. /\ sent' = sent /\ state' = state /\ command' = command
          /\ executed' = executed /\ replies' = replies /\ Rest' = Rest
      BY <2>2, ReadKeepsRest DEF ReadSome
    <3>2. WellBehaved
      BY <3>1, WellBehavedPast
    <3> QED BY <3>1, <3>2 DEF InStep, Awaits, Parsed
  <2>3. CASE buffer # <<>> /\ ParseByte
    <3>1. sent' = sent
      BY <2>3 DEF ParseByte, ParseMore, ParseComplete, ParseInvalid
    <3>2. WellBehaved
      BY <3>1, WellBehavedPast
    <3>3. /\ Len(sent) = Len(executed) + 1 /\ replies = Len(executed)
          /\ Len(executed) \in Nat /\ Len(sent) \in 1 .. Len(sent)
          /\ Current \in Commands /\ Ascii(Current) /\ Current.replies = 1
          /\ \A j \in 1 .. Len(executed) : executed[j] = Request(sent[j])
          /\ \E k \in Nat : Awaits(Current, k)
      BY <2>3, <3>2, ParsingLast
    <3>4. PICK c : c = Current
      OBVIOUS
    <3>5. PICK k \in Nat : Awaits(c, k)
      BY <3>3, <3>4
    <3>6. PICK e \in Nat : e = EncodedLen(c) /\ e >= 2
      BY <3>3, <3>4, AtLeastTwoBytes
    <3>7. PICK ch : ch = Head(buffer)
      OBVIOUS
    <3>8. /\ k \in 0 .. e - 1 /\ Len(Rest) = e - k /\ Parsed(c, k)
          /\ \A j \in 1 .. e - k : Rest[j] = EncodedByte(c, k + j)
      BY <3>5, <3>6 DEF Awaits
    <3>9. ch = EncodedByte(c, k + 1) /\ k + 1 \in 1 .. e
      <4>1. 1 \in 1 .. e - k /\ k + 1 \in 1 .. e
        BY ONLY <3>6, <3>8
      <4>2. Rest[1] = ch
        BY <2>3, <3>7, ParseTakesHead
      <4> QED BY <3>8, <4>1, <4>2
    <3>10. ch # "HI" /\ (ch = "CR" <=> k + 1 = e)
      BY <3>3, <3>4, <3>6, <3>9, AsciiBytes, TerminatorIsLast
    <3>11. CASE ParseMore
      <4>1. Consumed(ch)
        BY <3>7, <3>11, ConsumeByCases
      <4>2. k + 1 < e /\ Parsed(c, k + 1)'
        BY <3>3, <3>4, <3>5, <3>6, <3>9, <4>1, ParsedNext
      <4>3. Rest' = Tail(Rest) /\ Rest \in Seq(Chars) /\ Rest # <<>>
        BY <2>3, <3>11, ParseTakesHead DEF Bytes
      <4>4. PICK t : t = Tail(Rest)
        OBVIOUS
      <4>5. /\ Len(t) = Len(Rest) - 1 /\ Len(Rest) \in Nat
            /\ \A j \in 1 .. Len(t) : t[j] = Rest[j + 1]
        BY <4>3, <4>4
      <4>6. Len(t) = e - (k + 1)
        BY ONLY <3>5, <3>6, <3>8, <4>5
      <4>7. \A j \in 1 .. e - (k + 1) : t[j] = EncodedByte(c, (k + 1) + j)
        <5> SUFFICES ASSUME NEW j \in 1 .. e - (k + 1) PROVE t[j] = EncodedByte(c, (k + 1) + j)
          OBVIOUS
        <5>1. j + 1 \in 1 .. e - k /\ k + (j + 1) = (k + 1) + j /\ j \in 1 .. Len(t)
          BY ONLY <3>5, <3>6, <4>6, j \in 1 .. e - (k + 1)
        <5> QED BY <3>8, <4>5, <5>1
      <4>8. k + 1 \in 0 .. e - 1 /\ k + 1 \in Nat
        BY ONLY <3>5, <3>6, <4>2
      <4>9. Awaits(c, k + 1)'
        BY <3>6, <4>2, <4>3, <4>4, <4>6, <4>7, <4>8 DEF Awaits
      <4>10. sent'[Len(sent')] = c
        BY <3>1, <3>4 DEF Current
      <4>11. executed' = executed /\ replies' = replies
        BY <3>11 DEF ParseMore
      <4>12. \E i \in Nat : Awaits(sent[Len(sent)], i)'
        BY <4>8, <4>9, <4>10
      <4> QED BY <3>1, <3>3, <4>11, <4>12 DEF InStep
    <3>12. CASE ParseComplete
      <4>1. k + 1 = e /\ k = e - 1
        BY <3>5, <3>6, <3>7, <3>10, <3>12, ConsumeByCases
      <4>2. command = Request(c)
        BY <3>3, <3>4, <3>6, <3>8, <4>1, ParsedWhole
      <4>3. /\ buffer' = <<>> /\ wire' = wire /\ state' = "op_start" /\ command' = Empty
            /\ executed' = Append(executed, Request(c)) /\ replies' = replies + RepliesTo(Request(c))
        BY <3>12, <4>2 DEF ParseComplete, StartOver
      <4>4. replies' = replies + 1
        BY <3>3, <3>4, <4>3, RepliesToOwn
      <4>5. Rest' = wire /\ Len(buffer) \in Nat \ {0} /\ Len(Rest) = Len(buffer) + Len(wire)
        BY <2>3, <4>3, WireIsRest
      <4>6. wire \in Seq(Chars) /\ Len(wire) \in Nat
        BY DEF Typed, Bytes
      <4>7. Len(wire) = 0
        BY ONLY <3>6, <3>8, <4>1, <4>5, <4>6
      <4>8. Rest' = <<>>
        BY <4>5, <4>6, <4>7
      <4>9. /\ Len(executed') = Len(executed) + 1
            /\ \A j \in 1 .. Len(executed) : executed'[j] = executed[j]
            /\ executed'[Len(executed) + 1] = Request(c)
        BY <4>3 DEF Typed
      <4>10. c = sent'[Len(executed) + 1]
        BY <3>1, <3>3, <3>4 DEF Current
      <4>11. \A j \in 1 .. Len(executed) : executed'[j] = Request(sent'[j])
        BY <3>1, <3>3, <4>9
      <4>12. \A j \in 1 .. Len(executed') : j \in 1 .. Len(executed) \/ j = Len(executed) + 1
        BY <3>3, <4>9
      <4>13. \A j \in 1 .. Len(executed') : executed'[j] = Request(sent'[j])
        BY <4>9, <4>10, <4>11, <4>12
      <4>14. replies' = Len(executed') /\ Len(sent') = Len(executed')
        BY <3>1, <3>3, <4>4, <4>9
      <4> QED BY <4>3, <4>8, <4>13, <4>14 DEF InStep
    <3>13. CASE ParseInvalid
      BY <3>7, <3>10, <3>13, ConsumeByCases
    <3> QED BY <2>3, <3>11, <3>12, <3>13 DEF ParseByte
  <2>4. CASE UNCHANGED framingVars
    <3>1. /\ sent' = sent /\ state' = state /\ command' = command
          /\ executed' = executed /\ replies' = replies /\ Rest' = Rest
      BY <2>4 DEF framingVars, Rest
    <3>2. WellBehaved
      BY <3>1, WellBehavedPast
    <3> QED BY <3>1, <3>2 DEF InStep, Awaits, Parsed
  <2> QED BY <2>1, <2>2, <2>3, <2>4 DEF FramingNext, ParseByte
<1> QED BY <1>1, <1>2, Typing, PTL DEF FramingSpec

\* If the client waits for the reply to each of its commands before it sends
\* the next, the commands executed are those it sent, in order, none lost,
\* split, merged or repeated, however the network cuts the stream
\* (command_parser.cpp:26-88, connection.cpp:674-699).
THEOREM ExecutedInOrderHolds ==
  ASSUME Window = 1
  PROVE  FramingSpec => []ExecutedInOrder
<1>1. Typed /\ InStep => ExecutedInOrder
  <2> SUFFICES ASSUME Typed, InStep, WellBehaved
               PROVE  IsPrefix(executed, [i \in DOMAIN sent |-> Request(sent[i])])
    BY DEF ExecutedInOrder
  <2>1. sent \in Seq(Commands) /\ executed \in Seq(Requests)
    BY DEF Typed
  <2>2. /\ Len(executed) \in Nat /\ Len(sent) \in Nat /\ Len(executed) <= Len(sent)
        /\ \A j \in 1 .. Len(executed) : executed[j] = Request(sent[j])
    BY <2>1 DEF InStep
  <2>3. \A i \in 1 .. Len(sent) : Request(sent[i]) \in Requests
    <3> SUFFICES ASSUME NEW i \in 1 .. Len(sent) PROVE Request(sent[i]) \in Requests
      OBVIOUS
    <3>1. sent[i] \in Commands
      BY <2>1
    <3>2. sent[i].op \in Bytes /\ sent[i].data \in Bytes
      BY <3>1, CommandBytes
    <3> QED BY <3>2 DEF Request, Requests
  <2>4. PICK r : r = [i \in DOMAIN sent |-> Request(sent[i])]
    OBVIOUS
  <2>5. r \in Seq(Requests) /\ Len(r) = Len(sent) /\ \A i \in 1 .. Len(sent) : r[i] = Request(sent[i])
    <3>1. r = [i \in 1 .. Len(sent) |-> Request(sent[i])]
      BY <2>1, <2>4
    <3> QED BY <2>2, <2>3, <3>1
  <2>6. PICK n \in Nat : n = Len(executed)
    BY <2>2
  <2>7. PICK a, b : a = SubSeq(executed, 1, n) /\ b = SubSeq(r, 1, n)
    OBVIOUS
  <2>8. a \in Seq(Requests) /\ Len(a) = n /\ \A j \in 1 .. n : a[j] = executed[j]
    BY <2>1, <2>6, <2>7
  <2>9. b \in Seq(Requests) /\ Len(b) = n /\ \A j \in 1 .. n : b[j] = r[j]
    BY <2>2, <2>5, <2>6, <2>7
  <2>10. \A j \in 1 .. n : a[j] = b[j]
    BY <2>2, <2>5, <2>6, <2>8, <2>9
  <2>11. a = b
    BY <2>8, <2>9, <2>10
  <2> QED BY <2>2, <2>4, <2>5, <2>6, <2>7, <2>11 DEF IsPrefix
<1> QED BY <1>1, Typing, StepInvariant, PTL

-----------------------------------------------------------------------------
(* Nothing of an earlier command is left over.                             *)

LEMMA FlattenOne ==
  ASSUME NEW s, Len(s) = 1
  PROVE  FlattenSeq(s) = s[1]
<1> DEFINE F(f) == f = [i \in 1 .. Len(s) |-> IF i = 1 THEN s[i] ELSE f[i - 1] \o s[i]]
<1>1. PICK f : f = [i \in 1 .. Len(s) |-> s[1]]
  OBVIOUS
<1>2. \A i \in 1 .. Len(s) : i = 1
  OBVIOUS
<1>3. F(f)
  BY <1>1, <1>2
<1>4. F(CHOOSE g : F(g))
  BY <1>3
<1>5. PICK g : g = (CHOOSE h : F(h))
  OBVIOUS
<1>6. g[1] = s[1]
  BY <1>4, <1>5
<1>7. FlattenSeq(s) = g[Len(s)]
  BY <1>5 DEF FlattenSeq
<1> QED BY <1>6, <1>7

Gathered ==
  command.op \o (IF state \in {"data_start", "data"} THEN <<"SP">> ELSE <<>>) \o command.data

\* The parser holds the first k bytes of the command, the delimiter included.
LEMMA GatheredBytes ==
  ASSUME NEW c \in Commands, NEW k \in Nat, Awaits(c, k)
  PROVE  /\ Gathered \in Seq(Chars) /\ Len(Gathered) = k
         /\ \A j \in 1 .. k : Gathered[j] = EncodedByte(c, j)
<1>1. PICK lo \in Nat \ {0}, ld \in Nat :
        lo = Len(c.op) /\ ld = Len(c.data) /\ (c.data = <<>> <=> ld = 0)
  BY CommandBytes
<1>2. PICK a, d : a = c.op /\ d = c.data /\ a \in Seq(Chars) /\ d \in Seq(Chars)
  BY CommandBytes DEF Bytes
<1>3. PICK e \in Nat : e = EncodedLen(c) /\ k \in 0 .. e - 1
  BY AtLeastTwoBytes DEF Awaits
<1>4. /\ e = IF ld = 0 THEN lo + 1 ELSE (lo + ld) + 2
      /\ k \in Nat /\ k <= e - 1 /\ lo \in Nat /\ lo >= 1 /\ ld \in Nat
  <2>1. e = IF ld = 0 THEN lo + 1 ELSE (lo + ld) + 2
    BY <1>1, <1>3 DEF EncodedLen
  <2>2. k \in Nat /\ k <= e - 1
    BY ONLY <1>3, e \in Nat
  <2> QED BY <2>1, <2>2
<1>5. lo = Len(a) /\ ld = Len(d)
  BY <1>1, <1>2
<1>6. \A j \in 1 .. k : EncodedByte(c, j) = IF j <= lo THEN a[j]
                                            ELSE IF j = lo + 1 THEN "SP" ELSE d[(j - lo) - 1]
  <2> SUFFICES ASSUME NEW j \in 1 .. k
               PROVE  EncodedByte(c, j) = IF j <= lo THEN a[j]
                                          ELSE IF j = lo + 1 THEN "SP" ELSE d[(j - lo) - 1]
    OBVIOUS
  <2>1. j # e
    BY ONLY <1>4, j \in 1 .. k, e \in Nat
  <2> QED BY <1>1, <1>2, <1>3, <2>1 DEF EncodedByte
<1>7. <<>> \in Seq(Chars) /\ <<"SP">> \in Seq(Chars) /\ \A s \in Seq(Chars) : s \o <<>> = s
  BY DEF Chars
<1>8. CASE k <= lo
  <2>1. PICK p : p = SubSeq(a, 1, k)
    OBVIOUS
  <2>2. p \in Seq(Chars) /\ Len(p) = k /\ \A j \in 1 .. k : p[j] = a[j]
    BY ONLY <1>2, <1>4, <1>5, <1>8, <2>1
  <2>3. command.op = p /\ command.data = <<>> /\ state \in {"op_start", "op"}
    <3>1. CASE k = 0
      <4>1. p = <<>>
        BY <2>2, <3>1
      <4> QED BY <3>1, <4>1 DEF Awaits, Parsed, Empty
    <3>2. CASE k # 0
      BY <1>1, <1>2, <1>8, <2>1, <3>2 DEF Awaits, Parsed
    <3> QED BY <3>1, <3>2
  <2>4. Gathered = (p \o <<>>) \o <<>>
    BY <2>3 DEF Gathered
  <2>5. Gathered = p
    BY <1>7, <2>2, <2>4
  <2>6. \A j \in 1 .. k : j <= lo
    BY ONLY <1>4, <1>8
  <2> QED BY <1>6, <2>2, <2>5, <2>6
<1>9. CASE k > lo
  <2>1. PICK q : q = SubSeq(d, 1, (k - lo) - 1)
    OBVIOUS
  <2>2. PICK n \in Nat : n = (k - lo) - 1 /\ n <= ld /\ k = (lo + 1) + n
    BY ONLY <1>4, <1>9, e \in Nat
  <2>3. q \in Seq(Chars) /\ Len(q) = n /\ \A j \in 1 .. n : q[j] = d[j]
    <3>1. n \in 0 .. Len(d) /\ d \in Seq(Chars)
      <4>1. n \in 0 .. ld
        BY ONLY <1>4, <2>2, n \in Nat
      <4>2. n \in 0 .. Len(d)
        BY ONLY <1>5, <4>1
      <4>3. d \in Seq(Chars)
        BY <1>2
      <4> QED BY ONLY <4>2, <4>3
    <3>2. q = SubSeq(d, 1, n)
      BY <2>1, <2>2
    <3> QED BY ONLY <3>1, <3>2, PrefixAt
  <2>4. command.op = a /\ command.data = q /\ state \in {"data_start", "data"}
    <3>1. k # 0 /\ ~(k <= lo)
      BY ONLY <1>4, <1>9
    <3>2. CASE n = 0
      <4>1. q = <<>> /\ k = lo + 1
        BY <2>2, <2>3, <3>2, <1>4
      <4> QED BY <1>1, <1>2, <3>1, <4>1 DEF Awaits, Parsed
    <3>3. CASE n # 0
      <4>1. k # lo + 1
        BY ONLY <1>4, <2>2, <3>3
      <4> QED BY <1>1, <1>2, <2>1, <3>1, <4>1 DEF Awaits, Parsed
    <3> QED BY <3>2, <3>3
  <2>5. PICK u : u = a \o <<"SP">>
    OBVIOUS
  <2>6. /\ u \in Seq(Chars) /\ Len(u) = lo + 1
        /\ \A j \in 1 .. lo : u[j] = a[j]
        /\ u[lo + 1] = "SP"
    BY ONLY <1>2, <1>4, <1>5, <1>7, <2>5
  <2>7. Gathered = u \o q
    BY <2>4, <2>5 DEF Gathered
  <2>8. /\ u \o q \in Seq(Chars) /\ Len(u \o q) = Len(u) + Len(q)
        /\ \A j \in 1 .. Len(u) : (u \o q)[j] = u[j]
        /\ \A j \in 1 .. Len(q) : (u \o q)[Len(u) + j] = q[j]
    <3>1. u \in Seq(Chars) /\ q \in Seq(Chars)
      BY <2>3, <2>6
    <3> QED BY ONLY <3>1, JoinAt
  <2>9. PICK g : g = Gathered
    OBVIOUS
  <2>10. /\ g \in Seq(Chars) /\ Len(g) = k
         /\ \A j \in 1 .. lo + 1 : g[j] = u[j]
         /\ \A j \in 1 .. n : g[(lo + 1) + j] = q[j]
    BY ONLY <2>2, <2>3, <2>6, <2>7, <2>8, <2>9
  <2>11. ASSUME NEW j \in 1 .. k
         PROVE  g[j] = EncodedByte(c, j)
    <3>1. EncodedByte(c, j) = IF j <= lo THEN a[j] ELSE IF j = lo + 1 THEN "SP" ELSE d[(j - lo) - 1]
      BY <1>6
    <3>2. CASE j <= lo
      <4>1. j \in 1 .. lo /\ j \in 1 .. lo + 1
        BY ONLY <1>4, <3>2, j \in 1 .. k
      <4> QED BY <2>6, <2>10, <3>1, <3>2, <4>1
    <3>3. CASE j = lo + 1
      <4>1. lo + 1 \in 1 .. lo + 1 /\ ~(j <= lo)
        BY ONLY <1>4, <3>3
      <4> QED BY <2>6, <2>10, <3>1, <3>3, <4>1
    <3>4. CASE j > lo + 1
      <4>1. PICK i : i = (j - lo) - 1
        OBVIOUS
      <4>2. i \in 1 .. n /\ j = (lo + 1) + i /\ ~(j <= lo) /\ j # lo + 1
        BY ONLY <1>4, <2>2, <3>4, <4>1, j \in 1 .. k, n \in Nat
      <4> QED BY <2>3, <2>10, <3>1, <4>1, <4>2
    <3> QED BY ONLY <1>4, <3>2, <3>3, <3>4, j \in 1 .. k
  <2> QED BY <2>9, <2>10, <2>11
<1> QED BY ONLY <1>4, <1>8, <1>9

\* The parser never holds bytes of an earlier command: what it has gathered
\* and what is still on its way make up the one unanswered command
\* (command.cpp:15-19, command_parser.cpp:21-24).
THEOREM NothingLeftOverHolds ==
  ASSUME Window = 1
  PROVE  FramingSpec => []NothingLeftOver
<1>1. Typed => FramingTypeOK
  BY DEF Typed, FramingTypeOK
<1>2. Typed /\ InStep => NothingLeftOver
  <2> SUFFICES ASSUME Typed, InStep, WellBehaved
               PROVE  (Gathered \o buffer) \o wire
                        = LET unanswered == SubSeq(sent, Len(executed) + 1, Len(sent))
                          IN  FlattenSeq([i \in DOMAIN unanswered |-> Encoded(unanswered[i])])
    BY <1>1 DEF NothingLeftOver, Gathered
  <2>1. /\ sent \in Seq(Commands) /\ Len(executed) \in Nat /\ Len(sent) \in Nat
        /\ buffer \in Seq(Chars) /\ wire \in Seq(Chars)
    BY DEF Typed, Bytes
  <2>2. PICK n \in Nat : n = Len(executed)
    BY <2>1
  <2>3. PICK un : un = SubSeq(sent, n + 1, Len(sent))
    OBVIOUS
  <2>4. PICK fl : fl = [i \in DOMAIN un |-> Encoded(un[i])]
    OBVIOUS
  <2>5. SUFFICES (Gathered \o buffer) \o wire = FlattenSeq(fl)
    BY <2>2, <2>3, <2>4
  <2>6. CASE /\ Len(sent) = Len(executed)
             /\ Rest = <<>> /\ state = "op_start" /\ command = Empty
    <3>1. Len(un) = 0 /\ DOMAIN un = {}
      BY <2>1, <2>2, <2>3, <2>6
    <3>2. fl = <<>>
      BY <2>4, <3>1
    <3>3. FlattenSeq(fl) = <<>>
      BY <3>2 DEF FlattenSeq
    <3>4. buffer = <<>> /\ wire = <<>>
      <4>1. Len(buffer \o wire) = Len(buffer) + Len(wire) /\ Len(buffer) \in Nat /\ Len(wire) \in Nat
        BY <2>1, JoinAt
      <4>2. Len(buffer \o wire) = 0
        BY <2>6 DEF Rest
      <4>3. Len(buffer) = 0 /\ Len(wire) = 0
        BY <4>1, <4>2
      <4> QED BY <2>1, <4>3
    <3>5. Gathered = (<<>> \o <<>>) \o <<>>
      BY <2>6 DEF Gathered, Empty
    <3>6. Gathered = <<>>
      BY <3>5
    <3> QED BY <3>3, <3>4, <3>6
  <2>7. CASE /\ Len(sent) = Len(executed) + 1
             /\ \E k \in Nat : Awaits(sent[Len(sent)], k)
    <3>1. Len(sent) = n + 1 /\ n + 1 \in 1 .. Len(sent)
      BY <2>1, <2>2, <2>7
    <3>2. PICK c : c = sent[n + 1]
      OBVIOUS
    <3>3. c \in Commands
      BY <2>1, <3>1, <3>2
    <3>4. PICK k \in Nat : Awaits(c, k)
      BY <2>7, <3>1, <3>2
    <3>5. un = <<c>>
      <4>1. Len(un) = 1 /\ un[1] = c /\ un \in Seq(Commands)
        BY <2>1, <2>3, <3>1, <3>2
      <4> QED BY <4>1
    <3>6. Len(fl) = 1 /\ fl[1] = Encoded(c)
      BY <2>4, <3>5
    <3>7. FlattenSeq(fl) = Encoded(c)
      BY <3>6, FlattenOne
    <3>8. PICK g : g = Gathered
      OBVIOUS
    <3>9. g \in Seq(Chars) /\ Len(g) = k /\ \A j \in 1 .. k : g[j] = EncodedByte(c, j)
      BY <3>3, <3>4, <3>8, GatheredBytes
    <3>10. (g \o buffer) \o wire = g \o (buffer \o wire)
      BY <2>1, <3>9, ConcatAssociative
    <3>11. PICK r : r = buffer \o wire
      OBVIOUS
    <3>12. PICK e \in Nat : e = EncodedLen(c)
      BY <3>3, AtLeastTwoBytes
    <3>13. /\ k \in 0 .. e - 1 /\ Len(r) = e - k
           /\ \A j \in 1 .. e - k : r[j] = EncodedByte(c, k + j)
      BY <3>4, <3>11, <3>12 DEF Awaits, Rest
    <3>14. r \in Seq(Chars)
      BY <2>1, <3>11
    <3>15. /\ g \o r \in Seq(Chars) /\ Len(g \o r) = Len(g) + Len(r)
           /\ \A j \in 1 .. Len(g) : (g \o r)[j] = g[j]
           /\ \A j \in 1 .. Len(r) : (g \o r)[Len(g) + j] = r[j]
      <4>1. g \in Seq(Chars) /\ r \in Seq(Chars)
        BY <3>9, <3>14
      <4> QED BY ONLY <4>1, JoinAt
    <3>16. PICK w : w = g \o r
      OBVIOUS
    <3>17. w \in Seq(Chars) /\ Len(w) = e
      BY ONLY <3>4, <3>9, <3>12, <3>13, <3>15, <3>16
    <3>18. ASSUME NEW j \in 1 .. e PROVE w[j] = EncodedByte(c, j)
      <4>1. CASE j <= k
        <5>1. j \in 1 .. k
          BY ONLY <4>1, <3>4, j \in 1 .. e, e \in Nat
        <5> QED BY <3>9, <3>15, <3>16, <5>1
      <4>2. CASE j > k
        <5>1. PICK i : i = j - k
          OBVIOUS
        <5>2. i \in 1 .. e - k /\ j = k + i
          BY ONLY <3>4, <3>12, <4>2, <5>1, j \in 1 .. e
        <5> QED BY <3>9, <3>13, <3>15, <3>16, <5>2
      <4> QED BY <3>4, <3>12, <4>1, <4>2
    <3>19. /\ Encoded(c) \in Seq(Chars) /\ Len(Encoded(c)) = e
           /\ \A j \in 1 .. e : Encoded(c)[j] = EncodedByte(c, j)
      BY <3>3, <3>12, EncodedAt DEF Bytes
    <3>20. PICK v : v = Encoded(c)
      OBVIOUS
    <3>21. v = w
      <4>1. v \in Seq(Chars) /\ Len(v) = e /\ \A j \in 1 .. e : v[j] = w[j]
        BY <3>18, <3>19, <3>20
      <4> QED BY ONLY <3>17, <4>1
    <3> QED BY <3>7, <3>8, <3>10, <3>11, <3>16, <3>20, <3>21
  <2> QED BY <2>6, <2>7 DEF InStep
<1> QED BY <1>2, Typing, StepInvariant, PTL

===============================================================================
