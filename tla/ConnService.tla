----------------------------- MODULE ConnService -----------------------------
(***************************************************************************)
(* What the command line interface server promises the rest of the plugin, *)
(* without its asynchronous machinery: connections are opened while it     *)
(* serves, each is closed once and for ever, a shutdown closes all of them *)
(* in one step and then lets in at most one straggler, and the server is   *)
(* down only when no connection is left.                                   *)
(***************************************************************************)
CONSTANT Conns

VARIABLES srv,       \* "serving", "deaf" (accepts no more), "draining", "down"
          live,      \* the open connections
          past,      \* the connections that have been closed
          straggler  \* whether one connection may still be opened after the shutdown

svars == <<srv, live, past, straggler>>

Init ==
  /\ srv = "serving"
  /\ live = {} /\ past = {}
  /\ straggler = FALSE

Open(c) ==
  /\ srv = "serving" \/ (srv = "draining" /\ straggler)
  /\ c \notin live \cup past
  /\ live' = live \cup {c}
  /\ straggler' = FALSE
  /\ UNCHANGED <<srv, past>>

Close(c) ==
  /\ c \in live
  /\ live' = live \ {c}
  /\ past' = past \cup {c}
  /\ UNCHANGED <<srv, straggler>>

\* Accepting fails for good; the open connections go on.
GoDeaf ==
  /\ srv = "serving"
  /\ srv' = "deaf"
  /\ UNCHANGED <<live, past, straggler>>

Shutdown ==
  /\ srv \in {"serving", "deaf"}
  /\ srv' = "draining"
  /\ straggler' \in (IF srv = "serving" THEN BOOLEAN ELSE {FALSE})
  /\ live' = {}
  /\ past' = past \cup live

Down ==
  /\ srv \in {"deaf", "draining"}
  /\ live = {} /\ ~straggler
  /\ srv' = "down"
  /\ UNCHANGED <<live, past, straggler>>

Next ==
  \/ \E c \in Conns : Open(c) \/ Close(c)
  \/ GoDeaf \/ Shutdown \/ Down

Spec == Init /\ [][Next]_svars

=============================================================================
