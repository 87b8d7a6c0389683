----------------------------- MODULE Lifecycle ------------------------------
(***************************************************************************)
(* cmd/omnifeed/main.go, runServers: the three HTTP servers are started in *)
(* goroutines, a signal or the failure of one of them starts the shutdown, *)
(* which closes and drains the servers one after the other under a single  *)
(* deadline, and the process ends when every goroutine has.                *)
(*                                                                         *)
(* http.Server is external.  Of it the model has: ListenAndServe fails, or *)
(* serves until Shutdown closes the listener, also when Shutdown came      *)
(* first; Shutdown waits for the connections in use, or for its context.   *)
(***************************************************************************)
EXTENDS Naturals, Sequences

CONSTANTS Servers,    \* the names of specs, in order
          Streaming,  \* the servers with long-lived event streams (serveHTTPSSE)
          Grace,      \* the 30 seconds of shutdownCtx, in ticks
          MaxActive   \* bound on the requests in progress on one server

Server == {Servers[i] : i \in DOMAIN Servers}

ASSUME ServersDistinct ==
  /\ Servers \in Seq(Server)
  /\ \A i, j \in DOMAIN Servers : Servers[i] = Servers[j] => i = j
ASSUME ServerKinds == Streaming \subseteq Server
ASSUME LifecycleBounds == Grace \in Nat /\ MaxActive \in Nat

VARIABLES
  main,          \* where runServers is
  next,          \* the position of its loops in Servers
  up,            \* up[s]: the goroutine of s
  inShutdown,    \* inShutdown[s]: Shutdown has closed s's listener
  wg,            \* the WaitGroup's counter
  errCh,         \* how many errors are in errCh
  signaled,      \* ctx is done: SIGINT or SIGTERM has arrived
  shuttingDown,  \* Health.shutdown
  grace,         \* time left to shutdownCtx
  active,        \* active[s]: requests in progress on s
  streams        \* streams[s]: event streams open on s

control == <<main, next>>
goroutines == <<up, wg, errCh>>
shutdown == <<inShutdown, shuttingDown, grace>>
clients == <<active, streams>>
vars == <<control, goroutines, shutdown, clients, signaled>>

Init ==
  /\ main = "launch" /\ next = 1
  /\ up = [s \in Server |-> "off"]
  /\ inShutdown = [s \in Server |-> FALSE]
  /\ wg = 0 /\ errCh = 0
  /\ signaled = FALSE /\ shuttingDown = FALSE
  /\ grace = Grace
  /\ active = [s \in Server |-> 0]
  /\ streams = [s \in Server |-> 0]

-----------------------------------------------------------------------------
(* runServers *)

\* wg.Add(1).
AddOne == wg + 1

\* One iteration of the first loop.  Load never leaves an address empty
\* (Options!Config), so none of the servers is skipped.
Launch ==
  LET s == Servers[next] IN
  /\ main = "launch" /\ next <= Len(Servers)
  /\ up' = [up EXCEPT ![s] = "starting"]
  /\ wg' = AddOne
  /\ next' = next + 1
  /\ UNCHANGED <<main, errCh, shutdown, clients, signaled>>

Launched ==
  /\ main = "launch" /\ next > Len(Servers)
  /\ main' = "select"
  /\ UNCHANGED <<next, goroutines, shutdown, clients, signaled>>

\* select: case <-ctx.Done().
SelectSignal ==
  /\ main = "select" /\ signaled
  /\ main' = "mark"
  /\ UNCHANGED <<next, goroutines, shutdown, clients, signaled>>

\* select: case err := <-errCh.
SelectError ==
  /\ main = "select" /\ errCh > 0
  /\ errCh' = errCh - 1
  /\ main' = "mark"
  /\ UNCHANGED <<next, up, wg, shutdown, clients, signaled>>

\* Fault variant: health is not told.
MarkNothing ==
  /\ main = "mark"
  /\ main' = "close" /\ next' = 1
  /\ UNCHANGED <<goroutines, shutdown, clients, signaled>>

\* health.MarkShuttingDown(); the deadline of shutdownCtx starts.
MarkShuttingDown ==
  /\ main = "mark"
  /\ shuttingDown' = TRUE
  /\ grace' = Grace
  /\ main' = "close" /\ next' = 1
  /\ UNCHANGED <<goroutines, inShutdown, clients, signaled>>

\* s.Shutdown(shutdownCtx) closes the listener.
Close ==
  LET s == Servers[next] IN
  /\ main = "close" /\ next <= Len(Servers)
  /\ inShutdown' = [inShutdown EXCEPT ![s] = TRUE]
  /\ main' = "drain"
  /\ UNCHANGED <<next, goroutines, shuttingDown, grace, clients, signaled>>

\* Fault variant: Close instead of Shutdown, which waits for nobody.
NoWait(s) == TRUE

\* Shutdown waits for the connections in use, streams included, or the deadline.
MayReturn(s) == (active[s] = 0 /\ streams[s] = 0) \/ grace = 0

\* s.Shutdown returns; its error is dropped.
Drained ==
  /\ main = "drain" /\ MayReturn(Servers[next])
  /\ main' = "close" /\ next' = next + 1
  /\ UNCHANGED <<goroutines, shutdown, clients, signaled>>

AllClosed ==
  /\ main = "close" /\ next > Len(Servers)
  /\ main' = "wait"
  /\ UNCHANGED <<next, goroutines, shutdown, clients, signaled>>

\* wg.Wait() returns and the process ends.
Exit ==
  /\ main = "wait" /\ wg = 0
  /\ main' = "exited"
  /\ UNCHANGED <<next, goroutines, shutdown, clients, signaled>>

-----------------------------------------------------------------------------
(* The goroutine of server s *)

\* ListenAndServe has its listener.
Listen(s) ==
  /\ up[s] = "starting" /\ ~inShutdown[s]
  /\ up' = [up EXCEPT ![s] = "serving"]
  /\ UNCHANGED <<control, wg, errCh, shutdown, clients, signaled>>

\* It returns ErrServerClosed, which is not reported.
ServerClosed(s) ==
  /\ up[s] \in {"starting", "serving"} /\ inShutdown[s]
  /\ up' = [up EXCEPT ![s] = "closed"]
  /\ wg' = wg - 1
  /\ UNCHANGED <<control, errCh, shutdown, clients, signaled>>

\* It returns another error: the address is in use, or Accept failed for good.
ServeFails(s) ==
  /\ up[s] \in {"starting", "serving"} /\ ~inShutdown[s]
  /\ up' = [up EXCEPT ![s] = "failing"]
  /\ UNCHANGED <<control, wg, errCh, shutdown, clients, signaled>>

\* Fault variant: errCh is unbuffered, so only the select receives from it.
SelectReceives == errCh = 0 /\ main = "select"

\* make(chan error, len(specs)).
ErrRoom == errCh < Len(Servers)

\* errCh <- err, and the deferred wg.Done().
SendErr(s) ==
  /\ up[s] = "failing" /\ ErrRoom
  /\ errCh' = errCh + 1
  /\ up' = [up EXCEPT ![s] = "failed"]
  /\ wg' = wg - 1
  /\ UNCHANGED <<control, shutdown, clients, signaled>>

-----------------------------------------------------------------------------
(* Clients, signals and the clock, while the process is there *)

Running == main # "exited"

Accepting(s) == Running /\ up[s] = "serving" /\ ~inShutdown[s]

\* A request or a stream begins on s.
Accept(s) ==
  /\ Accepting(s)
  /\ \/ /\ active[s] < MaxActive
        /\ active' = [active EXCEPT ![s] = @ + 1]
        /\ UNCHANGED streams
     \/ /\ s \in Streaming /\ streams[s] < MaxActive
        /\ streams' = [streams EXCEPT ![s] = @ + 1]
        /\ UNCHANGED active
  /\ UNCHANGED <<control, goroutines, shutdown, signaled>>

\* A handler returns; that of a stream only does when its client has gone.
Finish(s) ==
  /\ Running
  /\ \/ /\ active[s] > 0
        /\ active' = [active EXCEPT ![s] = @ - 1]
        /\ UNCHANGED streams
     \/ /\ streams[s] > 0
        /\ streams' = [streams EXCEPT ![s] = @ - 1]
        /\ UNCHANGED active
  /\ UNCHANGED <<control, goroutines, shutdown, signaled>>

Signal ==
  /\ Running /\ ~signaled
  /\ signaled' = TRUE
  /\ UNCHANGED <<control, goroutines, shutdown, clients>>

Tick ==
  /\ Running /\ shuttingDown /\ grace > 0
  /\ grace' = grace - 1
  /\ UNCHANGED <<control, goroutines, inShutdown, shuttingDown, clients, signaled>>

-----------------------------------------------------------------------------

RunServers ==
  \/ Launch \/ Launched \/ SelectSignal \/ SelectError \/ MarkShuttingDown
  \/ Close \/ Drained \/ AllClosed \/ Exit

Goroutine(s) == Listen(s) \/ ServerClosed(s) \/ ServeFails(s) \/ SendErr(s)

Over == ~Running /\ UNCHANGED vars

Next ==
  \/ RunServers
  \/ \E s \in Server : Running /\ Goroutine(s)
  \/ \E s \in Server : Accept(s) \/ Finish(s)
  \/ Signal \/ Tick \/ Over

Spec == Init /\ [][Next]_vars

\* Goroutines are scheduled and time passes.  Nothing is assumed of clients:
\* requests may take for ever and streams never end.
Fairness ==
  /\ WF_vars(RunServers) /\ WF_vars(Tick)
  /\ \A s \in Server : WF_vars(Running /\ Goroutine(s))

LiveSpec == Spec /\ Fairness

-----------------------------------------------------------------------------
(* Properties *)

\* The process leaves nothing behind: however late a goroutine got to
\* ListenAndServe and however many servers failed, none is listening, starting or
\* stuck when runServers returns, and a request or stream is cut only when the
\* whole grace period is over.
CleanExit ==
  main = "exited" =>
    \A s \in Server : /\ up[s] \in {"off", "failed", "closed"}
                      /\ grace > 0 => active[s] = 0 /\ streams[s] = 0

\* Load balancers are told first (health.go:38): a server that refuses clients
\* because of the shutdown does so while /livez says 503, and the server that
\* answers /livez, the last one, is not closed before the others have drained.
DrainAnnounced ==
  \A i \in DOMAIN Servers :
    inShutdown[Servers[i]] =>
      /\ shuttingDown
      /\ \A j \in 1..(i - 1) :
           LET s == Servers[j] IN
           grace > 0 => active[s] = 0 /\ streams[s] = 0

\* A signal, or the failure of a server, ends the process, whatever clients do.
Exits == signaled \/ (\E s \in Server : up[s] = "failing") ~> ~Running
=============================================================================
