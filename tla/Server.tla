------------------------------- MODULE Server -------------------------------
(***************************************************************************)
(* backend.Backend with the two goroutines of cmd/loopai-backend that use  *)
(* it: main, which is inside Run, and the signal goroutine, which cancels  *)
(* the context and calls Stop.                                             *)
(*                                                                         *)
(* A connection waits in the backlog of the listener until Accept returns  *)
(* it, and is counted by the WaitGroup only some steps later.  The         *)
(* WaitGroup is the set of the handlers it counts: Wait returns when it is *)
(* empty.  Of a handler only its end matters: it ends when its launcher    *)
(* has left; a cancelled context it notices only if its launcher sends     *)
(* another frame, because Receive is not interrupted.                      *)
(***************************************************************************)
CONSTANTS
  Conns,              \* connections that launchers may make
  AcceptErrors        \* kinds of Accept error this system may produce

\* An error of Accept on an open listener either is a timeout in the sense of
\* net.Error or is another transient failure (too many open files).
ASSUME AcceptErrorsAssumption == AcceptErrors \subseteq {"timeout", "transient"}

VARIABLES
  ctx,                \* the context is cancelled
  ln,                 \* the listener: none, open, closed
  stored,             \* b.ln holds the listener
  rpc,                \* Run
  cur,                \* the connections (at most one) Accept has returned
                      \* and Run has not yet counted
  why,                \* why Run returned
  spc,                \* the signal goroutine
  conn,               \* each connection
  gone,               \* launchers that have left, or reported their client's
                      \* exit, either of which ends their handler
  wg                  \* handlers counted by the WaitGroup

serverVars == <<ctx, ln, stored, rpc, cur, why, spc, conn, gone, wg>>

RunPCs == {"listen", "store", "check", "accept", "add", "sleep", "wait", "returned"}
SigPCs == {"idle", "cancel", "load", "close", "wait", "stopped"}
ConnStates == {"none", "backlog", "refused", "accepted", "handled", "ended"}

ServerInit ==
  /\ ctx = FALSE
  /\ ln = "none"
  /\ stored = FALSE
  /\ rpc = "listen"
  /\ cur = {}
  /\ why = "none"
  /\ spc = "idle"
  /\ conn = [c \in Conns |-> "none"]
  /\ gone = {}
  /\ wg = {}

-----------------------------------------------------------------------------
(* Backend.Run                                                             *)

RunListen ==
  /\ rpc = "listen"
  /\ \/ ln' = "open" /\ rpc' = "store" /\ why' = why
     \/ ln' = ln /\ rpc' = "returned" /\ why' = "listen"
  /\ UNCHANGED <<ctx, stored, cur, spc, conn, gone, wg>>

\* Mutant of RunStore: Stop never gets to know the listener.
RunStoreForgotten ==
  /\ rpc = "store"
  /\ rpc' = "check"
  /\ UNCHANGED <<stored, ctx, ln, cur, why, spc, conn, gone, wg>>

\* b.ln.Store(ln).
RunStore ==
  /\ rpc = "store"
  /\ stored' = TRUE
  /\ rpc' = "check"
  /\ UNCHANGED <<ctx, ln, cur, why, spc, conn, gone, wg>>

\* Mutant of RunCheck: the context is not looked at before Accept.
RunCheckSkipped ==
  /\ rpc = "check"
  /\ rpc' = "accept"
  /\ UNCHANGED <<ctx, ln, stored, cur, why, spc, conn, gone, wg>>

\* The select at the head of the loop.
RunCheck ==
  /\ rpc = "check"
  /\ rpc' = IF ctx THEN "wait" ELSE "accept"
  /\ UNCHANGED <<ctx, ln, stored, cur, why, spc, conn, gone, wg>>

\* Accept returns a connection from the backlog.
RunAccept(c) ==
  /\ rpc = "accept"
  /\ ln = "open"
  /\ conn[c] = "backlog"
  /\ conn' = [conn EXCEPT ![c] = "accepted"]
  /\ cur' = {c}
  /\ rpc' = "add"
  /\ UNCHANGED <<ctx, ln, stored, why, spc, gone, wg>>

\* Mutant of AfterAcceptError: Run does not wait for the handlers when the
\* context is cancelled.
AfterAcceptErrorNoWait(err) ==
  IF ctx THEN "returned" ELSE IF err = "timeout" THEN "sleep" ELSE "returned"

\* Accept returns an error: cancelled, timeout, or anything else, in which
\* case Run returns without waiting for its handlers.
AfterAcceptError(err) ==
  IF ctx THEN "wait" ELSE IF err = "timeout" THEN "sleep" ELSE "returned"

RunAcceptFails(err) ==
  /\ rpc = "accept"
  /\ (err = "closed" /\ ln = "closed") \/ (err \in AcceptErrors /\ ln = "open")
  /\ rpc' = AfterAcceptError(err)
  /\ why' = IF rpc' # "returned" THEN why ELSE IF ctx THEN "ctx" ELSE err
  /\ UNCHANGED <<ctx, ln, stored, cur, spc, conn, gone, wg>>

\* time.Sleep(acceptRetryDelay), then the next round.
RunSleep ==
  /\ rpc = "sleep"
  /\ rpc' = "check"
  /\ UNCHANGED <<ctx, ln, stored, cur, why, spc, conn, gone, wg>>

\* Mutant of RunAdd: the handler is started without being counted.
RunAddUncounted ==
  /\ rpc = "add"
  /\ conn' = [c \in Conns |-> IF c \in cur THEN "handled" ELSE conn[c]]
  /\ cur' = {}
  /\ rpc' = "check"
  /\ UNCHANGED <<wg, ctx, ln, stored, why, spc, gone>>

\* wg.Add(1) and the go statement.
RunAdd ==
  /\ rpc = "add"
  /\ wg' = wg \cup cur
  /\ conn' = [c \in Conns |-> IF c \in cur THEN "handled" ELSE conn[c]]
  /\ cur' = {}
  /\ rpc' = "check"
  /\ UNCHANGED <<ctx, ln, stored, why, spc, gone>>

\* b.wg.Wait() on cancellation, and the return of ctx.Err().
RunWait ==
  /\ rpc = "wait"
  /\ wg = {}
  /\ rpc' = "returned"
  /\ why' = "ctx"
  /\ UNCHANGED <<ctx, ln, stored, cur, spc, conn, gone, wg>>

\* What Run does of its own accord; an error of Accept on an open listener
\* may happen, but nothing makes it happen.
RunProgress ==
  \/ RunListen
  \/ RunStore
  \/ RunCheck
  \/ \E c \in Conns : RunAccept(c)
  \/ RunAcceptFails("closed")
  \/ RunSleep
  \/ RunAdd
  \/ RunWait

Run == RunProgress \/ \E err \in AcceptErrors : RunAcceptFails(err)

-----------------------------------------------------------------------------
(* The signal goroutine of main and Backend.Stop                           *)

SignalArrives ==
  /\ spc = "idle"
  /\ spc' = "cancel"
  /\ UNCHANGED <<ctx, ln, stored, rpc, cur, why, conn, gone, wg>>

SigCancel ==
  /\ spc = "cancel"
  /\ ctx' = TRUE
  /\ spc' = "load"
  /\ UNCHANGED <<ln, stored, rpc, cur, why, conn, gone, wg>>

\* b.ln.Load(): there may be no listener yet.
StopLoad ==
  /\ spc = "load"
  /\ spc' = IF stored THEN "close" ELSE "wait"
  /\ UNCHANGED <<ctx, ln, stored, rpc, cur, why, conn, gone, wg>>

\* ln.Close() wakes Accept and resets what is in the backlog.
StopClose ==
  /\ spc = "close"
  /\ ln' = "closed"
  /\ conn' = [c \in Conns |-> IF conn[c] = "backlog" THEN "refused" ELSE conn[c]]
  /\ spc' = "wait"
  /\ UNCHANGED <<ctx, stored, rpc, cur, why, gone, wg>>

\* b.wg.Wait().
StopWait ==
  /\ spc = "wait"
  /\ wg = {}
  /\ spc' = "stopped"
  /\ UNCHANGED <<ctx, ln, stored, rpc, cur, why, conn, gone, wg>>

Stop == SigCancel \/ StopLoad \/ StopClose \/ StopWait

-----------------------------------------------------------------------------
(* Launchers and handlers                                                  *)

LauncherDials(c) ==
  /\ conn[c] = "none"
  /\ conn' = [conn EXCEPT ![c] = IF ln = "open" THEN "backlog" ELSE "refused"]
  /\ UNCHANGED <<ctx, ln, stored, rpc, cur, why, spc, gone, wg>>

LauncherLeaves(c) ==
  /\ c \notin gone
  /\ conn[c] \in {"backlog", "accepted", "handled"}
  /\ gone' = gone \cup {c}
  /\ UNCHANGED <<ctx, ln, stored, rpc, cur, why, spc, conn, wg>>

\* The handler returns and calls wg.Done.
HandlerReturns(c) ==
  /\ conn[c] = "handled"
  /\ conn' = [conn EXCEPT ![c] = "ended"]
  /\ wg' = wg \ {c}
  /\ UNCHANGED <<ctx, ln, stored, rpc, cur, why, spc, gone>>

HandlerDisconnected(c) == c \in gone /\ HandlerReturns(c)

\* A frame arrives and the handler, going round, sees the cancellation.
HandlerCancelled(c) == ctx /\ c \notin gone /\ HandlerReturns(c)

\* After Run has returned main calls os.Exit and nothing runs any more.
ServerNext ==
  \/ /\ rpc # "returned"
     /\ \/ Run
        \/ SignalArrives
        \/ Stop
        \/ \E c \in Conns :
             \/ LauncherDials(c)
             \/ LauncherLeaves(c)
             \/ HandlerDisconnected(c)
             \/ HandlerCancelled(c)
  \/ rpc = "returned" /\ UNCHANGED serverVars

\* The goroutines of the process are scheduled, handlers whose launcher has
\* left included.  Launchers, signals and accept errors are free.
ServerFairness ==
  /\ WF_serverVars(rpc # "returned" /\ RunProgress)
  /\ WF_serverVars(rpc # "returned" /\ Stop)
  /\ \A c \in Conns : WF_serverVars(rpc # "returned" /\ HandlerDisconnected(c))

ServerSpec == ServerInit /\ [][ServerNext]_serverVars /\ ServerFairness

\* Launchers that do not stay for ever.
PoliteLaunchers == \A c \in Conns : WF_serverVars(rpc # "returned" /\ LauncherLeaves(c))

-----------------------------------------------------------------------------

\* Type invariant.
ServerTypeOK ==
  /\ ctx \in BOOLEAN /\ stored \in BOOLEAN
  /\ ln \in {"none", "open", "closed"}
  /\ rpc \in RunPCs /\ spc \in SigPCs
  /\ why \in {"none", "ctx", "listen", "closed"} \cup AcceptErrors
  /\ conn \in [Conns -> ConnStates]
  /\ gone \subseteq Conns /\ wg \subseteq Conns /\ cur \subseteq Conns

\* The inductive invariant behind the two properties that follow: what the
\* position of each goroutine says about the context, the listener and the
\* WaitGroup that the other one sees.
ServerInv ==
  /\ ServerTypeOK
  /\ spc \in {"load", "close", "wait", "stopped"} => ctx
  /\ rpc \in {"check", "accept", "add", "sleep", "wait"} => stored
  /\ stored => ln # "none"
  /\ rpc \in {"listen", "store"} => ~stored
  /\ rpc = "listen" => ln = "none"
  /\ rpc = "store" => ln = "open"
  /\ spc = "close" => stored
  /\ spc \in {"wait", "stopped"} /\ rpc \in {"accept", "add", "sleep"} => ln = "closed"
  /\ rpc # "add" => cur = {}
  /\ \A c \in Conns : conn[c] = "accepted" <=> c \in cur
  /\ \A c \in Conns : conn[c] = "handled" <=> c \in wg
  /\ why = "ctx" => rpc = "returned" /\ wg = {}

\* No lost wakeup: once Stop has looked for the listener, Run is not and will
\* not be blocked in Accept on a listener that nobody is going to close, even
\* when the signal comes before or in the middle of Listen and Store.
NoLostWakeup ==
  spc \in {"wait", "stopped"} /\ rpc \in {"accept", "add", "sleep"} => ln = "closed"

\* When Run returns because of the cancellation every accepted connection has
\* been handled to its end.
RunWaitsForHandlers ==
  rpc = "returned" /\ why = "ctx" =>
    \A c \in Conns : conn[c] \notin {"accepted", "handled"}

\* A signal ends the server if every launcher leaves sometime, which is what
\* PoliteLaunchers says: Run is woken, counts what it has accepted, and waits
\* for handlers that end.  Without that assumption it is false, because the
\* context has no deadline and Receive ignores the cancellation.
CancelEndsRun == ctx ~> rpc = "returned"

=============================================================================
