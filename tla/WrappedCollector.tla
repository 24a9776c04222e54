--------------------------- MODULE WrappedCollector ---------------------------
(***************************************************************************)
(* o11ycol.WrappedCollector: Run, Shutdown, Restart and GetState of the    *)
(* collector service, called from several goroutines under one mutex, and  *)
(* the two goroutines Run starts (the service itself, and the one that     *)
(* waits until it is Running).  The otelcol service is external: it starts *)
(* or fails, runs until Shutdown or an asynchronous error, and closes.     *)
(***************************************************************************)
EXTENDS Naturals, Sequences

CONSTANTS Caller,         \* the goroutines that call the collector
          NoCaller,       \* nobody holds the mutex
          CreateFails     \* newOtelColSettings or NewCollector may return an error

ASSUME CollectorAssumption == NoCaller \notin Caller /\ CreateFails \in BOOLEAN

VARIABLES
  mux,        \* the caller holding wCol.mux, or NoCaller
  svc,        \* wCol.svc: "none", or the state of the service it points to
  runner,     \* the goroutine around svc.Run: "none", "run", or
              \* the result it is about to send: "nil" or "err"
  notifier,   \* the goroutine that polls for Running: "none" or "poll"
  errChan,    \* wCol.errChan, capacity 1
  colErr,     \* colErrorChannel of the last Run, capacity 1
  call,       \* call[c]: the operation c is in and where it is
  ret         \* ret[c]: what its last operation returned

colVars == <<mux, svc, runner, notifier, errChan, colErr, call, ret>>

Idle == [op |-> "none", at |-> "idle"]
At(c, l) == call[c].at = l
Goto(c, l) == call' = [call EXCEPT ![c].at = l]

\* A caller begins an operation; the three operations that take the mutex.
Begin(c, op) ==
  call' = [call EXCEPT ![c] =
             [op |-> op, at |-> IF op = "run" THEN "runLock"
                                ELSE IF op = "state" THEN "stateLock"
                                ELSE "downLock"]]

Finished(c) == call[c] = Idle

ColInit ==
  /\ mux = NoCaller /\ svc = "none" /\ runner = "none" /\ notifier = "none"
  /\ errChan = <<>> /\ colErr = <<>>
  /\ call = [c \in Caller |-> Idle]
  /\ ret = [c \in Caller |-> "nil"]

-----------------------------------------------------------------------------
(* Run.                                                                    *)

\* Lock; refuse if there is a service already; otherwise create the service
\* (or fail to) and start the two goroutines.
RunLock(c) ==
  /\ At(c, "runLock") /\ mux = NoCaller
  /\ \/ /\ svc # "none" \/ CreateFails
        /\ ret' = [ret EXCEPT ![c] = "err"]
        /\ call' = [call EXCEPT ![c] = Idle]
        /\ UNCHANGED <<mux, svc, runner, notifier, errChan, colErr>>
     \/ /\ svc = "none"
        /\ mux' = c /\ svc' = "starting" /\ runner' = "run"
        /\ notifier' = "poll" /\ colErr' = <<>>
        /\ Goto(c, "runWait")
        /\ UNCHANGED <<errChan, ret>>

\* return <-colErrorChannel
RunReturn(c) ==
  /\ At(c, "runWait") /\ colErr # <<>>
  /\ ret' = [ret EXCEPT ![c] = Head(colErr)]
  /\ colErr' = Tail(colErr)
  /\ mux' = NoCaller
  /\ call' = [call EXCEPT ![c] = Idle]
  /\ UNCHANGED <<svc, runner, notifier, errChan>>

-----------------------------------------------------------------------------
(* The service goroutine and the poller.                                   *)

ServiceStarts ==
  /\ svc = "starting" /\ runner = "run"
  /\ svc' = "running"
  /\ UNCHANGED <<mux, runner, notifier, errChan, colErr, call, ret>>

\* reportError: a send that gives up when the channel is full.
ReportError_Blocks(e) == Len(errChan) < 1 /\ errChan' = Append(errChan, e)
ReportError_NoDefault(e) == errChan' = Append(errChan, e)
ReportError(e) ==
  errChan' = IF Len(errChan) < 1 THEN Append(errChan, e) ELSE errChan

\* svc.Run returns: startup failed, Shutdown was requested (and succeeded or
\* not), or an asynchronous error ended it.  The state is Closed.
ServiceReturns(e) ==
  /\ runner = "run"
  /\ svc = "starting" => e = "err"
  /\ svc' = "closed"
  /\ ReportError(e)
  /\ runner' = e
  /\ UNCHANGED <<mux, notifier, colErr, call, ret>>

\* colErrorChannel <- err, after which the wait group is done.
RunnerSend ==
  /\ runner \in {"nil", "err"} /\ Len(colErr) < 1
  /\ colErr' = Append(colErr, runner)
  /\ runner' = "none"
  /\ UNCHANGED <<mux, svc, notifier, errChan, call, ret>>

NotifyRunning_NoBreak ==
  /\ notifier = "poll" /\ svc = "running" /\ Len(colErr) < 1
  /\ colErr' = Append(colErr, "nil")
  /\ UNCHANGED <<mux, svc, runner, notifier, errChan, call, ret>>
NotifyRunning ==
  /\ notifier = "poll" /\ svc = "running" /\ Len(colErr) < 1
  /\ colErr' = Append(colErr, "nil")
  /\ notifier' = "none"
  /\ UNCHANGED <<mux, svc, runner, errChan, call, ret>>

-----------------------------------------------------------------------------
(* Shutdown, Restart and GetState.                                         *)

\* Lock; ask the service to shut down, or go on to tell errChan that there is
\* none.  A service that is already Closed ignores the request.
ShutdownLock(c) ==
  /\ At(c, "downLock") /\ mux = NoCaller
  /\ mux' = c
  /\ \/ /\ svc # "none"
        /\ svc' = IF svc = "closed" THEN svc ELSE "stopping"
        /\ Goto(c, "downWait")
     \/ svc = "none" /\ Goto(c, "downSend") /\ UNCHANGED svc
  /\ UNCHANGED <<runner, notifier, errChan, colErr, ret>>

\* Restart goes on to Run; the mutex is free in between.
AfterShutdown(c) ==
  call' = [call EXCEPT ![c] = IF call[c].op = "restart"
                              THEN [op |-> "restart", at |-> "runLock"]
                              ELSE Idle]

\* wg.Wait(); svc = nil
WaitsForRunner_Not == TRUE
WaitsForRunner == runner = "none"
ShutdownWait(c) ==
  /\ At(c, "downWait") /\ WaitsForRunner
  /\ svc' = "none" /\ mux' = NoCaller
  /\ AfterShutdown(c)
  /\ UNCHANGED <<runner, notifier, errChan, colErr, ret>>

\* errChan <- nil: blocks, holding the mutex, while the channel is full.
ShutdownSend_GivesUp(c) ==
  /\ At(c, "downSend")
  /\ errChan' = IF Len(errChan) < 1 THEN Append(errChan, "nil") ELSE errChan
  /\ mux' = NoCaller
  /\ AfterShutdown(c)
  /\ UNCHANGED <<svc, runner, notifier, colErr, ret>>
ShutdownSend(c) ==
  /\ At(c, "downSend") /\ Len(errChan) < 1
  /\ errChan' = Append(errChan, "nil")
  /\ mux' = NoCaller
  /\ AfterShutdown(c)
  /\ UNCHANGED <<svc, runner, notifier, colErr, ret>>

\* GetState: Closed is the state its caller looks for.
GetState(c) ==
  /\ At(c, "stateLock") /\ mux = NoCaller
  /\ ret' = [ret EXCEPT ![c] = svc]
  /\ call' = [call EXCEPT ![c] = Idle]
  /\ UNCHANGED <<mux, svc, runner, notifier, errChan, colErr>>

CallStep(c) ==
  RunLock(c) \/ RunReturn(c) \/ ShutdownLock(c) \/ ShutdownWait(c)
    \/ ShutdownSend(c) \/ GetState(c)
=============================================================================
