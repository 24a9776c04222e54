----------------------------- MODULE OpampClient -----------------------------
(***************************************************************************)
(* The OpAMP server client on top of the wrapped collector: main's Start,  *)
(* wait and Stop, the callback that applies a remote configuration, reload *)
(* with its rollback file, and the ensureRunning watcher.  The three run   *)
(* concurrently.  The opamp-go client is external: it delivers one message *)
(* at a time to the callback, and its Stop waits for a running callback or *)
(* gives up after the 5 s of the context.                                  *)
(***************************************************************************)
EXTENDS WrappedCollector

CONSTANTS Remote,        \* the configurations the server may send
          Initial, Noop, \* the configuration at start, its no-op form
          Garbage,       \* what a failed write leaves in the file
          Invalid,       \* the configurations the service cannot start with
          EarlyMessage,  \* a message may arrive before Start's own reload
          MaxFaults      \* bound: disk operations and status reports that fail

ASSUME OpampAssumption ==
  /\ Caller = {"main", "callback", "watch"}
  /\ Garbage \in Invalid
  /\ EarlyMessage \in BOOLEAN /\ MaxFaults \in Nat

VARIABLES
  main,        \* where the main goroutine is
  callback,    \* where the OnMessage goroutine is
  watch,       \* where ensureRunning is
  msg,         \* the remote configuration being applied
  file, rollback,    \* the configuration file and its rollback copy
  loaded,      \* the configuration the service last started with
  reload,      \* reload's progress: the goroutine in it, and the step
  isReloading, nop,  \* the two atomic flags
  hash,        \* currentHash (the contents stand for their hash)
  received,    \* initialConfigReceived
  status,      \* the last RemoteConfigStatus sent: <<config, status>>
  effective,   \* the effective configuration last sent to the server
  errs,        \* c.err, capacity 1
  result,      \* what Stop returned
  faults       \* operations that have failed (history)

clientVars == <<main, callback, watch, msg, file, rollback, loaded, reload,
                isReloading, nop, hash, received, status, effective, errs, result,
                faults>>
vars == <<colVars, clientVars>>

Fault == faults < MaxFaults /\ faults' = faults + 1
Works == UNCHANGED faults

Config == Remote \cup {Initial, Noop, Garbage}
NoReload == [by |-> NoCaller, at |-> "none", new |-> Noop, old |-> Noop]
AtReload(c, l) == reload.by = c /\ reload.at = l

Init ==
  /\ ColInit
  /\ main = "start" /\ callback = "idle" /\ watch = "off"
  /\ msg = Noop /\ file = Initial /\ rollback = Garbage /\ loaded = Garbage
  /\ reload = NoReload
  /\ isReloading = FALSE /\ nop = FALSE /\ hash = Initial /\ received = FALSE
  /\ status = <<Initial, "none">> /\ effective = Initial /\ errs = <<>> /\ result = "none"
  /\ faults = 0

-----------------------------------------------------------------------------
(* reload(contents), called by main (no-op) and by the callback.           *)

\* Take reloadMux, raise isReloading, copy the file to the rollback path.  A
\* copy that fails returns at once.
ReloadLock(c, contents) ==
  /\ reload = NoReload
  /\ isReloading' = TRUE
  /\ \/ /\ Works
        /\ rollback' = file
        /\ reload' = [by |-> c, at |-> "write", new |-> contents, old |-> file]
     \/ /\ Fault
        /\ reload' = [by |-> c, at |-> "failed", new |-> contents, old |-> file]
        /\ UNCHANGED rollback
  /\ UNCHANGED <<colVars, msg, file, loaded, nop, hash, received, status, effective, errs,
                 result>>

\* Write the new contents and restart, or return if the write fails (which
\* may have left anything in the file).
ReloadWrite(c) ==
  /\ AtReload(c, "write")
  /\ \/ /\ Works
        /\ file' = reload.new
        /\ reload' = [reload EXCEPT !.at = "restart"]
        /\ Begin(c, "restart")
     \/ /\ Fault
        /\ file' \in {file, Garbage}
        /\ reload' = [reload EXCEPT !.at = "failed"]
        /\ UNCHANGED call
  /\ UNCHANGED <<mux, svc, runner, notifier, errChan, colErr, ret, main,
                 callback, watch, msg, rollback, loaded, isReloading, nop,
                 hash, received, status, effective, errs, result>>

RollbackFile_Skipped == file
RollbackFile == rollback

\* The restart came back: done, or copy the rollback file back (an error is
\* only logged) and restart once more.
ReloadRestarted(c) ==
  /\ AtReload(c, "restart") /\ Finished(c)
  /\ \/ /\ ret[c] = "nil" /\ Works
        /\ reload' = [reload EXCEPT !.at = "done"]
        /\ UNCHANGED <<file, call>>
     \/ /\ ret[c] = "err"
        /\ \/ Works /\ file' = RollbackFile
           \/ Fault /\ file' \in {file, Garbage}
        /\ reload' = [reload EXCEPT !.at = "again"]
        /\ Begin(c, "restart")
  /\ UNCHANGED <<mux, svc, runner, notifier, errChan, colErr, ret, main,
                 callback, watch, msg, rollback, loaded, isReloading, nop,
                 hash, received, status, effective, errs, result>>

ReloadRolledBack(c) ==
  /\ AtReload(c, "again") /\ Finished(c)
  /\ reload' = [reload EXCEPT !.at = "failed"]
  /\ UNCHANGED <<colVars, main, callback, watch, msg, file, rollback, loaded,
                 isReloading, nop, hash, received, status, effective, errs, result, faults>>

\* The deferred part; the caller's own step is conjoined with it.
ReloadReturn_KeepsFlag(c, l) ==
  AtReload(c, l) /\ reload' = NoReload /\ UNCHANGED isReloading
ReloadReturn(c, l) ==
  /\ AtReload(c, l)
  /\ reload' = NoReload
  /\ isReloading' = FALSE

ReloadStep(c) == ReloadWrite(c) \/ ReloadRestarted(c) \/ ReloadRolledBack(c)

-----------------------------------------------------------------------------
(* main: serverClient.Start, runInteractive's wait, serverClient.Stop.     *)

\* opampClient.Start: from here on messages may arrive.
MainConnect ==
  /\ main = "start"
  /\ main' = "connected"
  /\ UNCHANGED <<colVars, callback, watch, msg, file, rollback, loaded, reload,
                 isReloading, nop, hash, received, status, effective, errs, result, faults>>

MainSetNop ==
  /\ main = "connected"
  /\ nop' = TRUE
  /\ main' = "nop"
  /\ UNCHANGED <<colVars, callback, watch, msg, file, rollback, loaded, reload,
                 isReloading, hash, received, status, effective, errs, result, faults>>

MainReload ==
  /\ main = "nop"
  /\ ReloadLock("main", Noop)
  /\ main' = "reload"
  /\ UNCHANGED <<callback, watch>>

\* The no-op configuration runs: start ensureRunning; otherwise Start returns
\* the error and the process ends.
MainStarted ==
  /\ \/ ReloadReturn("main", "done") /\ main' = "wait" /\ watch' = "poll"
     \/ ReloadReturn("main", "failed") /\ main' = "exited" /\ UNCHANGED watch
  /\ UNCHANGED <<colVars, callback, msg, file, rollback, loaded, nop, hash,
                 received, status, effective, errs, result, faults>>

\* A signal or an error ends the wait; Stop closes `stopped' and calls Shutdown.
MainStop ==
  /\ main = "wait"
  /\ \/ UNCHANGED errs
     \/ errs # <<>> /\ errs' = Tail(errs)
  /\ main' = "stopping"
  /\ Begin("main", "shutdown")
  /\ UNCHANGED <<mux, svc, runner, notifier, errChan, colErr, ret, callback,
                 watch, msg, file, rollback, loaded, reload, isReloading, nop,
                 hash, received, status, effective, result, faults>>

\* Shutdown has returned; opampClient.Stop returns when the callback is idle
\* or the context's five seconds are over.
MainDisconnect ==
  /\ main = "stopping" /\ Finished("main")
  /\ main' = "receive"
  /\ UNCHANGED <<colVars, callback, watch, msg, file, rollback, loaded, reload,
                 isReloading, nop, hash, received, status, effective, errs, result, faults>>

\* collErr := <-coll.ErrorChan(); Stop returns and the process ends.
MainReceive ==
  /\ main = "receive" /\ errChan # <<>>
  /\ result' = Head(errChan) /\ errChan' = Tail(errChan)
  /\ main' = "exited"
  /\ UNCHANGED <<mux, svc, runner, notifier, colErr, call, ret, callback, watch,
                 msg, file, rollback, loaded, reload, isReloading, nop, hash,
                 received, status, effective, errs, faults>>

-----------------------------------------------------------------------------
(* The OnMessage callback.                                                 *)

Connected ==
  main \in {"wait", "stopping"} \cup
           (IF EarlyMessage THEN {"connected", "nop", "reload"} ELSE {})

\* Always reload for the first configuration received.
Unchanged_FirstToo(r) == hash = r
Unchanged(r) == received /\ hash = r

\* SetRemoteConfigStatus.
SetStatus(r, s) ==
  (Works /\ status' = <<r, s>>) \/ (Fault /\ UNCHANGED status)

\* Apply: nothing changed, or go on to reload.
Message(r) ==
  /\ callback = "idle" /\ Connected
  /\ \/ /\ Unchanged(r)
        /\ SetStatus(r, "APPLIED")
        /\ UNCHANGED <<msg, callback>>
     \/ /\ ~Unchanged(r)
        /\ msg' = r /\ callback' = "apply"
        /\ Works /\ UNCHANGED status
  /\ UNCHANGED <<colVars, main, watch, file, rollback, loaded, reload,
                 isReloading, nop, hash, received, effective, errs, result>>

CallbackReload ==
  /\ callback = "apply"
  /\ ReloadLock("callback", msg)
  /\ callback' = "reload"
  /\ UNCHANGED <<main, watch>>

\* reload succeeded, or failed: then FAILED is reported and nothing else
\* changes.
CallbackReloaded ==
  /\ \/ ReloadReturn("callback", "done") /\ callback' = "hash"
        /\ Works /\ UNCHANGED status
     \/ ReloadReturn("callback", "failed") /\ callback' = "idle"
        /\ SetStatus(msg, "FAILED")
  /\ UNCHANGED <<colVars, main, watch, msg, file, rollback, loaded, nop, hash,
                 received, effective, errs, result>>

\* GetEffectiveConfig: in no-op mode the configuration at start stands in for
\* the file.
EffectiveConfig(n) == IF n THEN Initial ELSE file

\* UpdateCurrentHash reads the file again.
CallbackHash ==
  /\ callback = "hash"
  /\ \/ Works /\ hash' = file /\ received' = TRUE /\ callback' = "APPLIED"
     \/ Fault /\ hash' = Garbage /\ UNCHANGED received /\ callback' = "FAILED"
  /\ UNCHANGED <<colVars, main, watch, msg, file, rollback, loaded, reload,
                 isReloading, nop, status, effective, errs, result>>

\* The status is reported and, if that worked, the no-op mode is over and the
\* effective configuration is sent.
CallbackReport ==
  /\ callback \in {"APPLIED", "FAILED"}
  /\ \/ /\ status' = <<msg, callback>> /\ nop' = FALSE
        /\ \/ Works /\ effective' = EffectiveConfig(FALSE)
           \/ Fault /\ UNCHANGED effective
     \/ Fault /\ UNCHANGED <<status, nop, effective>>
  /\ callback' = "idle"
  /\ UNCHANGED <<colVars, main, watch, msg, file, rollback, loaded, reload,
                 isReloading, hash, received, errs, result>>

-----------------------------------------------------------------------------
(* ensureRunning.                                                          *)

watchFrame == <<main, callback, msg, file, rollback, loaded, reload, isReloading,
                nop, hash, received, status, effective, result, faults>>

\* The poll interval is over: ask for the state ...
WatchPoll ==
  /\ watch = "poll"
  /\ watch' = "state" /\ Begin("watch", "state")
  /\ UNCHANGED <<mux, svc, runner, notifier, errChan, colErr, ret, errs,
                 watchFrame>>

\* ... and, if it was Closed, look at isReloading a moment later ...
WatchState ==
  /\ watch = "state" /\ Finished("watch")
  /\ watch' = IF ret["watch"] = "closed" THEN "check" ELSE "poll"
  /\ UNCHANGED <<colVars, errs, watchFrame>>

WatchCheck ==
  /\ watch = "check"
  /\ watch' = IF ~isReloading THEN "send" ELSE "poll"
  /\ UNCHANGED <<colVars, errs, watchFrame>>

\* ... and send the error, waiting for room in the channel.
WatchSend ==
  /\ watch = "send" /\ Len(errs) < 1
  /\ errs' = Append(errs, "stopped unexpectedly")
  /\ watch' = "poll"
  /\ UNCHANGED <<colVars, watchFrame>>

WatchStop ==
  /\ watch = "poll" /\ main \in {"stopping", "receive"}
  /\ watch' = "off"
  /\ UNCHANGED <<colVars, errs, watchFrame>>

-----------------------------------------------------------------------------
(* The service, with the configuration it loads.                           *)

ServiceLoads ==
  /\ ServiceStarts /\ file \notin Invalid
  /\ loaded' = file
  /\ UNCHANGED <<main, callback, watch, msg, file, rollback, reload, isReloading,
                 nop, hash, received, status, effective, errs, result, faults>>

OtherStep ==
  /\ \/ RunnerSend \/ NotifyRunning
     \/ \E e \in {"nil", "err"} : ServiceReturns(e)
     \/ \E c \in Caller : CallStep(c)
  /\ UNCHANGED clientVars

Exited == main = "exited" /\ UNCHANGED vars

MainStep ==
  \/ MainConnect \/ MainSetNop \/ MainReload \/ MainStarted \/ MainStop
  \/ MainDisconnect \/ MainReceive
CallbackStep ==
  CallbackReload \/ CallbackReloaded \/ CallbackHash \/ CallbackReport
WatchStep == WatchPoll \/ WatchState \/ WatchCheck \/ WatchSend \/ WatchStop

\* The end of main ends the process.
Next ==
  \/ Exited
  \/ /\ main # "exited"
     /\ \/ MainStep \/ CallbackStep \/ WatchStep
        \/ \E r \in Remote : Message(r)
        \/ \E c \in {"main", "callback"} : ReloadStep(c)
        \/ ServiceLoads \/ OtherStep

Spec == Init /\ [][Next]_vars

\* The Go scheduler runs every goroutine, its mutex is fair, a service that is
\* starting starts or fails, one that is stopping closes, and main takes an
\* error out of the channel.  Nothing forces a signal, a message or an
\* asynchronous error.
Fairness ==
  /\ WF_vars(MainConnect \/ MainSetNop \/ MainReload \/ MainStarted)
  /\ WF_vars(MainDisconnect \/ MainReceive)
  /\ WF_vars(errs # <<>> /\ MainStop)
  /\ WF_vars(CallbackStep) /\ WF_vars(WatchStep)
  /\ \A c \in {"main", "callback"} : WF_vars(ReloadStep(c))
  /\ \A c \in Caller : SF_vars(CallStep(c) /\ UNCHANGED clientVars)
  /\ WF_vars(ServiceLoads \/ ( /\ svc \in {"starting", "stopping"}
                               /\ \E e \in {"nil", "err"} : ServiceReturns(e)
                               /\ UNCHANGED clientVars ))
  /\ WF_vars((RunnerSend \/ NotifyRunning) /\ UNCHANGED clientVars)

FairSpec == Spec /\ Fairness

\* The server does not send configurations for ever.
QuietServerSpec == FairSpec /\ <>[][~ \E r \in Remote : Message(r)]_vars

-----------------------------------------------------------------------------
(* Properties.                                                             *)

\* Every variable stays in its type.
TypeOK ==
  /\ mux \in Caller \cup {NoCaller}
  /\ svc \in {"none", "starting", "running", "stopping", "closed"}
  /\ runner \in {"none", "run", "nil", "err"} /\ notifier \in {"none", "poll"}
  /\ \A ch \in {errChan, colErr, errs} : Len(ch) <= 1
  /\ {file, rollback, loaded, hash, msg, effective} \subseteq Config
  /\ reload.by \in Caller \cup {NoCaller}
  /\ {isReloading, nop, received} \subseteq BOOLEAN

\* Run, Shutdown and Restart from several goroutines never leave a service
\* behind: when wCol.svc is nil the goroutine around svc.Run has ended, so a
\* later Run cannot bring up a second service beside it.
NoOrphanService == svc = "none" => runner = "none"

\* The goroutine around svc.Run can always deliver its result, so the wait
\* group Shutdown waits on is always released.
ResultHasRoom ==
  runner \in {"nil", "err"} =>
    Len(colErr) < 1 \/ \E c \in Caller : At(c, "runWait")

\* reload undoes a failed restart: unless the disk itself has failed, when it is
\* about to return an error the file holds what it held when reload began.
FailedReloadRestoresFile ==
  faults = 0 /\ reload.at = "failed" => file = reload.old

Quiet == faults = 0 /\ callback = "idle" /\ reload = NoReload

\* The server is told the truth: with no disk or report failure, once the
\* callback is idle, the last configuration reported APPLIED, and the effective
\* configuration last sent, are the one a running service has loaded, whatever
\* failed reloads, rollbacks and service deaths came in between.
ReportedConfigRuns ==
  Quiet /\ svc = "running" =>
    /\ received => effective = loaded
    /\ status[2] = "APPLIED" => status[1] = loaded

\* currentHash is, as its comment says, the "hash of the current agent config":
\* between reloads, once a configuration has been received, it is the hash of
\* the file, so an update that differs from it is never taken for unchanged.
HashIsCurrent == Quiet /\ received => hash = file

\* Service.Shutdown "stops the (OpAMP connection and) collector".
StopStopsCollector ==
  main = "exited" /\ result # "none" => svc \notin {"starting", "running"}

\* The collector is owned: whatever Run, Restart, Shutdown and Stop do in each
\* other's gaps, no service is left behind or left running, and the goroutine
\* around it is never stuck with its result.
CollectorInv == TypeOK /\ NoOrphanService /\ ResultHasRoom /\ StopStopsCollector

\* File, hash, reports and running service agree once a reload is over, also
\* when it failed and was undone.
ConfigAgrees == FailedReloadRestoresFile /\ ReportedConfigRuns /\ HashIsCurrent

\* main's Stop returns: a signal or an error ends the process.
StopReturns == main = "stopping" ~> main = "exited"

\* Stop returns if no configuration is being applied from then on: neither the
\* mutex nor either channel of the collector holds it up.
StopReturnsUndisturbed ==
  [](main = "stopping" /\ [](callback = "idle") => <>(main = "exited"))

\* A service that dies on its own is noticed: the watcher makes main stop, or a
\* reload has started the service again.
DeathIsNoticed ==
  (main = "wait" /\ svc = "closed") ~> (main # "wait" \/ svc = "running")
=============================================================================
