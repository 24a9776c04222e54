-------------------------- MODULE OpampClient_proofs --------------------------
(***************************************************************************)
(* The collector under Run, Restart, Shutdown and GetState called from     *)
(* three goroutines, and the agreement of file, hash, reports and service, *)
(* for any set of configurations and any number of failures.               *)
(*                                                                         *)
(* The inductive invariant is built in two parts: CollectorIInv says which *)
(* goroutine is where, and what that means for the service and its two     *)
(* channels; FileIInv says what reload has done to the file by then.       *)
(***************************************************************************)
EXTENDS OpampClient, TLAPS

\* A leaf goes to the SMT solver unless it cites another prover.
USE SMTT(30)

Chan == {s \in Seq({"nil", "err"}) : Len(s) <= 1}
ReloadStage == {"write", "restart", "again", "done", "failed"}
Holding == {"runWait", "downWait", "downSend"}

\* Who is where.
ControlOK ==
  /\ main \in {"start", "connected", "nop", "reload", "wait", "stopping", "receive", "exited"}
  /\ callback \in {"idle", "apply", "reload", "hash", "APPLIED", "FAILED"}
  /\ reload = NoReload \/ reload \in [by : {"main", "callback"}, at : ReloadStage,
                                      new : Config, old : Config]
  /\ (main = "reload" <=> reload.by = "main")
  /\ (callback = "reload" <=> reload.by = "callback")

Restarts(c) ==
  /\ call[c] \in [op : {"restart"}, at : Holding \cup {"downLock", "runLock"}]
  /\ reload.by = c /\ reload.at \in {"restart", "again"}
ShutsDown(c) ==
  /\ call[c] \in [op : {"shutdown"}, at : {"downLock", "downWait", "downSend"}]
  /\ c = "main" /\ main = "stopping"
AsksState(c) ==
  call[c] = [op |-> "state", at |-> "stateLock"] /\ c = "watch"

\* Which operation a caller is in, and who holds the mutex.
CallsOK ==
  /\ call = [c \in Caller |-> call[c]]
  /\ \A c \in Caller : call[c] = Idle \/ Restarts(c) \/ ShutsDown(c) \/ AsksState(c)
  /\ mux \in Caller \cup {NoCaller}
  /\ \A c \in Caller : call[c].at \in Holding <=> mux = c

Waiting == \E c \in Caller : At(c, "runWait")

\* The service, the goroutine around it and the channel of its result.
ServiceOK ==
  /\ svc \in {"none", "starting", "running", "stopping", "closed"}
  /\ runner \in {"none", "run", "nil", "err"} /\ notifier \in {"none", "poll"} /\ colErr \in Chan
  /\ (runner = "run" <=> svc \in {"starting", "running", "stopping"})
  /\ (svc = "none" => runner = "none")
  /\ \A c \in Caller : /\ At(c, "runWait") => svc \in {"starting", "running", "closed"}
                       /\ At(c, "downWait") => svc \in {"stopping", "closed"}
                       /\ At(c, "downSend") \/ At(c, "runLock") => svc = "none"
  /\ (svc = "starting" => Waiting /\ colErr = << >>)
  /\ (svc = "stopping" => \E c \in Caller : At(c, "downWait"))
  /\ (runner # "none" /\ ~Waiting => colErr = << >> /\ notifier = "none")
  /\ (runner # "none" /\ colErr # << >> => notifier = "none")

MainIsDown == \/ main = "receive" \/ (main = "stopping" /\ Finished("main"))
              \/ (main = "exited" /\ result # "none")

\* Only Stop takes from errChan, so that it is full from the first Shutdown on, and main's
\* own Shutdown can end only by stopping a service, after which nobody starts another.
StopOK ==
  /\ errChan \in Chan
  /\ main # "exited" =>
       /\ result = "none"
       /\ (svc # "none" \/ main \in {"wait", "stopping", "receive"} \/ reload.at = "done") => errChan # << >>
       /\ reload.at \in {"restart", "again"} /\ call[reload.by].at \in {"idle", "runLock", "runWait"}
            => errChan # << >>
  /\ MainIsDown => svc = "none" /\ \A c \in Caller : ~At(c, "runLock")

ConfigsOK ==
  /\ file \in Config /\ rollback \in Config /\ loaded \in Config
  /\ hash \in Config /\ msg \in Config /\ effective \in Config
FlagsOK == isReloading \in BOOLEAN /\ nop \in BOOLEAN /\ received \in BOOLEAN
ErrsOK == errs \in Seq({"stopped unexpectedly"}) /\ Len(errs) <= 1
ValuesOK == ConfigsOK /\ FlagsOK /\ ErrsOK /\ faults \in Nat

CollectorIInv == ControlOK /\ CallsOK /\ ServiceOK /\ StopOK /\ ValuesOK

\* reload, while the disk has not failed.
ReloadOK ==
  /\ reload.at \in {"write", "again", "failed"} => file = reload.old
  /\ reload.at \in {"restart", "done"} => file = reload.new
  /\ reload.at \in {"write", "restart"} => rollback = reload.old
  /\ reload.by = "callback" => reload.new = msg
  /\ svc = "running" /\ (reload.at \in {"restart", "again"} => call[reload.by].at \in {"runWait", "idle"})
       => loaded = file

\* What the callback compares with and has reported is what the file held before the
\* reload that is going on, if one is.
Settled == IF callback = "reload" THEN reload.old ELSE file

ReportsOK ==
  /\ main \in {"start", "connected", "nop", "reload"} =>
       ~received /\ status[2] # "APPLIED" /\ callback = "idle"
  /\ callback \in {"hash", "APPLIED"} => file = msg
  /\ callback # "FAILED" /\ (callback = "APPLIED" => hash = file)
  /\ callback \notin {"hash", "APPLIED"} =>
       /\ received => hash = Settled /\ effective = Settled
       /\ status[2] = "APPLIED" => status[1] = Settled

FileIInv == faults = 0 => ReloadOK
ReportIInv == faults = 0 => ReportsOK

-----------------------------------------------------------------------------
(* Frames *)

LEMMA ServiceSame ==
  ServiceOK /\ UNCHANGED colVars => ServiceOK'
BY Zenon DEF ServiceOK, colVars, At, Waiting

\* A step of the client that leaves the collector and reload alone.
LEMMA ClientStep ==
  /\ CollectorIInv /\ UNCHANGED <<colVars, reload, result>> /\ ControlOK' /\ ValuesOK'
  /\ \/ main' = main
     \/ main \in {"start", "connected"} /\ main' \in {"connected", "nop"}
     \/ main = "stopping" /\ Finished("main") /\ main' = "receive"
  => CollectorIInv'
<1> SUFFICES ASSUME CollectorIInv, UNCHANGED <<colVars, reload, result>>, ControlOK', ValuesOK',
                    \/ main' = main
                    \/ main \in {"start", "connected"} /\ main' \in {"connected", "nop"}
                    \/ main = "stopping" /\ Finished("main") /\ main' = "receive"
             PROVE  CollectorIInv'
  BY Zenon
<1>0. UNCHANGED <<mux, svc, runner, notifier, errChan, colErr, call, ret>>
  BY Zenon DEF colVars
<1>1. ServiceOK'
  BY ServiceSame, Zenon DEF CollectorIInv
<1>2. CallsOK'
  <2>1. \A c \in Caller : ShutsDown(c) => ShutsDown(c)' \/ call[c] = Idle
    BY <1>0, Zenon DEF ShutsDown, Finished, Idle
  <2>2. \A c \in Caller : (Restarts(c) => Restarts(c)') /\ (AsksState(c) => AsksState(c)')
    BY <1>0, Zenon DEF Restarts, AsksState
  <2> QED BY <1>0, <2>1, <2>2, Zenon DEF CollectorIInv, CallsOK
<1>3. StopOK'
  <2>1. MainIsDown' => MainIsDown
    BY <1>0, Zenon DEF MainIsDown, Finished
  <2> QED BY <1>0, <2>1, Zenon DEF CollectorIInv, StopOK, At, MainIsDown
<1> QED BY <1>1, <1>2, <1>3, Zenon DEF CollectorIInv

\* A step of reload, its begin or its end, in which the collector is not called.
LEMMA ReloadMoves ==
  /\ CollectorIInv /\ UNCHANGED <<colVars, result>> /\ ControlOK' /\ ValuesOK'
  /\ main # "exited"
  /\ \A c \in Caller : ~Restarts(c)
  /\ reload'.at \notin {"restart", "again"}
  /\ reload'.at = "done" => errChan # << >>
  /\ \/ main' = main
     \/ main = "nop" /\ main' = "reload"
     \/ main = "reload" /\ main' = "exited"
     \/ main = "reload" /\ main' = "wait" /\ errChan # << >>
  => CollectorIInv'
<1> SUFFICES ASSUME CollectorIInv, UNCHANGED <<colVars, result>>, ControlOK', ValuesOK', main # "exited",
                    \A c \in Caller : ~Restarts(c),
                    reload'.at \notin {"restart", "again"}, reload'.at = "done" => errChan # << >>,
                    \/ main' = main
                    \/ main = "nop" /\ main' = "reload"
                    \/ main = "reload" /\ main' = "exited"
                    \/ main = "reload" /\ main' = "wait" /\ errChan # << >>
             PROVE  CollectorIInv'
  BY Zenon
<1>0. UNCHANGED <<mux, svc, runner, notifier, errChan, colErr, call, ret>>
  BY Zenon DEF colVars
<1>1. ServiceOK'
  BY ServiceSame, Zenon DEF CollectorIInv
<1>2. CallsOK'
  <2>1. \A c \in Caller : ShutsDown(c) => ShutsDown(c)'
    BY <1>0, Zenon DEF ShutsDown
  <2>2. \A c \in Caller : AsksState(c) => AsksState(c)'
    BY <1>0, Zenon DEF AsksState
  <2> QED BY <1>0, <2>1, <2>2, Zenon DEF CollectorIInv, CallsOK
<1>3. StopOK'
  <2>1. MainIsDown' => MainIsDown
    BY <1>0, Zenon DEF MainIsDown, Finished, CollectorIInv, StopOK
  <2> QED BY <1>0, <2>1, Zenon DEF CollectorIInv, StopOK, At
<1> QED BY <1>1, <1>2, <1>3, Zenon DEF CollectorIInv

-----------------------------------------------------------------------------
(* The steps of the client that do not call the collector *)

LEMMA Parties == /\ Caller = {"main", "callback", "watch"} /\ NoCaller \notin Caller
                 /\ NoReload.by = NoCaller /\ NoReload.at = "none" /\ Noop \in Config /\ Garbage \in Config
BY CollectorAssumption, OpampAssumption, Zenon DEF NoReload, Config

\* The types are kept by what the steps assign.
LEMMA ValuesStep ==
  /\ ValuesOK /\ file' \in Config /\ rollback' \in Config /\ loaded' \in Config
  /\ hash' \in Config /\ msg' \in Config /\ effective' \in Config
  /\ isReloading' = isReloading \/ isReloading' \in BOOLEAN
  /\ nop' = nop \/ nop' \in BOOLEAN
  /\ received' = received \/ received' \in BOOLEAN
  /\ faults' = faults \/ faults' = faults + 1
  /\ errs' = errs \/ ErrsOK'
  => ValuesOK'
<1> SUFFICES ASSUME ValuesOK,
                    file' \in Config, rollback' \in Config, loaded' \in Config,
                    hash' \in Config, msg' \in Config, effective' \in Config,
                    isReloading' = isReloading \/ isReloading' \in BOOLEAN,
                    nop' = nop \/ nop' \in BOOLEAN, received' = received \/ received' \in BOOLEAN,
                    faults' = faults \/ faults' = faults + 1,
                    errs' = errs \/ ErrsOK'
             PROVE  ValuesOK'
  BY Zenon
<1>1. ConfigsOK'
  BY Zenon DEF ConfigsOK
<1>2. FlagsOK'
  BY Zenon DEF ValuesOK, FlagsOK
<1>3. ErrsOK'
  BY Zenon DEF ValuesOK, ErrsOK
<1>4. faults' \in Nat
  BY DEF ValuesOK
<1> QED BY <1>1, <1>2, <1>3, <1>4, Zenon DEF ValuesOK

LEMMA MainConnectStep ==
  CollectorIInv /\ MainConnect => CollectorIInv'
<1> SUFFICES ASSUME CollectorIInv, MainConnect PROVE CollectorIInv'
  BY Zenon
<1>1. ControlOK'
  BY Zenon DEF MainConnect, CollectorIInv, ControlOK
<1>2. ValuesOK'
  BY ValuesStep, Zenon DEF MainConnect, CollectorIInv, ValuesOK, ConfigsOK
<1> QED BY <1>1, <1>2, ClientStep, Zenon DEF MainConnect

LEMMA MainSetNopStep ==
  CollectorIInv /\ MainSetNop => CollectorIInv'
<1> SUFFICES ASSUME CollectorIInv, MainSetNop PROVE CollectorIInv'
  BY Zenon
<1>1. ControlOK'
  BY Zenon DEF MainSetNop, CollectorIInv, ControlOK
<1>2. ValuesOK'
  BY ValuesStep, Zenon DEF MainSetNop, CollectorIInv, ValuesOK, ConfigsOK
<1> QED BY <1>1, <1>2, ClientStep, Zenon DEF MainSetNop

LEMMA MainDisconnectStep ==
  CollectorIInv /\ MainDisconnect => CollectorIInv'
<1> SUFFICES ASSUME CollectorIInv, MainDisconnect PROVE CollectorIInv'
  BY Zenon
<1>1. ControlOK'
  BY Zenon DEF MainDisconnect, CollectorIInv, ControlOK
<1>2. ValuesOK'
  BY ValuesStep, Zenon DEF MainDisconnect, CollectorIInv, ValuesOK, ConfigsOK
<1> QED BY <1>1, <1>2, ClientStep, Zenon DEF MainDisconnect

LEMMA MessageStep ==
  \A r \in Remote :
    CollectorIInv /\ Message(r) => CollectorIInv'
<1> SUFFICES ASSUME CollectorIInv, NEW r \in Remote, Message(r) PROVE CollectorIInv'
  BY Zenon
<1>1. ControlOK'
  BY Zenon DEF Message, CollectorIInv, ControlOK
<1>2. ValuesOK'
  BY ValuesStep DEF Message, CollectorIInv, ValuesOK, ConfigsOK, SetStatus, Works, Fault, Config
<1> QED BY <1>1, <1>2, ClientStep, Zenon DEF Message

LEMMA CallbackHashStep ==
  CollectorIInv /\ CallbackHash => CollectorIInv'
<1> SUFFICES ASSUME CollectorIInv, CallbackHash PROVE CollectorIInv'
  BY Zenon
<1>1. ControlOK'
  BY Zenon DEF CallbackHash, CollectorIInv, ControlOK
<1>2. ValuesOK'
  BY Parties, ValuesStep, Zenon DEF CallbackHash, CollectorIInv, ValuesOK, ConfigsOK, Works, Fault
<1> QED BY <1>1, <1>2, ClientStep, Zenon DEF CallbackHash

LEMMA CallbackReportStep ==
  CollectorIInv /\ CallbackReport => CollectorIInv'
<1> SUFFICES ASSUME CollectorIInv, CallbackReport PROVE CollectorIInv'
  BY Zenon
<1>1. ControlOK'
  BY Zenon DEF CallbackReport, CollectorIInv, ControlOK
<1>2. ValuesOK'
  BY ValuesStep, Zenon DEF CallbackReport, CollectorIInv, ValuesOK, ConfigsOK, Works, Fault, EffectiveConfig
<1> QED BY <1>1, <1>2, ClientStep, Zenon DEF CallbackReport

LEMMA WatchQuietStep ==
  CollectorIInv /\ (WatchState \/ WatchCheck \/ WatchSend \/ WatchStop) => CollectorIInv'
<1> SUFFICES ASSUME CollectorIInv, WatchState \/ WatchCheck \/ WatchSend \/ WatchStop
             PROVE  CollectorIInv'
  BY Zenon
<1>0. UNCHANGED <<colVars, watchFrame>>
  BY Zenon DEF WatchState, WatchCheck, WatchSend, WatchStop
<1>1. ControlOK'
  BY <1>0, Zenon DEF CollectorIInv, ControlOK, watchFrame
<1>2. errs' = errs \/ (Len(errs) < 1 /\ errs' = Append(errs, "stopped unexpectedly"))
  BY Zenon DEF WatchState, WatchCheck, WatchSend, WatchStop
<1>3. ValuesOK'
  <2>1. ErrsOK'
    <3>1. \A S : \A q \in Seq(S) : \A e \in S : Len(q) < 1 => Append(q, e) \in Seq(S) /\ Len(Append(q, e)) <= 1
      OBVIOUS
    <3> QED BY <1>2, <3>1, Zenon DEF CollectorIInv, ValuesOK, ErrsOK
  <2> QED BY <1>0, <2>1, ValuesStep, Zenon DEF CollectorIInv, ValuesOK, ConfigsOK, watchFrame
<1> QED BY <1>0, <1>1, <1>3, ClientStep, Zenon DEF watchFrame

\* Nobody restarts the collector while reload is not at one of its restarts.
LEMMA NobodyRestarts ==
  CollectorIInv /\ (reload.at \notin {"restart", "again"} \/ Finished(reload.by))
    => \A c \in Caller : ~Restarts(c)
BY DEF Restarts, Finished, Idle

LEMMA ReloadLockStep ==
  \A c \in {"main", "callback"}, contents \in Config :
    /\ CollectorIInv /\ ReloadLock(c, contents) /\ UNCHANGED watch /\ main # "exited"
    /\ \/ c = "main" /\ main = "nop" /\ main' = "reload" /\ callback' = callback
       \/ c = "callback" /\ callback = "apply" /\ callback' = "reload" /\ main' = main
    => CollectorIInv'
<1> SUFFICES ASSUME CollectorIInv, NEW c \in {"main", "callback"}, NEW contents \in Config, ReloadLock(c, contents),
                    UNCHANGED watch, main # "exited",
                    \/ c = "main" /\ main = "nop" /\ main' = "reload" /\ callback' = callback
                    \/ c = "callback" /\ callback = "apply" /\ callback' = "reload" /\ main' = main
             PROVE  CollectorIInv'
  BY Zenon
<1>1. /\ reload = NoReload /\ UNCHANGED <<colVars, msg, file, loaded, nop, hash, received, effective, errs, result>>
      /\ rollback' \in {file, rollback} /\ isReloading' = TRUE /\ faults' \in {faults, faults + 1}
  BY Zenon DEF ReloadLock, Works, Fault
<1>2. /\ file \in Config
      /\ \E l \in {"write", "failed"} : reload' = [by |-> c, at |-> l, new |-> contents, old |-> file]
  BY Zenon DEF ReloadLock, CollectorIInv, ValuesOK, ConfigsOK
<1>3. /\ reload' \in [by : {"main", "callback"}, at : ReloadStage, new : Config, old : Config]
      /\ reload'.by = c /\ reload'.at \in {"write", "failed"}
  BY <1>2 DEF ReloadStage
<1>4. ControlOK'
  BY <1>1, <1>3, Parties, Zenon DEF CollectorIInv, ControlOK
<1>5. ValuesOK'
  BY <1>1, ValuesStep, Zenon DEF CollectorIInv, ValuesOK, ConfigsOK
<1>6. \A d \in Caller : ~Restarts(d)
  BY <1>1, Parties, NobodyRestarts, Zenon
<1> QED BY <1>1, <1>3, <1>4, <1>5, <1>6, ReloadMoves, Zenon

LEMMA MainReloadStep ==
  CollectorIInv /\ MainReload => CollectorIInv'
BY ReloadLockStep, Parties, Zenon DEF MainReload

LEMMA CallbackReloadStep ==
  CollectorIInv /\ CallbackReload /\ main # "exited" => CollectorIInv'
<1> SUFFICES ASSUME CollectorIInv, CallbackReload, main # "exited" PROVE CollectorIInv'
  BY Zenon
<1>1. msg \in Config
  BY Zenon DEF CollectorIInv, ValuesOK, ConfigsOK
<1> QED BY <1>1, ReloadLockStep, Zenon DEF CallbackReload

LEMMA MainStartedStep ==
  CollectorIInv /\ MainStarted /\ main # "exited" => CollectorIInv'
<1> SUFFICES ASSUME CollectorIInv, MainStarted, main # "exited" PROVE CollectorIInv'
  BY Zenon
<1>1. /\ reload.by = "main" /\ reload' = NoReload /\ isReloading' = FALSE
      /\ UNCHANGED <<colVars, callback, msg, file, rollback, loaded, nop, hash, received, effective, errs,
                     result, faults>>
      /\ \/ reload.at = "done" /\ main' = "wait"
         \/ reload.at = "failed" /\ main' = "exited"
  BY Zenon DEF MainStarted, ReloadReturn, AtReload
<1>2. main = "reload" /\ (reload.at = "done" => errChan # << >>)
  BY <1>1, Zenon DEF CollectorIInv, ControlOK, StopOK
<1>3. ControlOK'
  BY <1>1, <1>2, Parties, Zenon DEF CollectorIInv, ControlOK
<1>4. ValuesOK'
  BY <1>1, ValuesStep, Zenon DEF CollectorIInv, ValuesOK, ConfigsOK
<1>5. \A d \in Caller : ~Restarts(d)
  BY <1>1, NobodyRestarts, Zenon
<1> QED BY <1>1, <1>2, <1>3, <1>4, <1>5, Parties, ReloadMoves, Zenon

LEMMA CallbackReloadedStep ==
  CollectorIInv /\ CallbackReloaded /\ main # "exited" => CollectorIInv'
<1> SUFFICES ASSUME CollectorIInv, CallbackReloaded, main # "exited" PROVE CollectorIInv'
  BY Zenon
<1>1. /\ reload.by = "callback" /\ reload' = NoReload /\ isReloading' = FALSE /\ callback' \in {"hash", "idle"}
      /\ UNCHANGED <<colVars, main, msg, file, rollback, loaded, nop, hash, received, effective, errs, result>>
      /\ faults' \in {faults, faults + 1} /\ reload.at \in {"done", "failed"}
  BY Zenon DEF CallbackReloaded, ReloadReturn, AtReload, SetStatus, Works, Fault
<1>2. callback = "reload" /\ main # "reload"
  BY <1>1, Zenon DEF CollectorIInv, ControlOK
<1>3. ControlOK'
  BY <1>1, <1>2, Parties, Zenon DEF CollectorIInv, ControlOK
<1>4. ValuesOK'
  BY <1>1, ValuesStep, Zenon DEF CollectorIInv, ValuesOK, ConfigsOK
<1>5. \A d \in Caller : ~Restarts(d)
  BY <1>1, NobodyRestarts, Zenon
<1> QED BY <1>1, <1>2, <1>3, <1>4, <1>5, Parties, ReloadMoves, Zenon

-----------------------------------------------------------------------------
(* The steps that begin an operation of the collector *)

\* c begins an operation; it has neither the mutex nor a Run before it.
LEMMA Begins ==
  \A c \in Caller, op \in {"restart", "shutdown", "state"} :
    /\ CollectorIInv /\ call[c].at \in {"idle", "stateLock"} /\ Begin(c, op)
    /\ UNCHANGED <<mux, svc, runner, notifier, errChan, colErr, result>> /\ main # "exited"
    /\ ControlOK' /\ ValuesOK'
    /\ \A d \in Caller : d # c => /\ Restarts(d) => reload'.by = reload.by /\ reload'.at = reload.at
                                  /\ ShutsDown(d) => main' = main
    /\ \/ op = "restart" /\ reload'.by = c /\ reload'.at \in {"restart", "again"} /\ main' = main
       \/ op = "shutdown" /\ c = "main" /\ main = "wait" /\ main' = "stopping" /\ reload' = reload
       \/ op = "state" /\ c = "watch" /\ UNCHANGED <<main, reload>>
    => CollectorIInv'
<1> SUFFICES ASSUME CollectorIInv, NEW c \in Caller, call[c].at \in {"idle", "stateLock"}, NEW op \in {"restart", "shutdown", "state"}, Begin(c, op),
                    UNCHANGED <<mux, svc, runner, notifier, errChan, colErr, result>>, main # "exited",
                    ControlOK', ValuesOK',
                    \A d \in Caller : d # c => /\ Restarts(d) => reload'.by = reload.by /\ reload'.at = reload.at
                                               /\ ShutsDown(d) => main' = main,
                    \/ op = "restart" /\ reload'.by = c /\ reload'.at \in {"restart", "again"} /\ main' = main
                    \/ op = "shutdown" /\ c = "main" /\ main = "wait" /\ main' = "stopping" /\ reload' = reload
                    \/ op = "state" /\ c = "watch" /\ UNCHANGED <<main, reload>>
             PROVE  CollectorIInv'
  BY Zenon
<1>1. /\ call' = [d \in Caller |-> call'[d]] /\ \A d \in Caller : d # c => call'[d] = call[d]
      /\ call'[c] = [op |-> op, at |-> IF op = "state" THEN "stateLock" ELSE "downLock"]
  BY Zenon DEF Begin, CollectorIInv, CallsOK
<1>2. call'[c].at = (IF op = "state" THEN "stateLock" ELSE "downLock") /\ call'[c].op = op
  BY <1>1
<1>3. CallsOK'
  <2>1. \A d \in Caller : d # c /\ Restarts(d) => Restarts(d)'
    BY <1>1, Zenon DEF Restarts
  <2>2. \A d \in Caller : d # c /\ ShutsDown(d) => ShutsDown(d)'
    BY <1>1, Zenon DEF ShutsDown
  <2>3. \A d \in Caller : d # c /\ AsksState(d) => AsksState(d)'
    BY <1>1, Zenon DEF AsksState
  <2>4. Restarts(c)' \/ ShutsDown(c)' \/ AsksState(c)'
    BY <1>1 DEF Restarts, ShutsDown, AsksState
  <2>5. \A d \in Caller : call'[d].at \in Holding <=> mux' = d
    BY <1>1, <1>2, Zenon DEF CollectorIInv, CallsOK, Holding
  <2> QED BY <1>1, <2>1, <2>2, <2>3, <2>4, <2>5, Zenon DEF CollectorIInv, CallsOK
<1>4. ServiceOK'
  <2>1. \A d \in Caller : \A l \in Holding \cup {"runLock"} : At(d, l)' <=> At(d, l)
    BY <1>1, <1>2, Zenon DEF At, Holding
  <2>2. Waiting' <=> Waiting
    BY <2>1, Zenon DEF Waiting, Holding
  <2> QED BY <2>1, <2>2, Zenon DEF CollectorIInv, ServiceOK, Holding
<1>5. StopOK'
  <2>1. MainIsDown' => MainIsDown
    <3>1. "main" \in Caller /\ (Finished("main")' => c # "main" /\ Finished("main"))
      BY <1>1, <1>2, Parties DEF Finished, Idle
    <3> QED BY <3>1, Zenon DEF MainIsDown
  <2>2. \A d \in Caller : At(d, "runLock")' <=> At(d, "runLock")
    BY <1>1, <1>2, Zenon DEF At
  <2>3. reload'.at \in {"restart", "again"} /\ call'[reload'.by].at \in {"idle", "runLock", "runWait"} => errChan # << >>
    <3>1. CASE op = "restart"
      BY <1>2, <3>1, Zenon
    <3>2. CASE op # "restart" /\ reload.by \in Caller
      BY <1>1, <1>2, <3>2, Zenon DEF CollectorIInv, StopOK
    <3>3. CASE op # "restart" /\ reload.by \notin Caller
      BY <3>3, Parties, Zenon DEF CollectorIInv, ControlOK
    <3> QED BY <3>1, <3>2, <3>3, Zenon
  <2> QED BY <2>1, <2>2, <2>3, Zenon DEF CollectorIInv, StopOK
<1> QED BY <1>3, <1>4, <1>5, Zenon DEF CollectorIInv

LEMMA MainStopStep ==
  CollectorIInv /\ MainStop => CollectorIInv'
<1> SUFFICES ASSUME CollectorIInv, MainStop PROVE CollectorIInv'
  BY Zenon
<1>1. call["main"] = Idle /\ "main" \in Caller
  BY Parties, Zenon DEF MainStop, CollectorIInv, CallsOK, Restarts, ShutsDown, AsksState, ControlOK
<1>2. ControlOK'
  BY Zenon DEF MainStop, CollectorIInv, ControlOK
<1>3. ValuesOK'
  <2>1. ErrsOK \/ errs' = errs
    BY Zenon DEF CollectorIInv, ValuesOK
  <2>2. errs' = errs \/ ErrsOK'
    <3>1. \A S : \A q \in Seq(S) : q # << >> /\ Len(q) <= 1 => Tail(q) \in Seq(S) /\ Len(Tail(q)) <= 1
      OBVIOUS
    <3> QED BY <3>1, Zenon DEF MainStop, CollectorIInv, ValuesOK, ErrsOK
  <2> QED BY <2>2, ValuesStep, Zenon DEF MainStop, CollectorIInv, ValuesOK, ConfigsOK
<1> QED BY <1>1, <1>2, <1>3, Begins DEF MainStop, ShutsDown, Idle

LEMMA WatchPollStep ==
  CollectorIInv /\ WatchPoll /\ main # "exited" => CollectorIInv'
<1> SUFFICES ASSUME CollectorIInv, WatchPoll, main # "exited" PROVE CollectorIInv'
  BY Zenon
<1>0. UNCHANGED <<mux, svc, runner, notifier, errChan, colErr, errs, watchFrame>> /\ Begin("watch", "state")
  BY Zenon DEF WatchPoll
<1>1. "watch" \in Caller /\ call["watch"].at \in {"idle", "stateLock"}
  <2>1. "watch" \in Caller /\ reload.by # "watch"
    BY Parties, Zenon DEF CollectorIInv, ControlOK
  <2> QED BY <2>1 DEF CollectorIInv, CallsOK, Restarts, ShutsDown, AsksState, Idle
<1>2. ControlOK'
  BY <1>0, Zenon DEF CollectorIInv, ControlOK, watchFrame
<1>3. ValuesOK'
  BY <1>0, ValuesStep, Zenon DEF CollectorIInv, ValuesOK, ConfigsOK, watchFrame
<1> QED BY <1>0, <1>1, <1>2, <1>3, Begins, Zenon DEF watchFrame

\* reload's goroutine is in no operation while reload writes the file.
LEMMA WriterIdle ==
  \A c \in {"main", "callback"} :
    CollectorIInv /\ reload.by = c /\ reload.at \notin {"restart", "again"} => call[c] = Idle
<1> SUFFICES ASSUME CollectorIInv, NEW c \in {"main", "callback"}, reload.by = c, reload.at \notin {"restart", "again"}
             PROVE  call[c] = Idle
  BY Zenon
<1>1. c \in Caller /\ (main # "stopping" \/ c # "main")
  BY Parties, Zenon DEF CollectorIInv, ControlOK
<1> QED BY <1>1, Parties, Zenon DEF CollectorIInv, CallsOK, Restarts, ShutsDown, AsksState

LEMMA ReloadWriteStep ==
  \A c \in {"main", "callback"} :
    CollectorIInv /\ ReloadWrite(c) /\ main # "exited" => CollectorIInv'
<1> SUFFICES ASSUME CollectorIInv, NEW c \in {"main", "callback"}, ReloadWrite(c), main # "exited"
             PROVE  CollectorIInv'
  BY Zenon
<1>0. /\ reload.by = c /\ reload.at = "write" /\ c \in Caller
      /\ reload \in [by : {"main", "callback"}, at : ReloadStage, new : Config, old : Config]
  BY Parties, Zenon DEF ReloadWrite, AtReload, CollectorIInv, ControlOK
<1>1. /\ UNCHANGED <<mux, svc, runner, notifier, errChan, colErr, ret, main, callback, msg, rollback, loaded,
                      isReloading, nop, hash, received, effective, errs, result>>
  BY Zenon DEF ReloadWrite
<1>2. ASSUME NEW l \in {"restart", "failed"}, reload' = [reload EXCEPT !.at = l]
      PROVE  ControlOK' /\ reload'.at = l /\ reload'.by = c
  <2>1. /\ reload' \in [by : {"main", "callback"}, at : ReloadStage, new : Config, old : Config]
        /\ reload'.at = l /\ reload'.by = c
    BY <1>0, <1>2, Zenon DEF ReloadStage
  <2> QED BY <1>0, <1>1, <2>1, Zenon DEF CollectorIInv, ControlOK
<1>3. ValuesOK'
  <2>1. reload.new \in Config /\ file' \in {reload.new, file, Garbage} /\ (faults' = faults \/ faults' = faults + 1)
    BY <1>0, Zenon DEF ReloadWrite, Works, Fault
  <2> QED BY <1>1, <2>1, ValuesStep, Parties, Zenon DEF CollectorIInv, ValuesOK, ConfigsOK
<1>4. CASE reload' = [reload EXCEPT !.at = "restart"] /\ Begin(c, "restart")
  <2>1. call[c] = Idle
    BY <1>0, WriterIdle, Zenon
  <2>2. \A d \in Caller : ~Restarts(d)
    BY <1>0, NobodyRestarts, Zenon
  <2> QED BY <1>0, <1>1, <1>2, <1>3, <1>4, <2>1, <2>2, Begins DEF Idle
<1>5. CASE reload' = [reload EXCEPT !.at = "failed"] /\ UNCHANGED call
  <2>1. \A d \in Caller : ~Restarts(d)
    BY <1>0, NobodyRestarts, Zenon
  <2> QED BY <1>1, <1>2, <1>3, <1>5, <2>1, ReloadMoves, Zenon DEF colVars
<1> QED BY <1>4, <1>5, Zenon DEF ReloadWrite

LEMMA ReloadRestartedStep ==
  \A c \in {"main", "callback"} :
    CollectorIInv /\ ReloadRestarted(c) /\ main # "exited" => CollectorIInv'
<1> SUFFICES ASSUME CollectorIInv, NEW c \in {"main", "callback"}, ReloadRestarted(c), main # "exited"
             PROVE  CollectorIInv'
  BY Zenon
<1>0. /\ reload.by = c /\ reload.at = "restart" /\ c \in Caller /\ call[c] = Idle
      /\ reload \in [by : {"main", "callback"}, at : ReloadStage, new : Config, old : Config]
  BY Parties, Zenon DEF ReloadRestarted, AtReload, Finished, CollectorIInv, ControlOK
<1>1. /\ UNCHANGED <<mux, svc, runner, notifier, errChan, colErr, ret, main, callback, msg, rollback, loaded,
                      isReloading, nop, hash, received, effective, errs, result>>
  BY Zenon DEF ReloadRestarted
<1>2. ASSUME NEW l \in {"done", "again"}, reload' = [reload EXCEPT !.at = l]
      PROVE  ControlOK' /\ reload'.at = l /\ reload'.by = c
  <2>1. /\ reload' \in [by : {"main", "callback"}, at : ReloadStage, new : Config, old : Config]
        /\ reload'.at = l /\ reload'.by = c
    BY <1>0, <1>2, Zenon DEF ReloadStage
  <2> QED BY <1>0, <1>1, <2>1, Zenon DEF CollectorIInv, ControlOK
<1>3. ValuesOK'
  <2>1. file' \in {rollback, file, Garbage} /\ (faults' = faults \/ faults' = faults + 1)
    BY Zenon DEF ReloadRestarted, Works, Fault, RollbackFile
  <2> QED BY <1>1, <2>1, ValuesStep, Parties, Zenon DEF CollectorIInv, ValuesOK, ConfigsOK
<1>4. \A d \in Caller : ~Restarts(d)
  BY <1>0, NobodyRestarts, Zenon DEF Finished
<1>5. CASE reload' = [reload EXCEPT !.at = "again"] /\ Begin(c, "restart")
  BY <1>0, <1>1, <1>2, <1>3, <1>4, <1>5, Begins DEF Idle
<1>6. CASE reload' = [reload EXCEPT !.at = "done"] /\ UNCHANGED call
  <2>1. errChan # << >>
    BY <1>0 DEF CollectorIInv, StopOK, Idle
  <2> QED BY <1>1, <1>2, <1>3, <1>4, <1>6, <2>1, ReloadMoves, Zenon DEF colVars
<1> QED BY <1>5, <1>6, Zenon DEF ReloadRestarted

LEMMA ReloadRolledBackStep ==
  \A c \in {"main", "callback"} :
    CollectorIInv /\ ReloadRolledBack(c) /\ main # "exited" => CollectorIInv'
<1> SUFFICES ASSUME CollectorIInv, NEW c \in {"main", "callback"}, ReloadRolledBack(c), main # "exited"
             PROVE  CollectorIInv'
  BY Zenon
<1>0. /\ reload.by = c /\ call[c] = Idle /\ reload.at = "again"
      /\ reload \in [by : {"main", "callback"}, at : ReloadStage, new : Config, old : Config]
  BY Parties, Zenon DEF ReloadRolledBack, AtReload, Finished, CollectorIInv, ControlOK
<1>1. /\ UNCHANGED <<colVars, main, callback, msg, file, rollback, loaded,
                      isReloading, nop, hash, received, effective, errs, result, faults>>
      /\ reload' = [reload EXCEPT !.at = "failed"]
  BY Zenon DEF ReloadRolledBack
<1>2. /\ reload' \in [by : {"main", "callback"}, at : ReloadStage, new : Config, old : Config]
      /\ reload'.at = "failed" /\ reload'.by = c
  BY <1>0, <1>1, Zenon DEF ReloadStage
<1>3. ControlOK'
  BY <1>0, <1>1, <1>2, Zenon DEF CollectorIInv, ControlOK
<1>4. ValuesOK'
  BY <1>1, ValuesStep, Zenon DEF CollectorIInv, ValuesOK, ConfigsOK
<1>5. \A d \in Caller : ~Restarts(d)
  BY <1>0, NobodyRestarts, Zenon DEF Finished
<1> QED BY <1>1, <1>2, <1>3, <1>4, <1>5, ReloadMoves, Zenon

-----------------------------------------------------------------------------
(* The steps of the service and of its two goroutines *)

LEMMA ChanAppend ==
  \A q \in Chan, e \in {"nil", "err"} :
    Len(q) < 1 => q = << >> /\ Append(q, e) \in Chan /\ Append(q, e) # << >>
BY DEF Chan

LEMMA ChanTail ==
  \A q \in Chan :
    q # << >> => Tail(q) = << >> /\ Tail(q) \in Chan /\ Head(q) \in {"nil", "err"}
BY DEF Chan

\* The service moves and the callers do not.
LEMMA ServiceMoves ==
  /\ CollectorIInv /\ UNCHANGED <<mux, call>> /\ ServiceOK' /\ ControlOK' /\ ValuesOK'
  /\ errChan' \in Chan
  /\ errChan # << >> => errChan' # << >>
  /\ svc = "none" <=> svc' = "none"
  /\ UNCHANGED <<main, reload, result>>
  => CollectorIInv'
<1> SUFFICES ASSUME CollectorIInv, UNCHANGED <<mux, call>>, ServiceOK', ControlOK', ValuesOK', errChan' \in Chan,
                    errChan # << >> => errChan' # << >>, svc = "none" <=> svc' = "none",
                    UNCHANGED <<main, reload, result>>
             PROVE  CollectorIInv'
  BY Zenon
<1>1. CallsOK'
  BY Zenon DEF CollectorIInv, CallsOK, Restarts, ShutsDown, AsksState
<1>2. StopOK'
  BY Zenon DEF CollectorIInv, StopOK, MainIsDown, At, Finished
<1> QED BY <1>1, <1>2, Zenon DEF CollectorIInv

\* The client stays.
LEMMA ClientSame ==
  CollectorIInv /\ UNCHANGED clientVars
    => ControlOK' /\ ValuesOK' /\ UNCHANGED <<main, reload, result>>
<1> SUFFICES ASSUME CollectorIInv, UNCHANGED clientVars
             PROVE  ControlOK' /\ ValuesOK' /\ UNCHANGED <<main, reload, result>>
  BY Zenon
<1>1. ValuesOK'
  BY ValuesStep, Zenon DEF CollectorIInv, ValuesOK, ConfigsOK, clientVars
<1>2. ControlOK' /\ UNCHANGED <<main, reload, result>>
  BY Zenon DEF CollectorIInv, ControlOK, clientVars
<1> QED BY <1>1, <1>2, Zenon

LEMMA ServiceLoadsStep ==
  CollectorIInv /\ ServiceLoads => CollectorIInv'
<1> SUFFICES ASSUME CollectorIInv, ServiceLoads PROVE CollectorIInv'
  BY Zenon
<1>0. /\ svc = "starting" /\ runner = "run" /\ svc' = "running" /\ loaded' = file
      /\ UNCHANGED <<mux, runner, notifier, errChan, colErr, call>>
      /\ UNCHANGED <<main, callback, msg, file, rollback, reload, isReloading, nop, hash, received, effective,
                     errs, result, faults>>
  BY Zenon DEF ServiceLoads, ServiceStarts
<1>1. ControlOK'
  BY <1>0, Zenon DEF CollectorIInv, ControlOK
<1>2. ValuesOK'
  BY <1>0, ValuesStep, Zenon DEF CollectorIInv, ValuesOK, ConfigsOK
<1>3. ServiceOK'
  BY <1>0, Zenon DEF CollectorIInv, ServiceOK, CallsOK, Waiting, At, Holding
<1> QED BY <1>0, <1>1, <1>2, <1>3, ServiceMoves, Zenon DEF CollectorIInv, StopOK

LEMMA ServiceReturnsStep ==
  \A e \in {"nil", "err"} :
    CollectorIInv /\ ServiceReturns(e) /\ UNCHANGED clientVars => CollectorIInv'
<1> SUFFICES ASSUME CollectorIInv, NEW e \in {"nil", "err"}, ServiceReturns(e), UNCHANGED clientVars
             PROVE  CollectorIInv'
  BY Zenon
<1>0. /\ runner = "run" /\ svc' = "closed" /\ runner' = e /\ UNCHANGED <<mux, notifier, colErr, call>>
      /\ errChan \in Chan
  BY Zenon DEF ServiceReturns, CollectorIInv, StopOK
<1>1. errChan' \in Chan /\ errChan' # << >>
  <2>1. CASE Len(errChan) < 1
    BY <1>0, <2>1, ChanAppend, Zenon DEF ServiceReturns, ReportError
  <2>2. CASE ~(Len(errChan) < 1)
    BY <1>0, <2>2 DEF ServiceReturns, ReportError
  <2> QED BY <2>1, <2>2, Zenon
<1>2. ServiceOK'
  BY <1>0, Zenon DEF CollectorIInv, ServiceOK, Waiting, At
<1>3. svc # "none"
  BY <1>0, Zenon DEF CollectorIInv, ServiceOK
<1> QED BY <1>0, <1>1, <1>2, <1>3, ClientSame, ServiceMoves, Zenon

LEMMA RunnerSendStep ==
  CollectorIInv /\ RunnerSend /\ UNCHANGED clientVars => CollectorIInv'
<1> SUFFICES ASSUME CollectorIInv, RunnerSend, UNCHANGED clientVars
             PROVE  CollectorIInv'
  BY Zenon
<1>0. /\ runner \in {"nil", "err"} /\ runner' = "none" /\ UNCHANGED <<mux, svc, notifier, errChan, call>>
      /\ colErr' = Append(colErr, runner) /\ Len(colErr) < 1 /\ colErr \in Chan /\ errChan \in Chan
  BY Zenon DEF RunnerSend, CollectorIInv, StopOK, ServiceOK
<1>1. colErr' \in Chan
  BY <1>0, ChanAppend, Zenon
<1>2. ServiceOK'
  BY <1>0, <1>1, Zenon DEF CollectorIInv, ServiceOK, Waiting, At
<1> QED BY <1>0, <1>2, ClientSame, ServiceMoves, Zenon

LEMMA NotifyRunningStep ==
  CollectorIInv /\ NotifyRunning /\ UNCHANGED clientVars => CollectorIInv'
<1> SUFFICES ASSUME CollectorIInv, NotifyRunning, UNCHANGED clientVars
             PROVE  CollectorIInv'
  BY Zenon
<1>0. /\ notifier = "poll" /\ svc = "running" /\ UNCHANGED <<mux, svc, runner, errChan, call>>
      /\ colErr' = Append(colErr, "nil") /\ notifier' = "none" /\ Len(colErr) < 1
      /\ colErr \in Chan /\ errChan \in Chan
  BY Zenon DEF NotifyRunning, CollectorIInv, StopOK, ServiceOK
<1>1. colErr' \in Chan
  BY <1>0, ChanAppend, Zenon
<1>2. ServiceOK'
  BY <1>0, <1>1, Zenon DEF CollectorIInv, ServiceOK, Waiting, At
<1> QED BY <1>0, <1>2, ClientSame, ServiceMoves, Zenon

-----------------------------------------------------------------------------
(* The steps of the operations of the collector *)

\* c, with nobody else holding the mutex, goes on in its operation or ends it.
LEMMA CallMoves ==
  \A c \in Caller : \A v :
    /\ CollectorIInv /\ call' = [call EXCEPT ![c] = v] /\ UNCHANGED <<main, reload>>
    /\ mux \in {c, NoCaller} /\ mux' = IF v.at \in Holding THEN c ELSE NoCaller
    /\ \/ v = Idle
       \/ Restarts(c) /\ v \in [op : {"restart"}, at : Holding \cup {"downLock", "runLock"}]
       \/ ShutsDown(c) /\ v \in [op : {"shutdown"}, at : {"downLock", "downWait", "downSend"}]
    => /\ CallsOK' /\ call'[c] = v /\ \A d \in Caller : d # c => call'[d] = call[d] /\ call[d].at \notin Holding
       /\ (Waiting' <=> v.at = "runWait")
<1> SUFFICES ASSUME CollectorIInv, NEW c \in Caller, NEW v, call' = [call EXCEPT ![c] = v], UNCHANGED <<main, reload>>,
                    mux \in {c, NoCaller}, mux' = IF v.at \in Holding THEN c ELSE NoCaller,
                    \/ v = Idle
                    \/ Restarts(c) /\ v \in [op : {"restart"}, at : Holding \cup {"downLock", "runLock"}]
                    \/ ShutsDown(c) /\ v \in [op : {"shutdown"}, at : {"downLock", "downWait", "downSend"}]
             PROVE  /\ CallsOK' /\ call'[c] = v /\ \A d \in Caller : d # c => call'[d] = call[d] /\ call[d].at \notin Holding
                    /\ (Waiting' <=> v.at = "runWait")
  BY Zenon
<1>1. /\ call' = [d \in Caller |-> call'[d]] /\ call'[c] = v
      /\ \A d \in Caller : d # c => call'[d] = call[d]
  BY Zenon DEF CollectorIInv, CallsOK
<1>2. NoCaller \notin Caller
  BY Parties, Zenon
<1>3. \A d \in Caller : d # c => call[d].at \notin Holding
  BY <1>2, Zenon DEF CollectorIInv, CallsOK
<1>4. \A d \in Caller : d # c =>
        /\ Restarts(d) => Restarts(d)'
        /\ ShutsDown(d) => ShutsDown(d)'
        /\ AsksState(d) => AsksState(d)'
  BY <1>1, Zenon DEF Restarts, ShutsDown, AsksState
<1>5. v = Idle \/ Restarts(c)' \/ ShutsDown(c)'
  BY <1>1, Zenon DEF Restarts, ShutsDown
<1>6. \A d \in Caller : call'[d].at \in Holding <=> mux' = d
  BY <1>1, <1>2, <1>3, Zenon DEF Holding
<1>7. mux' \in Caller \cup {NoCaller}
  BY Zenon
<1>8. CallsOK'
  BY <1>1, <1>4, <1>5, <1>6, <1>7, Zenon DEF CollectorIInv, CallsOK
<1>9. Waiting' <=> v.at = "runWait"
  BY <1>1, <1>3, Zenon DEF Waiting, At, Holding
<1> QED BY <1>1, <1>3, <1>8, <1>9, Zenon

\* What c is in, by where it is.
LEMMA WhatCall ==
  \A c \in Caller :
    CollectorIInv
      => /\ call[c].at \in {"runLock", "runWait"} => Restarts(c)
         /\ call[c].at \in {"downLock", "downWait", "downSend"} => Restarts(c) \/ ShutsDown(c)
         /\ call[c].at = "stateLock" => AsksState(c)
         /\ call[c].at \in Holding => mux = c
<1> SUFFICES ASSUME CollectorIInv, NEW c \in Caller
             PROVE  /\ call[c].at \in {"runLock", "runWait"} => Restarts(c)
                    /\ call[c].at \in {"downLock", "downWait", "downSend"} => Restarts(c) \/ ShutsDown(c)
                    /\ call[c].at = "stateLock" => AsksState(c)
                    /\ call[c].at \in Holding => mux = c
  BY Zenon
<1>1. /\ call[c] = Idle => call[c].at = "idle"
      /\ Restarts(c) => call[c].at \in Holding \cup {"downLock", "runLock"}
      /\ ShutsDown(c) => call[c].at \in {"downLock", "downWait", "downSend"}
      /\ AsksState(c) => call[c].at = "stateLock"
  BY DEF Restarts, ShutsDown, AsksState, Idle
<1>2. call[c] = Idle \/ Restarts(c) \/ ShutsDown(c) \/ AsksState(c)
  BY Zenon DEF CollectorIInv, CallsOK
<1>3. call[c].at \in Holding => mux = c
  BY Zenon DEF CollectorIInv, CallsOK
<1> QED BY <1>1, <1>2, <1>3, Zenon DEF Holding

\* Goto, seen as the change of the whole record.
LEMMA GotoRecord ==
  \A c \in Caller : \A l :
    CollectorIInv /\ Goto(c, l) /\ (Restarts(c) \/ ShutsDown(c))
      => call' = [call EXCEPT ![c] = [op |-> call[c].op, at |-> l]]
<1> SUFFICES ASSUME CollectorIInv, NEW c \in Caller, NEW l, Goto(c, l), Restarts(c) \/ ShutsDown(c)
             PROVE  call' = [call EXCEPT ![c] = [op |-> call[c].op, at |-> l]]
  BY Zenon
<1>1. call[c] \in [op : {"restart", "shutdown"}, at : Holding \cup {"downLock", "runLock"}]
  BY Zenon DEF Restarts, ShutsDown, Holding
<1>2. [call[c] EXCEPT !.at = l] = [op |-> call[c].op, at |-> l]
  BY <1>1
<1>3. call' = [call EXCEPT ![c] = [call[c] EXCEPT !.at = l]]
  BY Zenon DEF Goto
<1> QED BY <1>2, <1>3, Zenon

LEMMA RunLockStep ==
  \A c \in Caller :
    CollectorIInv /\ RunLock(c) /\ UNCHANGED clientVars /\ main # "exited" => CollectorIInv'
<1> SUFFICES ASSUME CollectorIInv, NEW c \in Caller, RunLock(c), UNCHANGED clientVars, main # "exited"
             PROVE  CollectorIInv'
  BY Zenon
<1>0. /\ At(c, "runLock") /\ mux = NoCaller /\ Restarts(c) /\ svc = "none" /\ errChan # << >> /\ ~MainIsDown
      /\ errChan' = errChan /\ errChan \in Chan
  BY WhatCall, Zenon DEF RunLock, At, CollectorIInv, ServiceOK, StopOK, Restarts
<1>1. CASE call' = [call EXCEPT ![c] = Idle] /\ UNCHANGED <<mux, svc, runner, notifier, errChan, colErr>>
  <2>0. Idle.at \notin Holding /\ Idle.at = "idle"
    BY Zenon DEF Idle, Holding
  <2>1. /\ CallsOK' /\ call'[c] = Idle /\ \A d \in Caller : d # c => call'[d] = call[d] /\ call[d].at \notin Holding
        /\ ~Waiting'
    BY <1>0, <1>1, <2>0, CallMoves, ClientSame, Zenon
  <2>2. ServiceOK'
    BY <1>0, <1>1, <2>0, <2>1, Zenon DEF CollectorIInv, ServiceOK, At, Holding
  <2>3. StopOK'
    <3>1. ~MainIsDown'
      BY <1>0, <2>1, ClientSame, Parties, Zenon DEF MainIsDown, Finished, Restarts, CollectorIInv, ControlOK
    <3> QED BY <1>0, <3>1, ClientSame, Zenon DEF CollectorIInv, StopOK
  <2> QED BY <2>1, <2>2, <2>3, ClientSame, Zenon DEF CollectorIInv
<1>2. CASE /\ mux' = c /\ svc' = "starting" /\ runner' = "run" /\ notifier' = "poll" /\ colErr' = << >>
           /\ Goto(c, "runWait")
  <2>v. PICK v : v = [op |-> "restart", at |-> "runWait"]
    BY Zenon
  <2>0. v.at = "runWait" /\ v.at \in Holding /\ v \in [op : {"restart"}, at : Holding \cup {"downLock", "runLock"}]
    BY <2>v, Zenon DEF Holding
  <2>1. call' = [call EXCEPT ![c] = v]
    <3>1. call[c].op = "restart"
      BY <1>0, Zenon DEF Restarts
    <3> QED BY <1>0, <1>2, <2>v, <3>1, GotoRecord, Zenon
  <2>2. /\ CallsOK' /\ call'[c] = v /\ \A d \in Caller : d # c => call'[d] = call[d] /\ call[d].at \notin Holding
        /\ Waiting'
    BY <1>0, <1>2, <2>0, <2>1, CallMoves, ClientSame, Zenon
  <2>3. \A d \in Caller : d # c => call[d].at # "runLock"
    <3>1. \A d \in Caller : call[d].at = "runLock" => reload.by = d
      BY WhatCall, Zenon DEF Restarts
    <3> QED BY <1>0, <3>1, Zenon DEF Restarts
  <2>4. ServiceOK'
    <3>1. colErr' \in Chan
      BY <1>2 DEF Chan
    <3> QED BY <1>0, <1>2, <2>0, <2>2, <2>3, <3>1, Zenon DEF ServiceOK, At, Holding
  <2>5. StopOK'
    <3>1. ~MainIsDown'
      BY <1>0, <2>0, <2>2, ClientSame, Parties, Zenon DEF MainIsDown, Finished, Restarts, CollectorIInv, ControlOK
    <3> QED BY <1>0, <3>1, ClientSame, Zenon DEF CollectorIInv, StopOK
  <2> QED BY <2>2, <2>4, <2>5, ClientSame, Zenon DEF CollectorIInv
<1> QED BY <1>1, <1>2, Zenon DEF RunLock

LEMMA RunReturnStep ==
  \A c \in Caller :
    CollectorIInv /\ RunReturn(c) /\ UNCHANGED clientVars /\ main # "exited" => CollectorIInv'
<1> SUFFICES ASSUME CollectorIInv, NEW c \in Caller, RunReturn(c), UNCHANGED clientVars, main # "exited"
             PROVE  CollectorIInv'
  BY Zenon
<1>0. /\ At(c, "runWait") /\ mux = c /\ Restarts(c) /\ svc # "none" /\ errChan # << >> /\ ~MainIsDown
      /\ errChan' = errChan /\ errChan \in Chan /\ colErr # << >> /\ colErr \in Chan
  BY WhatCall, Zenon DEF RunReturn, At, CollectorIInv, ServiceOK, StopOK, Holding
<1>1. /\ call' = [call EXCEPT ![c] = Idle] /\ mux' = NoCaller /\ UNCHANGED <<svc, runner, notifier, errChan>>
      /\ colErr' = << >> /\ colErr' \in Chan
  BY <1>0, ChanTail, Zenon DEF RunReturn
<1>2. Idle.at \notin Holding /\ Idle.at = "idle"
  BY Zenon DEF Idle, Holding
<1>3. /\ CallsOK' /\ call'[c] = Idle /\ \A d \in Caller : d # c => call'[d] = call[d] /\ call[d].at \notin Holding
      /\ ~Waiting'
  BY <1>0, <1>1, <1>2, CallMoves, ClientSame, Zenon
<1>4. ServiceOK'
  <2>1. svc # "starting" /\ svc # "stopping"
    BY <1>0, <1>3, Zenon DEF CollectorIInv, ServiceOK, At, Holding
  <2> QED BY <1>0, <1>1, <1>2, <1>3, <2>1, Zenon DEF CollectorIInv, ServiceOK, At, Holding
<1>5. StopOK'
  <2>1. ~MainIsDown'
    BY <1>0, <1>3, ClientSame, Parties, Zenon DEF MainIsDown, Finished, Restarts, CollectorIInv, ControlOK
  <2> QED BY <1>0, <2>1, ClientSame, Zenon DEF CollectorIInv, StopOK
<1> QED BY <1>3, <1>4, <1>5, ClientSame, Zenon DEF CollectorIInv

LEMMA ShutdownLockStep ==
  \A c \in Caller :
    CollectorIInv /\ ShutdownLock(c) /\ UNCHANGED clientVars /\ main # "exited" => CollectorIInv'
<1> SUFFICES ASSUME CollectorIInv, NEW c \in Caller, ShutdownLock(c), UNCHANGED clientVars, main # "exited"
             PROVE  CollectorIInv'
  BY Zenon
<1>0. /\ At(c, "downLock") /\ mux = NoCaller /\ mux' = c /\ (Restarts(c) \/ ShutsDown(c))
      /\ UNCHANGED <<runner, notifier, errChan, colErr>>
  BY WhatCall, Zenon DEF ShutdownLock, At
<1>1. PICK l \in {"downWait", "downSend"} :
        /\ Goto(c, l)
        /\ l = "downWait" => svc # "none" /\ svc' = IF svc = "closed" THEN svc ELSE "stopping"
        /\ l = "downSend" => svc = "none" /\ svc' = svc
  BY Zenon DEF ShutdownLock
<1>v. PICK v : v = [op |-> call[c].op, at |-> l]
  BY Zenon
<1>2. /\ v.at = l /\ l \in Holding /\ v # Idle
      /\ Restarts(c) => v \in [op : {"restart"}, at : Holding \cup {"downLock", "runLock"}]
      /\ ShutsDown(c) => v \in [op : {"shutdown"}, at : {"downLock", "downWait", "downSend"}]
  BY <1>v, Zenon DEF Restarts, ShutsDown, Holding, Idle
<1>3. call' = [call EXCEPT ![c] = v]
  BY <1>0, <1>1, <1>v, GotoRecord, Zenon
<1>4. /\ CallsOK' /\ call'[c] = v /\ \A d \in Caller : d # c => call'[d] = call[d] /\ call[d].at \notin Holding
      /\ ~Waiting'
  BY <1>0, <1>2, <1>3, CallMoves, ClientSame, Zenon
<1>5. ~Waiting /\ svc # "starting" /\ svc # "stopping" /\ \A d \in Caller : call[d].at = "runLock" => svc = "none"
  <2>1. \A d \in Caller : call[d].at \notin Holding
    BY <1>0, <1>4, Zenon DEF At, Holding
  <2> QED BY <2>1, Zenon DEF CollectorIInv, ServiceOK, Waiting, At, Holding
<1>6. ServiceOK'
  <2>1. CASE l = "downWait"
    BY <1>0, <1>1, <1>2, <1>4, <1>5, <2>1, Zenon DEF CollectorIInv, ServiceOK, At, Holding
  <2>2. CASE l = "downSend"
    BY <1>0, <1>1, <1>2, <1>4, <1>5, <2>2, Zenon DEF CollectorIInv, ServiceOK, At, Holding
  <2> QED BY <2>1, <2>2, Zenon
<1>7. StopOK'
  <2>1. MainIsDown' => MainIsDown
    BY <1>2, <1>4, ClientSame, Parties, Zenon DEF MainIsDown, Finished
  <2>2. /\ reload' = reload /\ main' = main /\ result' = result /\ errChan' = errChan
        /\ (svc = "none" <=> svc' = "none")
    BY <1>0, <1>1, ClientSame, Zenon
  <2>3. \A d \in Caller : call'[d].at \in {"idle", "runLock", "runWait"} => call[d].at = call'[d].at
    BY <1>1, <1>2, <1>4, Zenon
  <2>4. reload.at \in {"restart", "again"} => reload.by \in Caller
    BY Parties, Zenon DEF CollectorIInv, ControlOK
  <2> QED BY <2>1, <2>2, <2>3, <2>4, Zenon DEF CollectorIInv, StopOK, At
<1> QED BY <1>4, <1>6, <1>7, ClientSame, Zenon DEF CollectorIInv

\* Shutdown ends, and Restart goes on to Run.
LEMMA AfterShutdownRecord ==
  \A c \in Caller :
    CollectorIInv /\ AfterShutdown(c) /\ call[c].at \in {"downWait", "downSend"}
      => \E v : /\ call' = [call EXCEPT ![c] = v]
                /\ v.at \in {"idle", "runLock"}
                /\ \/ ShutsDown(c) /\ v = Idle
                   \/ Restarts(c) /\ v.at = "runLock" /\ v \in [op : {"restart"}, at : Holding \cup {"downLock", "runLock"}]
<1> SUFFICES ASSUME CollectorIInv, NEW c \in Caller, AfterShutdown(c), call[c].at \in {"downWait", "downSend"}
             PROVE  \E v : /\ call' = [call EXCEPT ![c] = v]
                           /\ v.at \in {"idle", "runLock"}
                           /\ \/ ShutsDown(c) /\ v = Idle
                              \/ Restarts(c) /\ v.at = "runLock" /\ v \in [op : {"restart"}, at : Holding \cup {"downLock", "runLock"}]
  BY Zenon
<1>1. Restarts(c) \/ ShutsDown(c)
  BY WhatCall, Zenon
<1>2. CASE Restarts(c)
  <2>1. PICK v : v = [op |-> "restart", at |-> "runLock"]
    BY Zenon
  <2>2. call' = [call EXCEPT ![c] = v]
    BY <1>2, <2>1, Zenon DEF AfterShutdown, Restarts
  <2>3. v.at = "runLock" /\ v \in [op : {"restart"}, at : Holding \cup {"downLock", "runLock"}]
    BY <2>1, Zenon
  <2> QED BY <1>2, <2>2, <2>3, Zenon
<1>3. CASE ShutsDown(c)
  <2>1. call[c].op = "shutdown" /\ Idle.at = "idle"
    BY <1>3, Zenon DEF ShutsDown, Idle
  <2>2. call' = [call EXCEPT ![c] = Idle]
    BY <2>1, Zenon DEF AfterShutdown
  <2> QED BY <1>3, <2>1, <2>2, Zenon
<1> QED BY <1>1, <1>2, <1>3, Zenon

LEMMA ShutdownWaitStep ==
  \A c \in Caller :
    CollectorIInv /\ ShutdownWait(c) /\ UNCHANGED clientVars /\ main # "exited" => CollectorIInv'
<1> SUFFICES ASSUME CollectorIInv, NEW c \in Caller, ShutdownWait(c), UNCHANGED clientVars, main # "exited"
             PROVE  CollectorIInv'
  BY Zenon
<1>0. /\ call[c].at = "downWait" /\ runner = "none" /\ svc' = "none" /\ mux' = NoCaller /\ AfterShutdown(c)
      /\ UNCHANGED <<runner, notifier, errChan, colErr>> /\ svc \in {"stopping", "closed"} /\ mux = c
      /\ errChan # << >>
  BY WhatCall, Zenon DEF ShutdownWait, WaitsForRunner, At, CollectorIInv, ServiceOK, StopOK, Holding
<1>1. PICK v : /\ call' = [call EXCEPT ![c] = v] /\ v.at \in {"idle", "runLock"}
               /\ \/ ShutsDown(c) /\ v = Idle
                  \/ Restarts(c) /\ v.at = "runLock" /\ v \in [op : {"restart"}, at : Holding \cup {"downLock", "runLock"}]
  BY <1>0, AfterShutdownRecord, Zenon
<1>2. /\ CallsOK' /\ call'[c] = v /\ \A d \in Caller : d # c => call'[d] = call[d] /\ call[d].at \notin Holding
      /\ ~Waiting'
  <2>1. v.at \notin Holding /\ v.at # "runWait"
    BY <1>1, Zenon DEF Holding
  <2> QED BY <1>0, <1>1, <2>1, CallMoves, ClientSame, Zenon
<1>3. \A d \in Caller : d # c => call[d].at # "runLock"
  BY <1>0, Zenon DEF CollectorIInv, ServiceOK, At
<1>4. ServiceOK'
  BY <1>0, <1>1, <1>2, Zenon DEF CollectorIInv, ServiceOK, At, Holding
<1>5. StopOK'
  <2>1. /\ reload' = reload /\ main' = main /\ result' = result /\ errChan' = errChan
    BY <1>0, ClientSame, Zenon
  <2>2. MainIsDown' => \A d \in Caller : call'[d].at # "runLock"
    <3>1. CASE MainIsDown
      BY <1>0, <3>1, Zenon DEF CollectorIInv, StopOK
    <3>2. CASE ~MainIsDown /\ MainIsDown'
      <4>1. c = "main" /\ v = Idle
        BY <1>1, <1>2, <2>1, <3>2, Parties, Zenon DEF MainIsDown, Finished, Restarts, CollectorIInv, ControlOK
      <4> QED BY <1>2, <1>3, <4>1 DEF Idle
    <3> QED BY <3>1, <3>2, Zenon
  <2> QED BY <1>0, <2>1, <2>2, Zenon DEF CollectorIInv, StopOK, At
<1> QED BY <1>2, <1>4, <1>5, ClientSame, Zenon DEF CollectorIInv

LEMMA ShutdownSendStep ==
  \A c \in Caller :
    CollectorIInv /\ ShutdownSend(c) /\ UNCHANGED clientVars /\ main # "exited" => CollectorIInv'
<1> SUFFICES ASSUME CollectorIInv, NEW c \in Caller, ShutdownSend(c), UNCHANGED clientVars, main # "exited"
             PROVE  CollectorIInv'
  BY Zenon
<1>0. /\ call[c].at = "downSend" /\ Len(errChan) < 1 /\ mux' = NoCaller /\ AfterShutdown(c)
      /\ UNCHANGED <<svc, runner, notifier, colErr>> /\ svc = "none" /\ mux = c /\ errChan \in Chan
      /\ errChan' = Append(errChan, "nil")
  BY WhatCall, Zenon DEF ShutdownSend, At, CollectorIInv, ServiceOK, StopOK, Holding
<1>e. errChan = << >> /\ errChan' \in Chan /\ errChan' # << >>
  BY <1>0, ChanAppend, Zenon
<1>1. PICK v : /\ call' = [call EXCEPT ![c] = v] /\ v.at \in {"idle", "runLock"}
               /\ \/ ShutsDown(c) /\ v = Idle
                  \/ Restarts(c) /\ v.at = "runLock" /\ v \in [op : {"restart"}, at : Holding \cup {"downLock", "runLock"}]
  BY <1>0, AfterShutdownRecord, Zenon
<1>2. /\ CallsOK' /\ call'[c] = v /\ \A d \in Caller : d # c => call'[d] = call[d] /\ call[d].at \notin Holding
      /\ ~Waiting'
  <2>1. v.at \notin Holding /\ v.at # "runWait"
    BY <1>1, Zenon DEF Holding
  <2> QED BY <1>0, <1>1, <2>1, CallMoves, ClientSame, Zenon
<1>3. ServiceOK'
  BY <1>0, <1>1, <1>2, Zenon DEF CollectorIInv, ServiceOK, At, Holding
<1>4. StopOK'
  <2>1. /\ reload' = reload /\ main' = main /\ result' = result
    BY ClientSame, Zenon
  <2>2. main \notin {"wait", "stopping", "receive"}
    BY <1>e, Zenon DEF CollectorIInv, StopOK
  <2>3. ~MainIsDown'
    BY <2>1, <2>2, Zenon DEF MainIsDown
  <2> QED BY <1>e, <2>1, <2>3, Zenon DEF CollectorIInv, StopOK
<1> QED BY <1>2, <1>3, <1>4, ClientSame, Zenon DEF CollectorIInv

LEMMA GetStateStep ==
  \A c \in Caller :
    CollectorIInv /\ GetState(c) /\ UNCHANGED clientVars /\ main # "exited" => CollectorIInv'
<1> SUFFICES ASSUME CollectorIInv, NEW c \in Caller, GetState(c), UNCHANGED clientVars, main # "exited"
             PROVE  CollectorIInv'
  BY Zenon
<1>0. /\ call[c].at = "stateLock" /\ mux = NoCaller /\ call' = [call EXCEPT ![c] = Idle] /\ AsksState(c)
      /\ UNCHANGED <<mux, svc, runner, notifier, errChan, colErr>> /\ Idle.at = "idle"
  BY WhatCall, Zenon DEF GetState, At, Idle
<1>1. /\ CallsOK' /\ call'[c] = Idle /\ \A d \in Caller : d # c => call'[d] = call[d] /\ call[d].at \notin Holding
      /\ ~Waiting'
  <2>1. Idle.at \notin Holding /\ Idle.at # "runWait"
    BY <1>0, Zenon DEF Holding
  <2> QED BY <1>0, <2>1, CallMoves, ClientSame, Zenon
<1>2. ServiceOK'
  <2>1. \A d \in Caller : \A l \in Holding \cup {"runLock"} : At(d, l)' <=> At(d, l)
    BY <1>0, <1>1, Zenon DEF At, Holding
  <2>2. Waiting' <=> Waiting
    BY <2>1, Zenon DEF Waiting, Holding
  <2> QED BY <1>0, <2>1, <2>2, Zenon DEF CollectorIInv, ServiceOK, Holding
<1>3. StopOK'
  <2>1. c # "main" /\ "main" \in Caller /\ c # reload.by
    BY <1>0, Parties, Zenon DEF AsksState, CollectorIInv, ControlOK
  <2>2. MainIsDown' => MainIsDown
    BY <1>1, <2>1, ClientSame, Zenon DEF MainIsDown, Finished
  <2>3. /\ reload' = reload /\ main' = main /\ result' = result /\ errChan' = errChan
    BY <1>0, ClientSame, Zenon
  <2>4. reload.at \in {"restart", "again"} => reload.by \in Caller
    BY Parties, Zenon DEF CollectorIInv, ControlOK
  <2> QED BY <1>0, <1>1, <2>1, <2>2, <2>3, <2>4, Zenon DEF CollectorIInv, StopOK, At
<1> QED BY <1>1, <1>2, <1>3, ClientSame, Zenon DEF CollectorIInv

-----------------------------------------------------------------------------
(* The collector is owned *)

LEMMA MainReceiveStep ==
  CollectorIInv /\ MainReceive => CollectorIInv'
<1> SUFFICES ASSUME CollectorIInv, MainReceive PROVE CollectorIInv'
  BY Zenon
<1>0. /\ main = "receive" /\ main' = "exited" /\ errChan \in Chan /\ errChan' = Tail(errChan) /\ errChan # << >>
      /\ UNCHANGED <<mux, svc, runner, notifier, colErr, call, callback, reload>>
      /\ UNCHANGED <<msg, file, rollback, loaded, isReloading, nop, hash, received, effective, errs, faults>>
  BY Zenon DEF MainReceive, CollectorIInv, StopOK
<1>1. ControlOK'
  BY <1>0, Zenon DEF CollectorIInv, ControlOK
<1>2. ValuesOK'
  BY <1>0, ValuesStep, Zenon DEF CollectorIInv, ValuesOK, ConfigsOK
<1>3. CallsOK'
  BY <1>0, Zenon DEF CollectorIInv, CallsOK, Restarts, ShutsDown, AsksState
<1>4. ServiceOK'
  BY <1>0, Zenon DEF CollectorIInv, ServiceOK, Waiting, At
<1>5. errChan' \in Chan
  BY <1>0, ChanTail, Zenon
<1>6. StopOK'
  BY <1>0, <1>5, Zenon DEF CollectorIInv, StopOK, MainIsDown, At
<1> QED BY <1>1, <1>2, <1>3, <1>4, <1>6, Zenon DEF CollectorIInv

LEMMA CollectorInit == Init => CollectorIInv
<1> SUFFICES ASSUME Init PROVE CollectorIInv
  BY Zenon
<1>1. Idle.at = "idle" /\ "idle" \notin Holding
  BY Zenon DEF Idle, Holding
<1>2. \A c \in Caller : call[c] = Idle
  BY Zenon DEF Init, ColInit
<1>3. ControlOK
  BY Parties, Zenon DEF Init, ControlOK
<1>4. CallsOK
  BY <1>1, <1>2, Parties, Zenon DEF Init, ColInit, CallsOK
<1>5. << >> \in Chan
  BY DEF Chan
<1>6. ServiceOK
  BY <1>1, <1>2, <1>5, Zenon DEF Init, ColInit, ServiceOK, At, Waiting
<1>7. StopOK
  BY <1>1, <1>2, <1>5, Parties, Zenon DEF Init, ColInit, StopOK, At, MainIsDown
<1>8. ValuesOK
  <2>1. ConfigsOK /\ FlagsOK /\ faults \in Nat
    BY Zenon DEF Init, ConfigsOK, FlagsOK, Config
  <2>2. ErrsOK
    BY DEF Init, ErrsOK
  <2> QED BY <2>1, <2>2, Zenon DEF ValuesOK
<1> QED BY <1>3, <1>4, <1>6, <1>7, <1>8, Zenon DEF CollectorIInv

LEMMA CollectorNext == CollectorIInv /\ [Next]_vars => CollectorIInv'
<1> SUFFICES ASSUME CollectorIInv, [Next]_vars PROVE CollectorIInv'
  BY Zenon
<1>1. CASE UNCHANGED vars
  <2>1. UNCHANGED <<mux, svc, runner, notifier, errChan, colErr, call, ret>> /\ UNCHANGED clientVars
    BY <1>1, Zenon DEF vars, colVars
  <2>2. ServiceOK' /\ errChan' \in Chan
    BY <2>1, ServiceSame, Zenon DEF CollectorIInv, StopOK, colVars
  <2> QED BY <2>1, <2>2, ClientSame, ServiceMoves, Zenon
<1>2. CASE Exited
  BY <1>1, <1>2, Zenon DEF Exited
<1>3. CASE main # "exited" /\ MainStep
  BY <1>3, MainConnectStep, MainSetNopStep, MainReloadStep, MainStartedStep, MainStopStep,
     MainDisconnectStep, MainReceiveStep, Zenon DEF MainStep
<1>4. CASE main # "exited" /\ CallbackStep
  BY <1>4, CallbackReloadStep, CallbackReloadedStep, CallbackHashStep, CallbackReportStep, Zenon DEF CallbackStep
<1>5. CASE main # "exited" /\ WatchStep
  BY <1>5, WatchPollStep, WatchQuietStep, Zenon DEF WatchStep
<1>6. CASE \E r \in Remote : Message(r)
  BY <1>6, MessageStep, Zenon
<1>7. CASE main # "exited" /\ \E c \in {"main", "callback"} : ReloadStep(c)
  BY <1>7, ReloadWriteStep, ReloadRestartedStep, ReloadRolledBackStep, Zenon DEF ReloadStep
<1>8. CASE ServiceLoads
  BY <1>8, ServiceLoadsStep, Zenon
<1>9. CASE main # "exited" /\ OtherStep
  BY <1>9, RunnerSendStep, NotifyRunningStep, ServiceReturnsStep, RunLockStep, RunReturnStep,
     ShutdownLockStep, ShutdownWaitStep, ShutdownSendStep, GetStateStep, Zenon DEF OtherStep, CallStep
<1> QED BY <1>1, <1>2, <1>3, <1>4, <1>5, <1>6, <1>7, <1>8, <1>9, Zenon DEF Next

LEMMA CollectorInvariant == Spec => []CollectorIInv
BY CollectorInit, CollectorNext, PTL DEF Spec

\* In every behaviour of main, the callback and the watcher, with any configurations and
\* failures, no service is left behind by Run, Restart and Shutdown, the goroutine around
\* svc.Run can always deliver its result, and Stop returns with the collector stopped.
THEOREM CollectorOwned == Spec => []CollectorInv
<1>1. CollectorIInv => CollectorInv
  <2> SUFFICES ASSUME CollectorIInv PROVE CollectorInv
    BY Zenon
  <2>1. NoOrphanService /\ StopStopsCollector
    BY Zenon DEF CollectorIInv, ServiceOK, StopOK, MainIsDown, NoOrphanService, StopStopsCollector
  <2>2. ResultHasRoom
    <3>1. Len(<< >>) = 0
      BY Zenon
    <3>2. runner # "none" => colErr = << >> \/ Waiting
      BY Zenon DEF CollectorIInv, ServiceOK
    <3> QED BY <3>1, <3>2 DEF ResultHasRoom, Waiting
  <2>3. Len(errChan) <= 1 /\ Len(colErr) <= 1 /\ Len(errs) <= 1
    BY Zenon DEF CollectorIInv, ServiceOK, StopOK, ValuesOK, ErrsOK, Chan
  <2>4. mux \in Caller \cup {NoCaller} /\ reload.by \in Caller \cup {NoCaller}
    BY Parties, Zenon DEF CollectorIInv, CallsOK, ControlOK
  <2>5. TypeOK
    BY <2>3, <2>4, Zenon DEF CollectorIInv, ServiceOK, ValuesOK, ConfigsOK, FlagsOK, TypeOK
  <2> QED BY <2>1, <2>2, <2>5, Zenon DEF CollectorInv
<1> QED BY <1>1, CollectorInvariant, PTL

-----------------------------------------------------------------------------
(* The file *)

InRun(c) == call[c].at \in {"runWait", "idle"}

\* Neither reload nor what it handles changes.
LEMMA FileSame ==
  /\ CollectorIInv /\ FileIInv /\ UNCHANGED <<reload, file, rollback, loaded>>
  /\ msg' = msg \/ reload.by # "callback"
  /\ faults' = faults \/ faults' = faults + 1
  /\ svc' = "running" => svc = "running" /\ (reload.at \in {"restart", "again"} /\ InRun(reload.by)' => InRun(reload.by))
  => FileIInv'
<1> SUFFICES ASSUME CollectorIInv, FileIInv, UNCHANGED <<reload, file, rollback, loaded>>,
                    msg' = msg \/ reload.by # "callback", faults' = faults \/ faults' = faults + 1,
                    svc' = "running" => svc = "running" /\ (reload.at \in {"restart", "again"} /\ InRun(reload.by)' => InRun(reload.by))
             PROVE  FileIInv'
  BY Zenon
<1>1. faults' = 0 => faults = 0
  BY DEF CollectorIInv, ValuesOK
<1> QED BY <1>1, Zenon DEF FileIInv, ReloadOK, InRun

LEMMA FileReloadLock ==
  \A c \in {"main", "callback"} : \A contents :
    CollectorIInv /\ FileIInv /\ ReloadLock(c, contents) /\ (c = "callback" => contents = msg)
      => FileIInv'
<1> SUFFICES ASSUME CollectorIInv, FileIInv, NEW c \in {"main", "callback"}, NEW contents, ReloadLock(c, contents),
                    c = "callback" => contents = msg
             PROVE  FileIInv'
  BY Zenon
<1>1. /\ reload = NoReload /\ UNCHANGED <<svc, call, msg, file, loaded>>
  BY Zenon DEF ReloadLock, colVars
<1>2. CASE Works /\ rollback' = file /\ reload' = [by |-> c, at |-> "write", new |-> contents, old |-> file]
  BY <1>1, <1>2, Parties, Zenon DEF FileIInv, ReloadOK, Works
<1>3. CASE Fault
  BY <1>3 DEF Fault, FileIInv, CollectorIInv, ValuesOK
<1> QED BY <1>2, <1>3, Zenon DEF ReloadLock

LEMMA FileReloadWrite ==
  \A c \in {"main", "callback"} :
    CollectorIInv /\ FileIInv /\ ReloadWrite(c) => FileIInv'
<1> SUFFICES ASSUME CollectorIInv, FileIInv, NEW c \in {"main", "callback"}, ReloadWrite(c)
             PROVE  FileIInv'
  BY Zenon
<1>0. /\ reload.by = c /\ reload.at = "write" /\ c \in Caller
      /\ reload \in [by : {"main", "callback"}, at : ReloadStage, new : Config, old : Config]
  BY Parties, Zenon DEF ReloadWrite, AtReload, CollectorIInv, ControlOK
<1>1. CASE Works /\ file' = reload.new /\ reload' = [reload EXCEPT !.at = "restart"] /\ Begin(c, "restart")
  <2>1. /\ reload'.at = "restart" /\ reload'.by = c /\ reload'.new = reload.new /\ reload'.old = reload.old
    BY <1>0, <1>1, Zenon
  <2>2. call'[c].at = "downLock"
    BY <1>0, <1>1, Zenon DEF Begin, CollectorIInv, CallsOK
  <2>3. rollback' = rollback /\ msg' = msg
    BY Zenon DEF ReloadWrite
  <2> QED BY <1>0, <1>1, <2>1, <2>2, <2>3, Zenon DEF FileIInv, ReloadOK, Works
<1>2. CASE Fault
  BY <1>2 DEF Fault, FileIInv, CollectorIInv, ValuesOK
<1> QED BY <1>1, <1>2, Zenon DEF ReloadWrite

LEMMA FileReloadRestarted ==
  \A c \in {"main", "callback"} :
    CollectorIInv /\ FileIInv /\ ReloadRestarted(c) => FileIInv'
<1> SUFFICES ASSUME CollectorIInv, FileIInv, NEW c \in {"main", "callback"}, ReloadRestarted(c)
             PROVE  FileIInv'
  BY Zenon
<1>0. /\ reload.by = c /\ reload.at = "restart" /\ c \in Caller /\ call[c] = Idle
      /\ reload \in [by : {"main", "callback"}, at : ReloadStage, new : Config, old : Config]
      /\ UNCHANGED <<svc, msg, rollback, loaded>>
  BY Parties, Zenon DEF ReloadRestarted, AtReload, Finished, CollectorIInv, ControlOK
<1>1. CASE Works /\ reload' = [reload EXCEPT !.at = "done"] /\ UNCHANGED <<file, call>>
  <2>1. /\ reload'.at = "done" /\ reload'.by = c /\ reload'.new = reload.new /\ call[c].at = "idle"
    BY <1>0, <1>1 DEF Idle
  <2> QED BY <1>0, <1>1, <2>1, Zenon DEF FileIInv, ReloadOK, Works
<1>2. CASE Works /\ file' = RollbackFile /\ reload' = [reload EXCEPT !.at = "again"] /\ Begin(c, "restart")
  <2>1. /\ reload'.at = "again" /\ reload'.by = c /\ reload'.new = reload.new /\ reload'.old = reload.old
    BY <1>0, <1>2, Zenon
  <2>2. call'[c].at = "downLock"
    BY <1>0, <1>2, Zenon DEF Begin, CollectorIInv, CallsOK
  <2> QED BY <1>0, <1>2, <2>1, <2>2, Zenon DEF FileIInv, ReloadOK, Works, RollbackFile
<1>3. CASE Fault
  BY <1>3 DEF Fault, FileIInv, CollectorIInv, ValuesOK
<1> QED BY <1>1, <1>2, <1>3, Zenon DEF ReloadRestarted

LEMMA FileReloadRolledBack ==
  \A c \in {"main", "callback"} :
    CollectorIInv /\ FileIInv /\ ReloadRolledBack(c) => FileIInv'
<1> SUFFICES ASSUME CollectorIInv, FileIInv, NEW c \in {"main", "callback"}, ReloadRolledBack(c)
             PROVE  FileIInv'
  BY Zenon
<1>0. /\ reload.by = c /\ reload.at = "again" /\ call[c].at = "idle"
      /\ reload \in [by : {"main", "callback"}, at : ReloadStage, new : Config, old : Config]
      /\ reload' = [reload EXCEPT !.at = "failed"]
      /\ UNCHANGED <<svc, call, msg, file, rollback, loaded, faults>>
  BY Parties DEF ReloadRolledBack, AtReload, Finished, CollectorIInv, ControlOK, colVars, Idle
<1>1. /\ reload'.at = "failed" /\ reload'.by = c /\ reload'.new = reload.new /\ reload'.old = reload.old
  BY <1>0, Zenon
<1> QED BY <1>0, <1>1, Zenon DEF FileIInv, ReloadOK

LEMMA FileReloadReturn ==
  /\ CollectorIInv /\ FileIInv /\ reload.at \in {"done", "failed"} /\ reload' = NoReload
  /\ UNCHANGED <<svc, file, loaded>>
  /\ faults' = faults \/ faults' = faults + 1
  => FileIInv'
<1> SUFFICES ASSUME CollectorIInv, FileIInv, reload.at \in {"done", "failed"}, reload' = NoReload,
                    UNCHANGED <<svc, file, loaded>>, faults' = faults \/ faults' = faults + 1
             PROVE  FileIInv'
  BY Zenon
<1>1. faults' = 0 => faults = 0
  BY DEF CollectorIInv, ValuesOK
<1> QED BY <1>1, Parties, Zenon DEF FileIInv, ReloadOK

LEMMA FileCallStep ==
  \A c \in Caller :
    CollectorIInv /\ FileIInv /\ CallStep(c) /\ UNCHANGED clientVars => FileIInv'
<1> SUFFICES ASSUME CollectorIInv, FileIInv, NEW c \in Caller, CallStep(c), UNCHANGED clientVars
             PROVE  FileIInv'
  BY Zenon
<1>0. UNCHANGED <<reload, file, rollback, loaded, msg, faults>>
  BY Zenon DEF clientVars
<1>1. \A d \in Caller : d # c => call'[d] = call[d]
  BY Zenon DEF CallStep, RunLock, RunReturn, ShutdownLock, ShutdownWait, ShutdownSend, GetState, Goto, AfterShutdown,
         CollectorIInv, CallsOK
<1>2. svc' = "running" => svc = "running"
  BY Zenon DEF CallStep, RunLock, RunReturn, ShutdownLock, ShutdownWait, ShutdownSend, GetState
<1>3. svc' = "running" /\ reload.by = c => InRun(c)
  <2>1. reload.by = c => call[c].at # "stateLock"
    BY WhatCall, Parties, Zenon DEF CollectorIInv, ControlOK, AsksState
  <2> QED BY <2>1, Zenon DEF CallStep, RunLock, RunReturn, ShutdownLock, ShutdownWait, ShutdownSend, GetState,
                      CollectorIInv, ServiceOK, At, InRun
<1>4. reload.at \in {"restart", "again"} => reload.by \in Caller
  BY Parties, Zenon DEF CollectorIInv, ControlOK
<1> QED BY <1>0, <1>1, <1>2, <1>3, <1>4, FileSame, Zenon DEF InRun

LEMMA FileInit == Init => FileIInv
BY Parties, Zenon DEF Init, ColInit, FileIInv, ReloadOK

LEMMA FileNext == CollectorIInv /\ FileIInv /\ [Next]_vars => FileIInv'
<1> SUFFICES ASSUME CollectorIInv, FileIInv, [Next]_vars PROVE FileIInv'
  BY Zenon
<1>1. CASE UNCHANGED vars
  BY <1>1, FileSame, Zenon DEF vars, colVars, clientVars, InRun
<1>2. CASE Exited
  BY <1>1, <1>2, Zenon DEF Exited
<1>3. CASE MainStep
  <2>1. CASE MainConnect \/ MainSetNop \/ MainDisconnect
    BY <2>1, FileSame, Zenon DEF MainConnect, MainSetNop, MainDisconnect, colVars, InRun
  <2>2. CASE MainReload
    BY <2>2, FileReloadLock, Zenon DEF MainReload
  <2>3. CASE MainStarted
    BY <2>3, FileReloadReturn, Zenon DEF MainStarted, ReloadReturn, AtReload, colVars
  <2>4. CASE MainStop
    <3>1. reload.by # "main" /\ (reload.at \in {"restart", "again"} => reload.by \in Caller) /\ "main" \in Caller
      BY <2>4, Parties, Zenon DEF MainStop, CollectorIInv, ControlOK
    <3>2. \A d \in Caller : d # "main" => call'[d] = call[d]
      BY <2>4, <3>1, Zenon DEF MainStop, Begin, CollectorIInv, CallsOK
    <3> QED BY <2>4, <3>1, <3>2, FileSame, Zenon DEF MainStop, InRun
  <2>5. CASE MainReceive
    BY <2>5, FileSame, Zenon DEF MainReceive, InRun
  <2> QED BY <1>3, <2>1, <2>2, <2>3, <2>4, <2>5, Zenon DEF MainStep
<1>4. CASE CallbackStep
  <2>1. CASE CallbackReload
    BY <2>1, FileReloadLock, Zenon DEF CallbackReload
  <2>2. CASE CallbackReloaded
    BY <2>2, FileReloadReturn, Zenon DEF CallbackReloaded, ReloadReturn, AtReload, SetStatus, Works, Fault, colVars
  <2>3. CASE CallbackHash \/ CallbackReport
    BY <2>3, FileSame, Zenon DEF CallbackHash, CallbackReport, Works, Fault, colVars, InRun
  <2> QED BY <1>4, <2>1, <2>2, <2>3, Zenon DEF CallbackStep
<1>5. CASE WatchStep
  <2>0. UNCHANGED <<svc, watchFrame>>
    BY <1>5, Zenon DEF WatchStep, WatchPoll, WatchState, WatchCheck, WatchSend, WatchStop, colVars
  <2>1. CASE WatchPoll
    <3>1. reload.by # "watch" /\ (reload.at \in {"restart", "again"} => reload.by \in Caller) /\ "watch" \in Caller
      BY Parties, Zenon DEF CollectorIInv, ControlOK
    <3>2. \A d \in Caller : d # "watch" => call'[d] = call[d]
      BY <2>1, <3>1, Zenon DEF WatchPoll, Begin, CollectorIInv, CallsOK
    <3> QED BY <2>0, <3>1, <3>2, FileSame, Zenon DEF watchFrame, InRun
  <2>2. CASE UNCHANGED colVars
    BY <2>0, <2>2, FileSame, Zenon DEF watchFrame, colVars, InRun
  <2> QED BY <1>5, <2>1, <2>2, Zenon DEF WatchStep, WatchState, WatchCheck, WatchSend, WatchStop
<1>6. CASE \E r \in Remote : Message(r)
  <2>1. PICK r \in Remote : Message(r)
    BY <1>6, Zenon
  <2>2. callback = "idle" /\ reload.by # "callback"
    BY <2>1, Zenon DEF Message, CollectorIInv, ControlOK
  <2> QED BY <2>1, <2>2, FileSame, Zenon DEF Message, SetStatus, Works, Fault, colVars, InRun
<1>7. CASE \E c \in {"main", "callback"} : ReloadStep(c)
  BY <1>7, FileReloadWrite, FileReloadRestarted, FileReloadRolledBack, Zenon DEF ReloadStep
<1>8. CASE ServiceLoads
  BY <1>8, Zenon DEF ServiceLoads, ServiceStarts, FileIInv, ReloadOK
<1>9. CASE OtherStep
  <2>1. CASE RunnerSend \/ NotifyRunning \/ \E e \in {"nil", "err"} : ServiceReturns(e)
    BY <1>9, <2>1, FileSame, Zenon DEF OtherStep, clientVars, RunnerSend, NotifyRunning, ServiceReturns, InRun
  <2>2. CASE \E c \in Caller : CallStep(c)
    BY <1>9, <2>2, FileCallStep, Zenon DEF OtherStep
  <2> QED BY <1>9, <2>1, <2>2, Zenon DEF OtherStep
<1> QED BY <1>1, <1>2, <1>3, <1>4, <1>5, <1>6, <1>7, <1>8, <1>9, Zenon DEF Next

LEMMA FileInvariant == Spec => [](CollectorIInv /\ FileIInv)
BY CollectorInit, CollectorNext, FileInit, FileNext, PTL DEF Spec

\* reload undoes a restart that failed: whoever calls it and whatever the service does
\* meanwhile, while the disk has not failed, a reload that is about to return an error
\* leaves the file as it found it.
THEOREM FailedReloadUndone == Spec => []FailedReloadRestoresFile
<1>1. FileIInv => FailedReloadRestoresFile
  BY Zenon DEF FileIInv, ReloadOK, FailedReloadRestoresFile
<1> QED BY <1>1, FileInvariant, PTL

-----------------------------------------------------------------------------
(* The reports *)

Starting == {"start", "connected", "nop", "reload"}

\* What is reported, and what it is compared with, stay as they are.
LEMMA ReportsSame ==
  /\ CollectorIInv /\ ReportIInv
  /\ UNCHANGED <<callback, msg, file, hash, received, status, effective>>
  /\ callback = "reload" => reload'.old = reload.old
  /\ faults' = faults \/ faults' = faults + 1
  /\ main' \in Starting => main \in Starting
  => ReportIInv'
<1> SUFFICES ASSUME CollectorIInv, ReportIInv, UNCHANGED <<callback, msg, file, hash, received, status, effective>>,
                    callback = "reload" => reload'.old = reload.old, faults' = faults \/ faults' = faults + 1,
                    main' \in Starting => main \in Starting
             PROVE  ReportIInv'
  BY Zenon
<1>1. faults' = 0 => faults = 0
  BY DEF CollectorIInv, ValuesOK
<1> QED BY <1>1, Zenon DEF ReportIInv, ReportsOK, Settled, Starting

LEMMA ReportsMain ==
  CollectorIInv /\ ReportIInv /\ MainStep => ReportIInv'
<1> SUFFICES ASSUME CollectorIInv, ReportIInv, MainStep
             PROVE  ReportIInv'
  BY Zenon
<1>1. UNCHANGED <<callback, msg, file, hash, received, status, effective>>
  BY Zenon DEF MainStep, MainConnect, MainSetNop, MainReload, ReloadLock, MainStarted, MainStop, MainDisconnect, MainReceive
<1>2. faults' = faults \/ faults' = faults + 1
  BY Zenon DEF MainStep, MainConnect, MainSetNop, MainReload, ReloadLock, MainStarted, MainStop, MainDisconnect, MainReceive,
         Works, Fault
<1>3. callback = "reload" => reload' = reload
  <2>1. callback = "reload" => reload # NoReload /\ reload.by # "main"
    BY Parties, Zenon DEF CollectorIInv, ControlOK
  <2> QED BY <2>1, Zenon DEF MainStep, MainConnect, MainSetNop, MainReload, ReloadLock, MainStarted, ReloadReturn, AtReload,
                      MainStop, MainDisconnect, MainReceive
<1>4. main' \in Starting => main \in Starting
  BY Zenon DEF MainStep, MainConnect, MainSetNop, MainReload, MainStarted, MainStop, MainDisconnect, MainReceive, Starting
<1> QED BY <1>1, <1>2, <1>3, <1>4, ReportsSame, Zenon

LEMMA ReportsMessage ==
  \A r \in Remote :
    CollectorIInv /\ ReportIInv /\ Message(r) /\ ~EarlyMessage => ReportIInv'
<1> SUFFICES ASSUME CollectorIInv, ReportIInv, NEW r \in Remote, Message(r), ~EarlyMessage
             PROVE  ReportIInv'
  BY Zenon
<1>0. main \notin Starting /\ callback = "idle" /\ UNCHANGED <<main, file, hash, received, effective>>
  BY Zenon DEF Message, Connected, Starting
<1>1. CASE Unchanged(r) /\ SetStatus(r, "APPLIED") /\ UNCHANGED <<msg, callback>>
  <2>1. CASE Fault
    BY <2>1 DEF Fault, ReportIInv, CollectorIInv, ValuesOK
  <2>2. CASE Works /\ status' = <<r, "APPLIED">>
    <3>1. status'[1] = r
      BY <2>2, Zenon
    <3> QED BY <1>0, <1>1, <2>2, <3>1, Zenon DEF ReportIInv, ReportsOK, Settled, Works, Unchanged, Starting
  <2> QED BY <1>1, <2>1, <2>2, Zenon DEF SetStatus
<1>2. CASE msg' = r /\ callback' = "apply" /\ Works /\ UNCHANGED status
  BY <1>0, <1>2, Zenon DEF ReportIInv, ReportsOK, Settled, Works, Starting
<1> QED BY <1>1, <1>2, Zenon DEF Message

LEMMA ReportsCallback ==
  CollectorIInv /\ FileIInv /\ ReportIInv /\ CallbackStep => ReportIInv'
<1> SUFFICES ASSUME CollectorIInv, FileIInv, ReportIInv, CallbackStep
             PROVE  ReportIInv'
  BY Zenon
<1>1. CASE CallbackReload
  <2>0. /\ callback = "apply" /\ callback' = "reload" /\ UNCHANGED <<main, msg, file, hash, received, status, effective>>
        /\ (Works \/ Fault) /\ reload'.old = file
    BY <1>1 DEF CallbackReload, ReloadLock
  <2>1. CASE Fault
    BY <2>1 DEF Fault, ReportIInv, CollectorIInv, ValuesOK
  <2>2. CASE Works
    BY <2>0, <2>2, Zenon DEF ReportIInv, ReportsOK, Settled, Works
  <2> QED BY <2>0, <2>1, <2>2, Zenon
<1>2. CASE CallbackReloaded
  <2>0. /\ reload.by = "callback" /\ callback = "reload" /\ UNCHANGED <<main, msg, file, hash, received, effective>>
    BY <1>2, Zenon DEF CallbackReloaded, ReloadReturn, AtReload, CollectorIInv, ControlOK
  <2>1. CASE Fault
    BY <2>1 DEF Fault, ReportIInv, CollectorIInv, ValuesOK
  <2>2. CASE reload.at = "done" /\ callback' = "hash" /\ Works /\ UNCHANGED status
    BY <2>0, <2>2, Zenon DEF ReportIInv, ReportsOK, FileIInv, ReloadOK, Works
  <2>3. CASE reload.at = "failed" /\ callback' = "idle" /\ Works /\ status' = <<msg, "FAILED">>
    <3>1. status'[2] = "FAILED"
      BY <2>3, Zenon
    <3> QED BY <2>0, <2>3, <3>1, Zenon DEF ReportIInv, ReportsOK, FileIInv, ReloadOK, Settled, Works
  <2> QED BY <1>2, <2>1, <2>2, <2>3, Zenon DEF CallbackReloaded, ReloadReturn, AtReload, SetStatus
<1>3. CASE CallbackHash
  <2>0. callback = "hash" /\ UNCHANGED <<main, msg, file, status, effective>>
    BY <1>3, Zenon DEF CallbackHash
  <2>1. CASE Fault
    BY <2>1 DEF Fault, ReportIInv, CollectorIInv, ValuesOK
  <2>2. CASE Works /\ hash' = file /\ received' = TRUE /\ callback' = "APPLIED"
    BY <2>0, <2>2, Zenon DEF ReportIInv, ReportsOK, Works
  <2> QED BY <1>3, <2>1, <2>2, Zenon DEF CallbackHash
<1>4. CASE CallbackReport
  <2>0. callback \in {"APPLIED", "FAILED"} /\ callback' = "idle" /\ UNCHANGED <<main, msg, file, hash, received>>
    BY <1>4, Zenon DEF CallbackReport
  <2>1. CASE Fault
    BY <2>1 DEF Fault, ReportIInv, CollectorIInv, ValuesOK
  <2>2. CASE Works /\ status' = <<msg, callback>> /\ effective' = EffectiveConfig(FALSE)
    <3>1. status'[1] = msg /\ effective' = file
      BY <2>2, Zenon DEF EffectiveConfig
    <3> QED BY <2>0, <2>2, <3>1, Zenon DEF ReportIInv, ReportsOK, Settled, Works
  <2> QED BY <1>4, <2>1, <2>2, Zenon DEF CallbackReport
<1> QED BY <1>1, <1>2, <1>3, <1>4, Zenon DEF CallbackStep

LEMMA ReportsReload ==
  \A c \in {"main", "callback"} :
    CollectorIInv /\ ReportIInv /\ ReloadStep(c) => ReportIInv'
<1> SUFFICES ASSUME CollectorIInv, ReportIInv, NEW c \in {"main", "callback"}, ReloadStep(c)
             PROVE  ReportIInv'
  BY Zenon
<1>0. /\ UNCHANGED <<main, callback, msg, hash, received, status, effective>> /\ (faults' = faults \/ faults' = faults + 1)
  BY Zenon DEF ReloadStep, ReloadWrite, ReloadRestarted, ReloadRolledBack, Works, Fault
<1>1. /\ reload.by = c /\ reload'.old = reload.old
  <2>1. reload.by = c /\ \E l : reload' = [reload EXCEPT !.at = l]
    BY Zenon DEF ReloadStep, ReloadWrite, ReloadRestarted, ReloadRolledBack, AtReload
  <2>2. reload \in [by : {"main", "callback"}, at : ReloadStage, new : Config, old : Config]
    BY <2>1, Parties, Zenon DEF CollectorIInv, ControlOK
  <2> QED BY <2>1, <2>2, Zenon
<1>2. faults' = 0 => faults = 0
  BY <1>0 DEF CollectorIInv, ValuesOK
<1>3. (c = "main" => main = "reload") /\ (c = "callback" => callback = "reload")
  BY <1>1, Zenon DEF CollectorIInv, ControlOK
<1> QED BY <1>0, <1>1, <1>2, <1>3, Zenon DEF ReportIInv, ReportsOK, Settled

LEMMA ReportsInit == Init => ReportIInv
<1>1. Init => status[2] = "none" /\ received = FALSE /\ callback = "idle"
  BY DEF Init
<1> QED BY <1>1, Zenon DEF ReportIInv, ReportsOK

LEMMA ReportsNext ==
  ~EarlyMessage => (CollectorIInv /\ FileIInv /\ ReportIInv /\ [Next]_vars => ReportIInv')
<1> SUFFICES ASSUME ~EarlyMessage
             PROVE  CollectorIInv /\ FileIInv /\ ReportIInv /\ [Next]_vars => ReportIInv'
  BY Zenon
<1> SUFFICES ASSUME CollectorIInv, FileIInv, ReportIInv, [Next]_vars PROVE ReportIInv'
  BY Zenon
<1>1. CASE UNCHANGED clientVars
  BY <1>1, ReportsSame, Zenon DEF clientVars
<1>2. CASE WatchStep
  <2>1. UNCHANGED watchFrame
    BY <1>2, Zenon DEF WatchStep, WatchPoll, WatchState, WatchCheck, WatchSend, WatchStop
  <2> QED BY <2>1, ReportsSame, Zenon DEF watchFrame
<1>3. CASE ServiceLoads
  BY <1>3, ReportsSame, Zenon DEF ServiceLoads
<1>4. CASE MainStep
  BY <1>4, ReportsMain, Zenon
<1>5. CASE CallbackStep
  BY <1>5, ReportsCallback, Zenon
<1>6. CASE \E r \in Remote : Message(r)
  BY <1>6, ReportsMessage, Zenon
<1>7. CASE \E c \in {"main", "callback"} : ReloadStep(c)
  BY <1>7, ReportsReload, Zenon
<1> QED BY <1>1, <1>2, <1>3, <1>4, <1>5, <1>6, <1>7, Zenon DEF Next, Exited, OtherStep, vars

\* The server is told the truth: if no message arrives before Start's own reload, then,
\* while neither the disk nor a report has failed, between reloads currentHash is the hash of the
\* file, and the configuration reported APPLIED and the effective one are those that a
\* running service has loaded; and a failed reload leaves the file as it was.
THEOREM ConfigurationsAgree ==
  ~EarlyMessage => (Spec => []ConfigAgrees)
<1> SUFFICES ASSUME ~EarlyMessage
             PROVE  Spec => []ConfigAgrees
  BY Zenon
<1>1. CollectorIInv /\ FileIInv /\ ReportIInv => ConfigAgrees
  <2> SUFFICES ASSUME CollectorIInv, FileIInv, ReportIInv PROVE ConfigAgrees
    BY Zenon
  <2>1. FailedReloadRestoresFile
    BY Zenon DEF FileIInv, ReloadOK, FailedReloadRestoresFile
  <2>2. HashIsCurrent
    BY Zenon DEF HashIsCurrent, Quiet, ReportIInv, ReportsOK, Settled
  <2>3. ReportedConfigRuns
    BY Parties, Zenon DEF ReportedConfigRuns, Quiet, ReportIInv, ReportsOK, Settled, FileIInv, ReloadOK
  <2> QED BY <2>1, <2>2, <2>3, Zenon DEF ConfigAgrees
<1> QED BY <1>1, CollectorInit, CollectorNext, FileInit, FileNext, ReportsInit, ReportsNext, PTL DEF Spec
=============================================================================
