------------------------------- MODULE Server -------------------------------
(***************************************************************************)
(* The process: it loads its configuration, connects to the device, serves *)
(* on HTTP or stdio, and stops on a signal (main.go and server.go).        *)
(* On HTTP a stop drains the calls in flight for shutdownTimeout and then  *)
(* cuts them off.  Time is in ticks, the length of a device request: a     *)
(* call takes a number of them, or is a stream that ends only with its     *)
(* client.  What a call does is the other modules'.                        *)
(***************************************************************************)
EXTENDS Config, Integers

CONSTANTS
    Calls,              \* connections, with one call each
    Envs,               \* the environments the process can be started in
    shutdownTimeout,    \* ticks of draining
    MaxRequests,        \* how many requests the longest call makes
    Stream              \* the length of a call that does not end

ASSUME StreamAssumption == Stream \notin Nat
ASSUME TimeAssumption == shutdownTimeout \in Nat /\ MaxRequests \in Nat

VARIABLES
    env,        \* the environment
    cfg,        \* what LoadConfig has made of it
    phase,      \* where the main goroutine is
    status,     \* its exit status
    signalled,  \* SIGINT or SIGTERM has come: ctx is done
    failed,     \* Serve has put an error into errCh, or stdin has ended
    clock,      \* ticks of draining left
    calls,      \* the calls
    owed        \* the calls the drain is long enough for

vars == <<env, cfg, phase, status, signalled, failed, clock, calls, owed>>

Idle == [state |-> "idle", left |-> 0, writes |-> FALSE, token |-> FALSE, landed |-> 0]
Lengths == 1..MaxRequests \cup {Stream}
CallStates == {"idle", "open", "answered", "denied", "cut"}
Open == {c \in Calls : calls[c].state = "open"}

TypeOK ==
    /\ phase \in {"loading", "connecting", "serving", "draining", "exited"}
    /\ cfg = NoConfig <=> phase = "loading" \/ (phase = "exited" /\ ~configOK(env))
    /\ status \in {0, 1}
    /\ signalled \in BOOLEAN /\ failed \in BOOLEAN
    /\ clock \in 0..shutdownTimeout
    /\ \A c \in Calls :
        /\ calls[c].state \in CallStates
        /\ calls[c].left \in Lengths \cup {0}
        /\ calls[c].landed \in 0..MaxRequests
    /\ owed \subseteq Calls
    /\ Open # {} => phase \in {"serving", "draining"}

Init ==
    /\ env \in Envs
    /\ cfg = NoConfig
    /\ phase = "loading"
    /\ status = 0
    /\ signalled = FALSE
    /\ failed = FALSE
    /\ clock = 0
    /\ calls = [c \in Calls |-> Idle]
    /\ owed = {}

(* The end of the process ends what is still open; a request that has left *)
(* may still land.                                                         *)
Exit(code) ==
    /\ phase' = "exited"
    /\ status' = code
    /\ calls' = [c \in Calls |->
        IF c \in Open THEN [calls[c] EXCEPT !.state = "cut"] ELSE calls[c]]
    /\ UNCHANGED <<env, signalled, failed, clock, owed>>

-----------------------------------------------------------------------------
Load ==
    /\ phase = "loading"
    /\ cfg' = LoadConfig(env)
    /\ IF configOK(env)
       THEN phase' = "connecting" /\ UNCHANGED <<env, status, signalled, failed, clock, calls, owed>>
       ELSE Exit(1)

(* signal.NotifyContext, installed once the configuration is loaded.       *)
Signal ==
    /\ phase \in {"connecting", "serving"}
    /\ ~signalled
    /\ signalled' = TRUE
    /\ UNCHANGED <<env, cfg, phase, status, failed, clock, calls, owed>>

(* The client, its CA read again, the device's answers, and the listener.  *)
Connect ==
    /\ phase = "connecting"
    /\ phase' = "serving"
    /\ UNCHANGED <<env, cfg, status, signalled, failed, clock, calls, owed>>
ConnectFails ==
    /\ phase = "connecting"
    /\ Exit(1)
    /\ UNCHANGED cfg

-----------------------------------------------------------------------------
(* requireBearer, where a token is configured.                             *)
Admitted(token) == cfg.transport = "stdio" \/ ~cfg.http_token \/ token

(* A tool that writes is there only if the configuration allows it.        *)
HasTool(writes) == writes => ~cfg.read_only

Call(c, length, writes, token) ==
    /\ phase = "serving"
    /\ calls[c] = Idle
    /\ calls' = [calls EXCEPT ![c] =
        [state  |-> IF ~Admitted(token) THEN "denied"
                    ELSE IF HasTool(writes) THEN "open" ELSE "answered",
         left   |-> IF Admitted(token) /\ HasTool(writes) THEN length ELSE 0,
         writes |-> writes, token |-> token, landed |-> 0]]
    /\ UNCHANGED <<env, cfg, phase, status, signalled, failed, clock, owed>>

(* Mutant: the deadline is no deadline.                                    *)
TickOn ==
    /\ Open # {}
    /\ \A c \in Open : calls[c].left # 0
    /\ calls' = [c \in Calls |->
        IF c \in Open /\ calls[c].left # Stream
        THEN [calls[c] EXCEPT !.left = @ - 1] ELSE calls[c]]
    /\ clock' = IF phase = "draining" THEN clock - 1 ELSE clock
    /\ UNCHANGED <<env, cfg, phase, status, signalled, failed, owed>>

(* One more request of each call is done: time passes, for the drain too.  *)
Tick ==
    /\ Open # {}
    /\ \A c \in Open : calls[c].left # 0
    /\ phase = "draining" => clock > 0
    /\ \E c \in Open : calls[c].left # Stream \/ clock > 0
    /\ calls' = [c \in Calls |->
        IF c \in Open /\ calls[c].left # Stream
        THEN [calls[c] EXCEPT !.left = @ - 1,
                              !.landed = IF calls[c].writes THEN @ + 1 ELSE @]
        ELSE calls[c]]
    /\ clock' = IF phase = "draining" THEN clock - 1 ELSE clock
    /\ UNCHANGED <<env, cfg, phase, status, signalled, failed, owed>>

Answer(c) ==
    /\ c \in Open
    /\ calls[c].left = 0
    /\ calls' = [calls EXCEPT ![c].state = "answered"]
    /\ UNCHANGED <<env, cfg, phase, status, signalled, failed, clock, owed>>

(* The client of a stream goes away.                                       *)
HangUp(c) ==
    /\ c \in Open
    /\ calls[c].left = Stream
    /\ calls' = [calls EXCEPT ![c].state = "answered"]
    /\ UNCHANGED <<env, cfg, phase, status, signalled, failed, clock, owed>>

-----------------------------------------------------------------------------
ServeFails ==
    /\ phase = "serving"
    /\ ~failed
    /\ failed' = TRUE
    /\ UNCHANGED <<env, cfg, phase, status, signalled, clock, calls, owed>>

(* select on errCh.  On stdio the session's end, which is no error.        *)
ServeEnds ==
    /\ phase = "serving"
    /\ failed
    /\ IF cfg.transport = "http" THEN Exit(1) ELSE Exit(0)
    /\ UNCHANGED cfg

(* On stdio a signal ends Run, with ctx's error.                           *)
StdioStops ==
    /\ phase = "serving"
    /\ cfg.transport = "stdio"
    /\ signalled
    /\ Exit(1)
    /\ UNCHANGED cfg

(* Mutant: the deadline is derived from the context that is done.          *)
ShutdownExpired ==
    /\ phase = "serving"
    /\ cfg.transport = "http"
    /\ signalled
    /\ phase' = "draining"
    /\ clock' = 0
    /\ owed' = {c \in Open : calls[c].left \in 0..(shutdownTimeout - 1)}
    /\ UNCHANGED <<env, cfg, status, signalled, failed, calls>>

(* select on ctx.Done: srv.Shutdown, with a deadline of its own.           *)
Shutdown ==
    /\ phase = "serving"
    /\ cfg.transport = "http"
    /\ signalled
    /\ phase' = "draining"
    /\ clock' = shutdownTimeout
    /\ owed' = {c \in Open : calls[c].left \in 0..(shutdownTimeout - 1)}
    /\ UNCHANGED <<env, cfg, status, signalled, failed, calls>>

Drained ==
    /\ phase = "draining"
    /\ Open = {}
    /\ Exit(0)
    /\ UNCHANGED cfg

(* Mutant: Shutdown's error ends the wait, and nothing closes the rest.    *)
NoClose ==
    /\ phase = "draining"
    /\ Open = {}
    /\ clock = 0
    /\ Exit(0)
    /\ UNCHANGED cfg

(* The drain has run out: srv.Close, and the status is zero all the same.  *)
Close ==
    /\ phase = "draining"
    /\ Open # {}
    /\ clock = 0
    /\ Exit(0)
    /\ UNCHANGED cfg

Next ==
    \/ Load \/ Signal \/ Connect \/ ConnectFails
    \/ \E c \in Calls :
        \/ \E length \in Lengths, writes, token \in BOOLEAN : Call(c, length, writes, token)
        \/ Answer(c) \/ HangUp(c)
    \/ Tick \/ ServeFails \/ ServeEnds
    \/ StdioStops \/ Shutdown \/ Drained \/ Close

Spec == Init /\ [][Next]_vars

(* The main goroutine goes on, time passes and handlers answer; nothing    *)
(* makes a client hang up.  A connect whose context is done returns.       *)
FairSpec ==
    /\ Spec
    /\ WF_vars(Load) /\ WF_vars(Connect \/ ConnectFails)
    /\ WF_vars(ServeEnds) /\ WF_vars(StdioStops)
    /\ WF_vars(Shutdown) /\ WF_vars(Drained) /\ WF_vars(Close)
    /\ WF_vars(Tick) /\ \A c \in Calls : WF_vars(Answer(c))

-----------------------------------------------------------------------------
(* Nothing is written to the device unless PANOS_ALLOW_WRITES=true, with   *)
(* no PANOS_READ_ONLY beside it, whichever calls come in (readOnlyFromEnv, *)
(* newDeps and the registration of the tools).                             *)
WritesOptIn ==
    (\E c \in Calls : calls[c].landed > 0) =>
        env.allow_writes = "true" /\ ~isSet(env.read_only)

(* A call without the token gets past the door on HTTP only where none is  *)
(* configured, and then the server is bound to a loopback address          *)
(* (validateTLSAndAuth, newHTTPHandler, requireBearer).                    *)
OpenOnlyLocally ==
    \A c \in Calls :
        /\ calls[c].state \in {"open", "answered", "cut"}
        /\ ~calls[c].token /\ transport(env) = "http"
        => ~isSet(env.http_token) /\ isLoopback(env)

(* A requested shutdown ends with status zero, streams or not, and cuts no *)
(* call short that the drain was long enough for: a rule whose move fits   *)
(* into it is not left unmoved (serveHTTPOnListener).                      *)
ShutdownIsClean == [][
    phase = "draining" /\ phase' = "exited" =>
        status' = 0 /\ \A c \in owed : calls'[c].state = "answered"]_vars

(* A signalled process exits, whatever streams its clients keep open and   *)
(* however long its calls wait for jobs (serveHTTPOnListener).             *)
Exits == signalled ~> phase = "exited"
=============================================================================
