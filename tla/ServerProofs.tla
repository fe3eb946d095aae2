----------------------------- MODULE ServerProofs -----------------------------
(***************************************************************************)
(* Theorems about Server, for every set of environments the process can be *)
(* started in, however many calls come in, however long they are and       *)
(* whatever the drain's timeout; and about Scopes, for every family: which *)
(* calls the process lets in, and where they work.                         *)
(*                                                                         *)
(* ServerInv is inductive: the configuration in use is the environment's,  *)
(* every call was let in by it, a call makes no more requests than its     *)
(* length, and a drain has time left for each call it owes an answer.      *)
(***************************************************************************)
EXTENDS Server, Scopes, TLAPS

CallRecords ==
    [state : CallStates, left : Lengths \cup {0}, writes : BOOLEAN, token : BOOLEAN,
     landed : 0..MaxRequests]

Shapes ==
    /\ phase \in {"loading", "connecting", "serving", "draining", "exited"}
    /\ status \in {0, 1}
    /\ signalled \in BOOLEAN /\ failed \in BOOLEAN
    /\ clock \in 0..shutdownTimeout
    /\ calls \in [Calls -> CallRecords]
    /\ owed \subseteq Calls
    /\ Open # {} => phase \in {"serving", "draining"}

(* Past loading, the configuration is the environment's, and is good       *)
(* unless the process has exited with it.                                  *)
ConfigInv ==
    /\ cfg = IF phase = "loading" THEN NoConfig ELSE LoadConfig(env)
    /\ phase \in {"connecting", "serving", "draining"} => configOK(env)

(* What has come of a call.                                                *)
CallInv(c) ==
    /\ calls[c].state # "idle" => configOK(env) /\ phase # "loading"
    /\ calls[c].state \in {"open", "answered", "cut"} => Admitted(calls[c].token)
    /\ calls[c].state = "open" => HasTool(calls[c].writes)
    /\ calls[c].landed > 0 =>
        calls[c].state # "idle" /\ calls[c].writes /\ HasTool(calls[c].writes)
    /\ calls[c].left = Stream => calls[c].landed = 0
    /\ calls[c].left # Stream => calls[c].left + calls[c].landed <= MaxRequests

(* Each owed call is answered, or has fewer requests left than the drain   *)
(* has ticks.                                                              *)
DrainInv ==
    phase = "draining" =>
        \A c \in owed :
            \/ calls[c].state = "answered"
            \/ calls[c].state = "open" /\ calls[c].left \in 0..(clock - 1)

ServerInv == Shapes /\ ConfigInv /\ (\A c \in Calls : CallInv(c)) /\ DrainInv
-----------------------------------------------------------------------------
(* The configuration.                                                      *)

LEMMA FlagFacts ==
    ASSUME NEW e
    PROVE  /\ readOnlyFromEnv(e) \in BOOLEAN
           /\ \A x : isSet(x) \in BOOLEAN
BY DEF readOnlyFromEnv, isSet

(* What a configuration that is good has of its environment.               *)
LEMMA GoodConfig ==
    ASSUME NEW e, configOK(e)
    PROVE  /\ LoadConfig(e) # NoConfig
           /\ LoadConfig(e).read_only = readOnlyFromEnv(e)
           /\ LoadConfig(e).transport = transport(e)
           /\ LoadConfig(e).http_token = isSet(e.http_token)
<1> DEFINE flag == readOnlyFromEnv(e)
           token == isSet(e.http_token)
           ca == isSet(e.ca_cert)
<1>1. LoadConfig(e) = [read_only |-> flag, transport |-> transport(e),
                       http_token |-> token, has_ca |-> ca]
    BY DEF LoadConfig
<1>2. flag \in BOOLEAN /\ token \in BOOLEAN /\ ca \in BOOLEAN
    BY FlagFacts
<1>3. transport(e) \in {"stdio", "http"}
    BY DEF configOK
<1> HIDE DEF flag, token, ca
<1>4. LoadConfig(e) \in Configs
    BY <1>1, <1>2, <1>3 DEF Configs
<1>5. LoadConfig(e) # NoConfig
    BY <1>4, NoConfigAssumption
<1>6. /\ LoadConfig(e).read_only = flag /\ LoadConfig(e).transport = transport(e)
      /\ LoadConfig(e).http_token = token
    BY <1>1
<1> QED
    BY <1>5, <1>6 DEF flag, token

LEMMA BadConfig ==
    ASSUME NEW e, ~configOK(e)
    PROVE  LoadConfig(e) = NoConfig
BY DEF LoadConfig

(* What the configuration lets in, in terms of the environment.            *)
LEMMA LetIn ==
    ASSUME configOK(env), cfg = LoadConfig(env)
    PROVE  /\ HasTool(TRUE) => env.allow_writes = "true" /\ ~isSet(env.read_only)
           /\ Admitted(FALSE) /\ transport(env) = "http" =>
                ~isSet(env.http_token) /\ isLoopback(env)
<1>1. /\ cfg.read_only = readOnlyFromEnv(env)
      /\ cfg.transport = transport(env)
      /\ cfg.http_token = isSet(env.http_token)
    BY GoodConfig
<1>2. HasTool(TRUE) => ~readOnlyFromEnv(env)
    BY <1>1 DEF HasTool
<1>3. Admitted(FALSE) /\ transport(env) = "http" => ~isSet(env.http_token)
    BY <1>1 DEF Admitted
<1> QED
    BY <1>2, <1>3 DEF configOK, readOnlyOK, readOnlyFromEnv, validateTLSAndAuth

-----------------------------------------------------------------------------
(* The invariant is kept.                                                  *)

LEMMA ServerInvInit == Init => ServerInv
<1> SUFFICES ASSUME Init PROVE ServerInv
    OBVIOUS
<1>1. \A c \in Calls : calls[c] = Idle
    BY DEF Init
<1>2. Idle \in CallRecords
    BY TimeAssumption DEF Idle, CallRecords, CallStates
<1>3. Shapes
    <2>1. calls \in [Calls -> CallRecords]
        BY <1>2 DEF Init
    <2>2. Open = {}
        BY <1>1 DEF Open, Idle
    <2>3. signalled \in BOOLEAN /\ failed \in BOOLEAN
        BY DEF Init
    <2>4. 0 \in 0..shutdownTimeout
        BY TimeAssumption
    <2> QED
        BY <2>1, <2>2, <2>3, <2>4 DEF Init, Shapes
<1>4. ConfigInv /\ DrainInv
    BY DEF Init, ConfigInv, DrainInv
<1>5. ASSUME NEW c \in Calls PROVE CallInv(c)
    BY <1>1, StreamAssumption, TimeAssumption DEF CallInv, Idle
<1> QED
    BY <1>3, <1>4, <1>5 DEF ServerInv

(* The end of the process, past loading.                                   *)
LEMMA ExitKeeps ==
    ASSUME ServerInv, phase # "loading", NEW code \in {0, 1}, Exit(code), cfg' = cfg
    PROVE  ServerInv'
<1>1. ASSUME NEW c \in Calls
      PROVE  calls'[c] = IF calls[c].state = "open"
                         THEN [calls[c] EXCEPT !.state = "cut"] ELSE calls[c]
    BY DEF Exit, Open
<1>2. ASSUME NEW c \in Calls
      PROVE  /\ calls'[c] \in CallRecords
             /\ calls'[c].state = IF calls[c].state = "open" THEN "cut" ELSE calls[c].state
             /\ calls'[c].left = calls[c].left /\ calls'[c].writes = calls[c].writes
             /\ calls'[c].token = calls[c].token /\ calls'[c].landed = calls[c].landed
    BY <1>1 DEF ServerInv, Shapes, CallRecords, CallStates
<1>3. calls' \in [Calls -> CallRecords]
    BY <1>2 DEF Exit
<1>4. Shapes'
    BY <1>2, <1>3 DEF ServerInv, Shapes, Exit, Open
<1>5. ConfigInv' /\ DrainInv'
    BY DEF ServerInv, ConfigInv, DrainInv, Exit
<1>6. ASSUME NEW c \in Calls PROVE CallInv(c)'
    BY <1>2 DEF ServerInv, CallInv, Exit, Admitted, HasTool
<1> QED
    BY <1>4, <1>5, <1>6 DEF ServerInv

(* An open call ends with an answer.                                       *)
LEMMA AnsweredKeeps ==
    ASSUME ServerInv, NEW c \in Open, calls' = [calls EXCEPT ![c].state = "answered"],
           UNCHANGED <<env, cfg, phase, status, signalled, failed, clock, owed>>
    PROVE  ServerInv'
<1>1. c \in Calls /\ calls[c].state = "open"
    BY DEF Open
<1>2. ASSUME NEW d \in Calls
      PROVE  /\ calls'[d] \in CallRecords
             /\ calls'[d].state = IF d = c THEN "answered" ELSE calls[d].state
             /\ calls'[d].left = calls[d].left /\ calls'[d].writes = calls[d].writes
             /\ calls'[d].token = calls[d].token /\ calls'[d].landed = calls[d].landed
    BY <1>1 DEF ServerInv, Shapes, CallRecords, CallStates
<1>3. calls' \in [Calls -> CallRecords]
    BY <1>2 DEF ServerInv, Shapes
<1>4. Shapes'
    BY <1>1, <1>2, <1>3 DEF ServerInv, Shapes, Open
<1>5. ConfigInv' /\ DrainInv'
    BY <1>2 DEF ServerInv, Shapes, ConfigInv, DrainInv
<1>6. ASSUME NEW d \in Calls PROVE CallInv(d)'
    BY <1>1, <1>2 DEF ServerInv, CallInv, Admitted, HasTool
<1> QED
    BY <1>4, <1>5, <1>6 DEF ServerInv

(* A call comes in.                                                        *)
LEMMA CallKeeps ==
    ASSUME ServerInv, NEW c \in Calls, NEW length \in Lengths, NEW writes \in BOOLEAN,
           NEW token \in BOOLEAN, Call(c, length, writes, token)
    PROVE  ServerInv'
<1> DEFINE state == IF ~Admitted(token) THEN "denied"
                    ELSE IF HasTool(writes) THEN "open" ELSE "answered"
           left == IF Admitted(token) /\ HasTool(writes) THEN length ELSE 0
           new == [state |-> state, left |-> left, writes |-> writes, token |-> token,
                   landed |-> 0]
<1>1. state \in CallStates \ {"idle"} /\ left \in Lengths \cup {0}
    BY DEF CallStates
<1>2. /\ state \in {"open", "answered", "cut"} => Admitted(token)
      /\ state = "open" => HasTool(writes)
    OBVIOUS
<1>3. calls' = [calls EXCEPT ![c] = new] /\ phase = "serving"
      /\ UNCHANGED <<env, cfg, phase, status, signalled, failed, clock, owed>>
    BY DEF Call
<1> HIDE DEF state, left
<1>4. /\ new \in CallRecords
      /\ new.state = state /\ new.left = left /\ new.writes = writes
      /\ new.token = token /\ new.landed = 0
    BY <1>1, TimeAssumption DEF CallRecords
<1> HIDE DEF new
<1>5. ASSUME NEW d \in Calls
      PROVE  calls'[d] = IF d = c THEN new ELSE calls[d]
    BY <1>3 DEF ServerInv, Shapes
<1>6. Shapes'
    BY <1>3, <1>4 DEF ServerInv, Shapes, Open
<1>7. ConfigInv' /\ DrainInv'
    BY <1>3 DEF ServerInv, ConfigInv, DrainInv
<1>8. configOK(env) /\ configOK(env')
    BY <1>3 DEF ServerInv, ConfigInv
<1>9. left # Stream => left \in 0..MaxRequests
    BY <1>1, TimeAssumption DEF Lengths
<1>10. CallInv(c)'
    BY <1>1, <1>2, <1>3, <1>4, <1>5, <1>8, <1>9, TimeAssumption
    DEF CallInv, Admitted, HasTool
<1>11. ASSUME NEW d \in Calls, d # c PROVE CallInv(d)'
    BY <1>3, <1>5, <1>11 DEF ServerInv, CallInv, Admitted, HasTool
<1> QED
    BY <1>6, <1>7, <1>10, <1>11 DEF ServerInv

(* Time passes: each open call that ends has one request less to make.     *)
LEMMA TickKeeps ==
    ASSUME ServerInv, Tick
    PROVE  ServerInv'
<1>1. ASSUME NEW c \in Calls, c \notin Open \/ calls[c].left = Stream
      PROVE  calls'[c] = calls[c]
    BY <1>1 DEF Tick
<1>2. ASSUME NEW c \in Open, calls[c].left # Stream
      PROVE  /\ c \in Calls
             /\ calls'[c] \in CallRecords
             /\ calls[c].left \in 1..MaxRequests
             /\ calls'[c].left = calls[c].left - 1
             /\ calls'[c].state = "open" /\ calls'[c].writes = calls[c].writes
             /\ calls'[c].token = calls[c].token
             /\ calls'[c].landed =
                    IF calls[c].writes THEN calls[c].landed + 1 ELSE calls[c].landed
    <2>1. c \in Calls /\ calls[c].state = "open" /\ calls[c] \in CallRecords
        BY DEF Open, ServerInv, Shapes
    <2>2. calls[c].left \in 1..MaxRequests
        BY <1>2, <2>1, TimeAssumption DEF Tick, CallRecords, Lengths
    <2>3. calls[c].left + calls[c].landed <= MaxRequests /\ calls[c].landed \in 0..MaxRequests
        BY <1>2, <2>1 DEF ServerInv, CallInv, CallRecords
    <2> DEFINE landed == IF calls[c].writes THEN calls[c].landed + 1 ELSE calls[c].landed
               new == [calls[c] EXCEPT !.left = @ - 1, !.landed = landed]
    <2>4. calls'[c] = new
        BY <1>2, <2>1 DEF Tick
    <2>5. landed \in 0..MaxRequests
        BY <2>2, <2>3, TimeAssumption
    <2> HIDE DEF landed
    <2>6. /\ new.left = calls[c].left - 1 /\ new.state = calls[c].state
          /\ new.writes = calls[c].writes /\ new.token = calls[c].token
          /\ new.landed = landed
        BY <2>1 DEF CallRecords
    <2>7. calls[c].left - 1 \in Lengths \cup {0}
        BY <2>2, TimeAssumption DEF Lengths
    <2>8. new \in CallRecords
        BY <2>1, <2>5, <2>7 DEF CallRecords
    <2> HIDE DEF new
    <2> QED
        BY <2>1, <2>2, <2>4, <2>6, <2>8 DEF landed
<1>3. calls' \in [Calls -> CallRecords]
    <2>1. ASSUME NEW c \in Calls PROVE calls'[c] \in CallRecords
        BY <1>1, <1>2 DEF ServerInv, Shapes
    <2> QED
        BY <2>1 DEF Tick
<1>4. /\ UNCHANGED <<env, cfg, phase, status, signalled, failed, owed>>
      /\ clock' = IF phase = "draining" THEN clock - 1 ELSE clock
      /\ phase = "draining" => clock > 0
    BY DEF Tick
<1>5. ASSUME NEW c \in Calls PROVE calls'[c].state = calls[c].state
    BY <1>1, <1>2 DEF Open
<1>6. Shapes'
    BY <1>3, <1>4, <1>5, TimeAssumption DEF ServerInv, Shapes, Open
<1>7. ConfigInv'
    BY <1>4 DEF ServerInv, ConfigInv
<1>8. ASSUME NEW c \in Calls PROVE CallInv(c)'
    <2>1. CASE c \notin Open \/ calls[c].left = Stream
        BY <1>1, <1>4, <2>1 DEF ServerInv, CallInv, Admitted, HasTool
    <2>2. CASE c \in Open /\ calls[c].left # Stream
        <3>1. /\ calls[c].left + calls[c].landed <= MaxRequests
              /\ calls[c].landed \in 0..MaxRequests /\ calls[c].left \in 1..MaxRequests
            BY <1>2, <2>2 DEF ServerInv, CallInv, Shapes, CallRecords
        <3>2. calls'[c].left # Stream /\ calls'[c].left + calls'[c].landed <= MaxRequests
            BY <1>2, <2>2, <3>1, StreamAssumption, TimeAssumption
        <3>3. calls[c].state = "open" /\ CallInv(c)
            BY <2>2 DEF ServerInv, Open
        <3> QED
            BY <1>2, <1>4, <2>2, <3>1, <3>2, <3>3 DEF CallInv, Admitted, HasTool
    <2> QED
        BY <2>1, <2>2
<1>9. DrainInv'
    <2> SUFFICES ASSUME phase = "draining", NEW c \in owed
                 PROVE  \/ calls'[c].state = "answered"
                        \/ calls'[c].state = "open" /\ calls'[c].left \in 0..(clock - 2)
        BY <1>4 DEF DrainInv, ServerInv, Shapes
    <2>1. c \in Calls
        BY DEF ServerInv, Shapes
    <2>2. CASE calls[c].state = "answered"
        BY <1>5, <2>1, <2>2
    <2>3. CASE calls[c].state = "open" /\ calls[c].left \in 0..(clock - 1)
        <3>1. c \in Open /\ calls[c].left # Stream
            BY <2>1, <2>3, StreamAssumption DEF Open
        <3>2. clock \in Nat
            BY TimeAssumption DEF ServerInv, Shapes
        <3> QED
            BY <1>2, <2>3, <3>1, <3>2, TimeAssumption
    <2> QED
        BY <2>2, <2>3 DEF ServerInv, DrainInv
<1> QED
    BY <1>6, <1>7, <1>8, <1>9 DEF ServerInv

LEMMA ServerInvNext == ServerInv /\ [Next]_vars => ServerInv'
<1> SUFFICES ASSUME ServerInv, [Next]_vars PROVE ServerInv'
    OBVIOUS
<1>1. CASE Load
    <2>1. \A c \in Calls : calls[c].state = "idle" /\ ~(calls[c].landed > 0)
        BY <1>1 DEF Load, ServerInv, CallInv
    <2>2. Open = {}
        BY <2>1 DEF Open
    <2>3. calls' = calls /\ UNCHANGED <<env, signalled, failed, clock, owed>>
          /\ cfg' = LoadConfig(env) /\ status' \in {0, 1}
          /\ phase' = IF configOK(env) THEN "connecting" ELSE "exited"
        BY <1>1, <2>2 DEF Load, Exit, ServerInv, Shapes
    <2>4. Shapes' /\ ConfigInv' /\ DrainInv'
        BY <2>2, <2>3 DEF ServerInv, Shapes, ConfigInv, DrainInv, Open
    <2>5. ASSUME NEW c \in Calls PROVE CallInv(c)'
        BY <2>1, <2>3 DEF ServerInv, CallInv
    <2> QED
        BY <2>4, <2>5 DEF ServerInv
<1>2. CASE Signal \/ Connect \/ ServeFails
    <2>1. /\ UNCHANGED <<env, cfg, status, clock, calls, owed>>
          /\ signalled' \in BOOLEAN /\ failed' \in BOOLEAN
          /\ phase' = phase \/ (phase = "connecting" /\ phase' = "serving")
        BY <1>2 DEF Signal, Connect, ServeFails, ServerInv, Shapes
    <2>2. Shapes' /\ ConfigInv' /\ DrainInv'
        BY <2>1 DEF ServerInv, Shapes, ConfigInv, DrainInv, Open
    <2>3. ASSUME NEW c \in Calls PROVE CallInv(c)'
        BY <2>1 DEF ServerInv, CallInv, Admitted, HasTool
    <2> QED
        BY <2>2, <2>3 DEF ServerInv
<1>3. CASE ConnectFails \/ ServeEnds \/ StdioStops \/ Drained \/ Close
    <2>1. /\ phase # "loading" /\ cfg' = cfg
          /\ \E code \in {0, 1} : Exit(code)
        BY <1>3 DEF ConnectFails, ServeEnds, StdioStops, Drained, Close
    <2> QED
        BY <2>1, ExitKeeps
<1>4. ASSUME NEW c \in Calls, NEW length \in Lengths, NEW writes \in BOOLEAN,
             NEW token \in BOOLEAN, Call(c, length, writes, token)
      PROVE  ServerInv'
    BY <1>4, CallKeeps
<1>5. ASSUME NEW c \in Calls, Answer(c) \/ HangUp(c)
      PROVE  ServerInv'
    BY <1>5, AnsweredKeeps DEF Answer, HangUp
<1>6. CASE Tick
    BY <1>6, TickKeeps
<1>7. CASE Shutdown
    <2>1. /\ UNCHANGED <<env, cfg, status, signalled, failed, calls>>
          /\ phase = "serving" /\ phase' = "draining" /\ clock' = shutdownTimeout
          /\ owed' = {c \in Open : calls[c].left \in 0..(shutdownTimeout - 1)}
        BY <1>7 DEF Shutdown
    <2>2. Shapes'
        BY <2>1, TimeAssumption DEF ServerInv, Shapes, Open
    <2>3. ConfigInv' /\ DrainInv'
        BY <2>1 DEF ServerInv, ConfigInv, DrainInv, Open
    <2>4. ASSUME NEW c \in Calls PROVE CallInv(c)'
        BY <2>1 DEF ServerInv, CallInv, Admitted, HasTool
    <2> QED
        BY <2>2, <2>3, <2>4 DEF ServerInv
<1>8. CASE UNCHANGED vars
    BY <1>8 DEF vars, ServerInv, Shapes, ConfigInv, CallInv, DrainInv, Open, Admitted, HasTool
<1> QED
    BY <1>1, <1>2, <1>3, <1>4, <1>5, <1>6, <1>7, <1>8 DEF Next

LEMMA ServerInvHolds == Spec => []ServerInv
BY ServerInvInit, ServerInvNext, PTL DEF Spec

-----------------------------------------------------------------------------
(* TypeOK: no call is open outside of serving and draining, a call lands   *)
(* no more requests than the longest one makes, and the configuration is   *)
(* missing exactly while it loads or where it was refused.                 *)
THEOREM TypesHold == Spec => []TypeOK
<1>1. ServerInv => TypeOK
    <2> SUFFICES ASSUME ServerInv PROVE TypeOK
        OBVIOUS
    <2>1. cfg = NoConfig <=> phase = "loading" \/ (phase = "exited" /\ ~configOK(env))
        BY GoodConfig, BadConfig DEF ServerInv, ConfigInv, Shapes
    <2> QED
        BY <2>1 DEF ServerInv, Shapes, CallRecords, TypeOK
<1> QED
    BY <1>1, ServerInvHolds, PTL

(* WritesOptIn: whatever the environment, no call writes to the device     *)
(* unless PANOS_ALLOW_WRITES=true with no PANOS_READ_ONLY beside it.       *)
THEOREM WritesAreOptIn == Spec => []WritesOptIn
<1>1. ServerInv => WritesOptIn
    <2> SUFFICES ASSUME ServerInv, NEW c \in Calls, calls[c].landed > 0
                 PROVE  env.allow_writes = "true" /\ ~isSet(env.read_only)
        BY DEF WritesOptIn
    <2>1. configOK(env) /\ phase # "loading" /\ HasTool(TRUE)
        BY DEF ServerInv, CallInv, HasTool
    <2>2. cfg = LoadConfig(env)
        BY <2>1 DEF ServerInv, ConfigInv
    <2> QED
        BY <2>1, <2>2, LetIn
<1> QED
    BY <1>1, ServerInvHolds, PTL

(* OpenOnlyLocally: whatever the environment, a call without the token is  *)
(* let in on HTTP only where none is configured, on a loopback address.    *)
THEOREM DoorIsShut == Spec => []OpenOnlyLocally
<1>1. ServerInv => OpenOnlyLocally
    <2> SUFFICES ASSUME ServerInv, NEW c \in Calls,
                        calls[c].state \in {"open", "answered", "cut"},
                        ~calls[c].token, transport(env) = "http"
                 PROVE  ~isSet(env.http_token) /\ isLoopback(env)
        BY DEF OpenOnlyLocally
    <2>1. configOK(env) /\ phase # "loading" /\ Admitted(FALSE)
        BY DEF ServerInv, CallInv, Admitted
    <2>2. cfg = LoadConfig(env)
        BY <2>1 DEF ServerInv, ConfigInv
    <2> QED
        BY <2>1, <2>2, LetIn
<1> QED
    BY <1>1, ServerInvHolds, PTL

(* ShutdownIsClean: whatever the timeout, the calls and their lengths, a   *)
(* shutdown ends with status zero and has answered every call the drain    *)
(* was long enough for.                                                    *)
THEOREM ShutdownsAreClean == Spec => ShutdownIsClean
<1> DEFINE Clean == phase = "draining" /\ phase' = "exited" =>
                        status' = 0 /\ \A c \in owed : calls'[c].state = "answered"
<1>1. ServerInv /\ [Next]_vars => [Clean]_vars
    <2> SUFFICES ASSUME ServerInv, Next, phase = "draining", phase' = "exited"
                 PROVE  status' = 0 /\ \A c \in owed : calls'[c].state = "answered"
        OBVIOUS
    <2>1. (Drained \/ Close) /\ Exit(0)
        BY DEF Next, Load, Signal, Connect, ConnectFails, Call, Answer, HangUp, Tick,
               ServeFails, ServeEnds, StdioStops, Shutdown, Drained, Close
    <2>2. ASSUME NEW c \in owed PROVE calls[c].state = "answered"
        <3>1. c \in Calls
            BY DEF ServerInv, Shapes
        <3>2. CASE Open = {}
            BY <3>1, <3>2 DEF ServerInv, DrainInv, Open
        <3>3. CASE clock = 0
            BY <3>3 DEF ServerInv, DrainInv
        <3> QED
            BY <2>1, <3>2, <3>3 DEF Drained, Close
    <2>3. ASSUME NEW c \in owed PROVE calls'[c].state = "answered"
        <3>1. c \in Calls /\ c \notin Open
            BY <2>2 DEF ServerInv, Shapes, Open
        <3>2. calls'[c] = calls[c]
            BY <2>1, <3>1 DEF Exit
        <3> QED
            BY <2>2, <3>2
    <2> QED
        BY <2>1, <2>3 DEF Exit
<1>2. Spec => [][Clean]_vars
    BY <1>1, ServerInvHolds, PTL DEF Spec
<1> QED
    BY <1>2 DEF ShutdownIsClean

-----------------------------------------------------------------------------
(* Scopes: where a call works.  The resolvers are switches, so a proof     *)
(* about one goes through its arms, and shows of each that the place it    *)
(* gives is the one meant, or that it refuses what no place fits.          *)

(* A switch gives what its first arm gives whose condition holds.          *)
LEMMA SwitchTakes ==
    ASSUME NEW n \in Nat, NEW arms, DOMAIN arms = 1 .. n,
           NEW i \in 1 .. n, arms[i].when, \A j \in 1..(i - 1) : ~arms[j].when
    PROVE  Switch(arms) = arms[i].then
<1>1. ASSUME NEW k \in DOMAIN arms,
             arms[k].when /\ \A j \in 1..(k - 1) : ~arms[j].when
      PROVE  k = i
    <2>1. ~(k < i)
        BY <1>1
    <2>2. ~(i < k)
        BY <1>1
    <2> QED
        BY <2>1, <2>2
<1> QED
    BY <1>1 DEF Switch

(* What WhereAsked claims of the place p that a call gets.                 *)
Spots(f) == IF panorama THEN OnPanorama(f) ELSE OnFirewall(f)
Suits(s, g) == s.needs \subseteq g /\ g \subseteq s.needs \cup s.may
RulebaseOf(a) ==
    IF a.family = "rule" /\ panorama THEN normalizeRulebase(a.rulebase) ELSE "none"
Fits(a, p) ==
    LET spots == Meant(Effective(a)) IN
    IF spots = {} \/ ~RulebaseOK(a) THEN p = Refused
    ELSE \E s \in spots :
        /\ p = [At(s.tier, Effective(a).given) EXCEPT !.rulebase = p.rulebase]
        /\ p.rulebase = RulebaseOf(a)

(* What there is to an ask, and the places that are meant by it.           *)
LEMMA AskParts ==
    ASSUME NEW f, NEW a \in Asks(f)
    PROVE  /\ a.family = f
           /\ a.given \subseteq Selectors(f)
           /\ a.rulebase \in Rulebases(f)
           /\ Effective(a).family = f
           /\ Effective(a).given = a.given \ Yielding(a)
           /\ Meant(Effective(a)) = {s \in Spots(f) : Suits(s, a.given \ Yielding(a))}
<1>1. /\ a.family = f
      /\ a.given \subseteq Selectors(f)
      /\ a.rulebase \in Rulebases(f)
      /\ Effective(a).family = f
      /\ Effective(a).given = a.given \ Yielding(a)
    BY DEF Asks, Effective
<1> QED
    BY <1>1 DEF Meant, Spots, Suits

(* To refuse is right when the rulebase is not one, or no place is meant.  *)
LEMMA RefusalFits ==
    ASSUME NEW f, NEW a \in Asks(f),
           ~RulebaseOK(a) \/ \A s \in Spots(f) : ~Suits(s, a.given \ Yielding(a))
    PROVE  Fits(a, Refused)
BY AskParts DEF Fits

(* A place that is meant is right.                                         *)
LEMMA PlaceFits ==
    ASSUME NEW f, NEW a \in Asks(f), RulebaseOK(a),
           NEW s \in Spots(f), Suits(s, a.given \ Yielding(a)),
           NEW p,
           p = [tier |-> s.tier, by |-> a.given \ Yielding(a),
                rulebase |-> RulebaseOf(a)]
    PROVE  Fits(a, p)
<1> DEFINE e == a.given \ Yielding(a)
<1>1. /\ Effective(a).given = e
      /\ s \in Meant(Effective(a))
    BY AskParts
<1>2. p.rulebase = RulebaseOf(a)
    OBVIOUS
<1>3. p = [At(s.tier, e) EXCEPT !.rulebase = p.rulebase]
    <2>1. p = [tier |-> s.tier, by |-> e, rulebase |-> p.rulebase]
        BY <1>2
    <2>2. \A r : [At(s.tier, e) EXCEPT !.rulebase = r]
                 = [tier |-> s.tier, by |-> e, rulebase |-> r]
        BY DEF At
    <2> QED
        BY <2>1, <2>2
<1> QED
    BY <1>1, <1>2, <1>3 DEF Fits

(* The same of a place without a rulebase.                                 *)
LEMMA AtFits ==
    ASSUME NEW f, NEW a \in Asks(f), RulebaseOK(a), RulebaseOf(a) = "none",
           NEW tier, NEW needs, NEW may, Spot(tier, needs, may) \in Spots(f),
           NEW g, g = a.given \ Yielding(a),
           needs \subseteq g, g \subseteq needs \cup may
    PROVE  Fits(a, At(tier, g))
<1> DEFINE s == Spot(tier, needs, may)
<1>1. s.tier = tier /\ s.needs = needs /\ s.may = may
    BY DEF Spot
<1>2. s \in Spots(f) /\ Suits(s, g)
    BY <1>1 DEF Suits
<1> HIDE DEF s
<1>3. At(tier, g) = [tier |-> s.tier, by |-> a.given \ Yielding(a),
                     rulebase |-> RulebaseOf(a)]
    BY <1>1 DEF At
<1> QED
    BY <1>2, <1>3, PlaceFits

(* The same of a refusal where no place is meant.                          *)
LEMMA NoSpotFits ==
    ASSUME NEW f, NEW a \in Asks(f), NEW g, g = a.given \ Yielding(a),
           \A s \in Spots(f) : s.needs \subseteq g => ~(g \subseteq s.needs \cup s.may)
    PROVE  Fits(a, Refused)
BY RefusalFits DEF Suits

(* An ask of a family in which nothing yields to anything.                 *)
LEMMA PlainAsk ==
    ASSUME NEW f, NEW a \in Asks(f), f \notin LocationFamilies \cup DeviceFamilies
    PROVE  /\ a.given = a.given \ Yielding(a)
           /\ RulebaseOK(a) /\ RulebaseOf(a) = "none"
<1>1. a.family = f /\ a.rulebase \in Rulebases(f)
    BY AskParts
<1> QED
    BY <1>1 DEF Rulebases, Yielding, RulebaseOK, RulebaseOf, LocationFamilies

(* The resolver of the network, arm by arm.                                *)
LEMMA NetChain ==
    ASSUME NEW f, NEW given
    PROVE  resolveNetScope(f, given) =
      IF Templates \subseteq given THEN Refused
      ELSE IF given \cap Templates # {} /\ ~panorama THEN Refused
      ELSE IF given \cap Templates # {} THEN templateTier(given)
      ELSE IF panorama \/ f \in {"template", "panorama-template"} THEN Refused
      ELSE At("firewall", {})
<1> DEFINE s == <<
    Arm(Templates \subseteq given, Refused),
    Arm(given \cap Templates # {} /\ ~panorama, Refused),
    Arm(given \cap Templates # {}, templateTier(given)),
    Arm(panorama \/ f \in {"template", "panorama-template"}, Refused),
    Arm(TRUE, At("firewall", {}))>>
<1>1. resolveNetScope(f, given) = Switch(s) /\ DOMAIN s = 1 .. 5
    BY DEF resolveNetScope
<1>2. /\ s[1].when <=> Templates \subseteq given
      /\ s[2].when <=> given \cap Templates # {} /\ ~panorama
      /\ s[3].when <=> given \cap Templates # {}
      /\ s[4].when <=> panorama \/ f \in {"template", "panorama-template"}
      /\ s[5].when
    BY DEF Arm
<1>3. /\ s[1].then = Refused
      /\ s[2].then = Refused
      /\ s[3].then = templateTier(given)
      /\ s[4].then = Refused
      /\ s[5].then = At("firewall", {})
    BY DEF Arm
<1> HIDE DEF s
<1>4. \A i \in 1 .. 5 :
        s[i].when /\ (\A j \in 1 .. (i - 1) : ~s[j].when) => Switch(s) = s[i].then
    BY <1>1, SwitchTakes, 5 \in Nat
<1> QED
    BY <1>1, <1>2, <1>3, <1>4

(* The network, and the settings of a device.                              *)
LEMMA NetPlaces ==
    ASSUME NEW f \in NetFamilies, NEW a \in Asks(f)
    PROVE  Fits(a, resolveNetScope(f, a.given))
<1> DEFINE g == a.given
<1>1. /\ g \subseteq Templates /\ g = g \ Yielding(a)
      /\ RulebaseOK(a) /\ RulebaseOf(a) = "none"
    BY AskParts, PlainAsk DEF Selectors, LocationFamilies, DeviceFamilies, NetFamilies
<1>2. Spots(f) =
        IF panorama THEN {Spot(t, {t}, {}) : t \in Templates}
        ELSE IF f \in {"net", "system"} THEN {Spot("firewall", {}, {})} ELSE {}
    BY DEF Spots, OnPanorama, OnFirewall, InTemplates, LocationFamilies, DeviceFamilies,
       NetFamilies
<1>3. CASE \/ Templates \subseteq g
           \/ g # {} /\ ~panorama
           \/ g = {} /\ (panorama \/ f \in {"template", "panorama-template"})
    <2>1. resolveNetScope(f, g) = Refused
        BY <1>1, <1>3, NetChain DEF Templates
    <2>2. \A s \in Spots(f) : s.needs \subseteq g => ~(g \subseteq s.needs \cup s.may)
        BY <1>1, <1>2, <1>3 DEF Spot, Templates
    <2> QED
        BY <1>1, <2>1, <2>2, NoSpotFits
<1>4. ASSUME NEW t \in Templates, g = {t}, panorama
      PROVE  Fits(a, resolveNetScope(f, g))
    <2>1. resolveNetScope(f, g) = At(t, g)
        BY <1>4, NetChain DEF templateTier, Templates
    <2>2. Spot(t, {t}, {}) \in Spots(f)
        BY <1>2, <1>4
    <2> QED
        BY <1>1, <1>4, <2>1, <2>2, AtFits
<1>5. CASE g = {} /\ ~panorama /\ f \in {"net", "system"}
    <2>1. resolveNetScope(f, g) = At("firewall", g)
        BY <1>5, NetChain DEF Templates
    <2> QED
        BY <1>1, <1>2, <1>5, <2>1, AtFits
<1> QED
    BY <1>1, <1>3, <1>4, <1>5 DEF Templates, NetFamilies

(* A place is not taken for a refusal.                                     *)
LEMMA PlacesAreNotRefused ==
    /\ At("firewall", {}) # Refused
    /\ \A t \in Templates : At(t, {t}) # Refused
<1>1. ASSUME NEW t \in {"firewall"} \cup Templates, NEW n \in SUBSET Templates
      PROVE  At(t, n) # Refused
    BY RefusedAssumption DEF At
<1> QED
    BY <1>1

(* Entries below others.                                                   *)
LEMMA BelowPlaces ==
    ASSUME NEW a \in Asks("below")
    PROVE  Fits(a, resolveParentNetScope(a.given))
<1> DEFINE g == a.given
           h == g \ {"parent"}
           base == resolveNetScope("below", h)
<1>1. /\ g \subseteq Templates \cup {"parent"} /\ g = g \ Yielding(a)
      /\ RulebaseOK(a) /\ RulebaseOf(a) = "none"
    BY AskParts, PlainAsk DEF Selectors, LocationFamilies, DeviceFamilies,
       NetFamilies
<1>2. Spots("below") =
        IF panorama THEN {Spot(t, {t} \cup {"parent"}, {}) : t \in Templates}
        ELSE {Spot("firewall", {"parent"}, {})}
    BY DEF Spots, OnPanorama, OnFirewall, InTemplates, LocationFamilies,
      DeviceFamilies, NetFamilies
<1>3. CASE "parent" \notin g
    <2>1. resolveParentNetScope(g) = Refused
        BY <1>3 DEF resolveParentNetScope
    <2> QED
        BY <1>1, <1>2, <1>3, <2>1, NoSpotFits DEF Spot
<1>4. CASE /\ "parent" \in g
           /\ \/ Templates \subseteq h
              \/ h # {} /\ ~panorama
              \/ h = {} /\ panorama
    <2>1. resolveParentNetScope(g) = Refused
        BY <1>1, <1>4, NetChain DEF resolveParentNetScope, Templates
    <2>2. \A s \in Spots("below") : s.needs \subseteq g => ~(g \subseteq s.needs \cup s.may)
        BY <1>1, <1>2, <1>4 DEF Spot, Templates
    <2> QED
        BY <1>1, <2>1, <2>2, NoSpotFits
<1>5. CASE "parent" \in g /\ h = {} /\ ~panorama
    <2>1. base = At("firewall", {}) /\ g = {"parent"}
        BY <1>5, NetChain DEF Templates
    <2>2. resolveParentNetScope(g) = At("firewall", g)
        BY <1>5, <2>1, PlacesAreNotRefused DEF resolveParentNetScope, At
    <2> QED
        BY <1>1, <1>2, <1>5, <2>1, <2>2, AtFits
<1>6. ASSUME NEW t \in Templates, "parent" \in g, h = {t}, panorama
      PROVE  Fits(a, resolveParentNetScope(g))
    <2>1. base = At(t, {t}) /\ g = {t} \cup {"parent"}
        BY <1>6, NetChain DEF templateTier, Templates
    <2>2. resolveParentNetScope(g) = At(t, g)
        BY <1>6, <2>1, PlacesAreNotRefused DEF resolveParentNetScope, At, Templates
    <2>3. Spot(t, g, {}) \in Spots("below")
        BY <1>2, <1>6, <2>1
    <2> QED
        BY <1>1, <2>1, <2>2, <2>3, AtFits
<1> QED
    BY <1>1, <1>3, <1>4, <1>5, <1>6 DEF Templates

(* Zones.                                                                  *)
LEMMA ZonePlaces ==
    ASSUME NEW a \in Asks("zone")
    PROVE  Fits(a, resolveZoneLocation(a.given))
<1> DEFINE g == a.given
           s == <<
    Arm(panorama /\ g # {"template"}, Refused),
    Arm(panorama, At("template", {"template"})),
    Arm("template" \in g, Refused),
    Arm(TRUE, At("vsys", g))>>
<1>1. resolveZoneLocation(g) = Switch(s) /\ DOMAIN s = 1 .. 4
    BY DEF resolveZoneLocation
<1>2. /\ s[1].when <=> panorama /\ g # {"template"}
      /\ s[2].when <=> panorama
      /\ s[3].when <=> "template" \in g
      /\ s[4].when
      /\ s[1].then = Refused /\ s[2].then = At("template", {"template"})
      /\ s[3].then = Refused /\ s[4].then = At("vsys", g)
    BY DEF Arm
<1> HIDE DEF s
<1>3. \A i \in 1 .. 4 :
        s[i].when /\ (\A j \in 1 .. (i - 1) : ~s[j].when) => Switch(s) = s[i].then
    BY <1>1, SwitchTakes, 4 \in Nat
<1>4. /\ g \subseteq {"vsys", "template"} /\ g = g \ Yielding(a)
      /\ RulebaseOK(a) /\ RulebaseOf(a) = "none"
    BY AskParts, PlainAsk DEF Selectors, LocationFamilies, DeviceFamilies,
       NetFamilies
<1>5. Spots("zone") =
        IF panorama THEN {Spot("template", {"template"}, {})}
        ELSE {Spot("vsys", {}, {"vsys"})}
    BY DEF Spots, OnPanorama, OnFirewall, InTemplates, LocationFamilies,
      DeviceFamilies, NetFamilies
<1>6. CASE s[1].when \/ (~s[2].when /\ s[3].when)
    <2>1. Switch(s) = Refused
       BY <1>2, <1>3, <1>6
    <2>2. \A p \in Spots("zone") : p.needs \subseteq g => ~(g \subseteq p.needs \cup p.may)
       BY <1>2, <1>5, <1>4, <1>6 DEF Spot
    <2> QED
       BY <1>1, <1>4, <2>1, <2>2, NoSpotFits
<1>7. CASE ~s[1].when /\ s[2].when
    <2>1. /\ Switch(s) = At("template", g)
         /\ g = {"template"}
         /\ Spot("template", {"template"}, {}) \in Spots("zone")
       BY <1>2, <1>3, <1>5, <1>7
    <2> QED
       BY <1>1, <1>4, <2>1, AtFits
<1>8. CASE ~s[2].when /\ ~s[3].when
    <2>1. /\ Switch(s) = At("vsys", g)
         /\ g \subseteq {"vsys"}
         /\ Spot("vsys", {}, {"vsys"}) \in Spots("zone")
       BY <1>2, <1>3, <1>4, <1>5, <1>8
    <2> QED
       BY <1>1, <1>4, <2>1, AtFits
<1> QED
    BY <1>2, <1>6, <1>7, <1>8

(* With one template named, templateTier is that template.                 *)
LEMMA OneTemplate ==
    ASSUME NEW g, ~(Templates \subseteq g), g \cap Templates # {}
    PROVE  \E t \in Templates :
              g \cap Templates = {t} /\ templateTier(g) = At(t, g \cap {t, "template_vsys"})
<1>1. CASE "template" \in g
    <2>1. g \cap (Templates \cup {"template_vsys"}) = g \cap {"template", "template_vsys"}
        BY <1>1 DEF Templates
    <2> QED
        BY <1>1, <2>1 DEF templateTier, Templates
<1>2. CASE "template" \notin g
    <2>1. g \cap (Templates \cup {"template_vsys"}) = g \cap {"template_stack", "template_vsys"}
        BY <1>2 DEF Templates
    <2> QED
        BY <1>2, <2>1 DEF templateTier, Templates
<1> QED
    BY <1>1, <1>2

(* Administrators and password profiles.                                   *)
LEMMA MgtPlaces ==
    ASSUME NEW a \in Asks("mgt")
    PROVE  Fits(a, resolveMgtScope(a.given))
<1> DEFINE g == a.given
           s == <<
    Arm(~validTemplates(g) \/ ~noTemplateAndPanorama(g), Refused),
    Arm(~panorama /\ g # {}, Refused),
    Arm(~panorama, At("firewall", {})),
    Arm(g \cap Templates # {}, templateTier(g)),
    Arm("panorama" \in g, At("panorama", {"panorama"})),
    Arm(TRUE, Refused)>>
<1>1. resolveMgtScope(g) = Switch(s) /\ DOMAIN s = 1 .. 6
    BY DEF resolveMgtScope
<1>2. /\ s[1].when <=> ~validTemplates(g) \/ ~noTemplateAndPanorama(g)
      /\ s[2].when <=> ~panorama /\ g # {}
      /\ s[3].when <=> ~panorama
      /\ s[4].when <=> g \cap Templates # {}
      /\ s[5].when <=> "panorama" \in g
      /\ s[6].when
    BY DEF Arm
<1>3. /\ s[1].then = Refused
      /\ s[2].then = Refused
      /\ s[3].then = At("firewall", {})
      /\ s[4].then = templateTier(g)
      /\ s[5].then = At("panorama", {"panorama"})
      /\ s[6].then = Refused
    BY DEF Arm
<1> HIDE DEF s
<1>4. \A i \in 1 .. 6 :
        s[i].when /\ (\A j \in 1 .. (i - 1) : ~s[j].when) => Switch(s) = s[i].then
    BY <1>1, SwitchTakes, 6 \in Nat
<1>5. /\ g \subseteq {"panorama"} \cup Templates /\ g = g \ Yielding(a)
      /\ RulebaseOK(a) /\ RulebaseOf(a) = "none"
    BY AskParts, PlainAsk DEF Selectors, LocationFamilies, DeviceFamilies,
       NetFamilies
<1>6. Spots("mgt") = 
        IF panorama
        THEN {Spot(t, {t}, {}) : t \in Templates} \cup {Spot("panorama", {"panorama"}, {})}
        ELSE {Spot("firewall", {}, {})}
    BY DEF Spots, OnPanorama, OnFirewall, InTemplates, OwnTiers, LocationFamilies,
       DeviceFamilies, NetFamilies
<1>7. CASE s[1].when \/ s[2].when \/ (~s[3].when /\ ~s[4].when /\ ~s[5].when)
    <2>1. Switch(s) = Refused
        BY <1>2, <1>3, <1>4, <1>7
    <2>2. \A p \in Spots("mgt") : p.needs \subseteq g => ~(g \subseteq p.needs \cup p.may)
        BY <1>2, <1>5, <1>6, <1>7 DEF Spot, Templates, validTemplates,
           noTemplateAndPanorama, noSharedAndPanorama
    <2> QED
        BY <1>1, <1>5, <2>1, <2>2, NoSpotFits
<1>8. CASE ~s[1].when /\ ~s[2].when /\ s[3].when
    <2>1. Switch(s) = At("firewall", g)
        BY <1>2, <1>3, <1>4, <1>5, <1>8 DEF Templates
    <2>2. Spot("firewall", {}, {}) \in Spots("mgt") /\ g = {}
        BY <1>2, <1>5, <1>6, <1>8 DEF Templates
    <2> QED
        BY <1>1, <1>5, <2>1, <2>2, AtFits
<1>9. CASE ~s[1].when /\ ~s[3].when /\ s[4].when
    <2>1. PICK t \in Templates :
              g \cap Templates = {t} /\ templateTier(g) = At(t, g \cap {t, "template_vsys"})
        BY <1>2, <1>9, OneTemplate DEF validTemplates
    <2>2. g \cap {t, "template_vsys"} = g /\ t \in g
        BY <1>2, <1>5, <1>9, <2>1 DEF Templates, validTemplates,
           noTemplateAndPanorama, noSharedAndPanorama
    <2>3. Switch(s) = At(t, g)
        BY <1>2, <1>3, <1>4, <1>9, <2>1, <2>2
    <2>4. Spot(t, {t}, {}) \in Spots("mgt")
        BY <1>2, <1>6, <1>9
    <2> QED
        BY <1>1, <1>5, <2>1, <2>2, <2>3, <2>4, AtFits DEF Templates
<1>10. CASE ~s[1].when /\ ~s[3].when /\ ~s[4].when /\ s[5].when
    <2>1. Switch(s) = At("panorama", g)
        BY <1>2, <1>3, <1>4, <1>5, <1>10 DEF Templates
    <2>2. Spot("panorama", {"panorama"}, {}) \in Spots("mgt") /\ g = {"panorama"}
        BY <1>2, <1>5, <1>6, <1>10 DEF Templates
    <2> QED
        BY <1>1, <1>5, <2>1, <2>2, AtFits
<1> QED
    BY <1>2, <1>7, <1>8, <1>9, <1>10

(* Certificates.                                                           *)
LEMMA CertPlaces ==
    ASSUME NEW a \in Asks("certificate")
    PROVE  Fits(a, resolveCertScope(a.given))
<1> DEFINE g == a.given
           s == <<
    Arm(Templates \subseteq g, Refused),
    Arm("vsys" \in g /\ g \cap Templates # {}, Refused),
    Arm(g \cap Templates # {} /\ ~panorama, Refused),
    Arm(g \cap Templates # {}, templateTier(g)),
    Arm(panorama, Refused),
    Arm(TRUE, At("vsys", g))>>
<1>1. resolveCertScope(g) = Switch(s) /\ DOMAIN s = 1 .. 6
    BY DEF resolveCertScope
<1>2. /\ s[1].when <=> Templates \subseteq g
      /\ s[2].when <=> "vsys" \in g /\ g \cap Templates # {}
      /\ s[3].when <=> g \cap Templates # {} /\ ~panorama
      /\ s[4].when <=> g \cap Templates # {}
      /\ s[5].when <=> panorama
      /\ s[6].when
    BY DEF Arm
<1>3. /\ s[1].then = Refused
      /\ s[2].then = Refused
      /\ s[3].then = Refused
      /\ s[4].then = templateTier(g)
      /\ s[5].then = Refused
      /\ s[6].then = At("vsys", g)
    BY DEF Arm
<1> HIDE DEF s
<1>4. \A i \in 1 .. 6 :
        s[i].when /\ (\A j \in 1 .. (i - 1) : ~s[j].when) => Switch(s) = s[i].then
    BY <1>1, SwitchTakes, 6 \in Nat
<1>5. /\ g \subseteq {"vsys"} \cup Templates /\ g = g \ Yielding(a)
      /\ RulebaseOK(a) /\ RulebaseOf(a) = "none"
    BY AskParts, PlainAsk DEF Selectors, LocationFamilies, DeviceFamilies,
       NetFamilies
<1>6. Spots("certificate") = 
        IF panorama THEN {Spot(t, {t}, {}) : t \in Templates}
        ELSE {Spot("vsys", {}, {"vsys"})}
    BY DEF Spots, OnPanorama, OnFirewall, InTemplates, OwnTiers, LocationFamilies,
       DeviceFamilies, NetFamilies
<1>7. CASE s[1].when \/ s[2].when \/ s[3].when \/ (~s[4].when /\ s[5].when)
    <2>1. Switch(s) = Refused
        BY <1>2, <1>3, <1>4, <1>7
    <2>2. \A p \in Spots("certificate") : p.needs \subseteq g => ~(g \subseteq p.needs \cup p.may)
        BY <1>2, <1>5, <1>6, <1>7 DEF Spot, Templates
    <2> QED
        BY <1>1, <1>5, <2>1, <2>2, NoSpotFits
<1>8. CASE ~s[1].when /\ ~s[2].when /\ ~s[3].when /\ s[4].when
    <2>1. PICK t \in Templates :
              g \cap Templates = {t} /\ templateTier(g) = At(t, g \cap {t, "template_vsys"})
        BY <1>2, <1>8, OneTemplate DEF validTemplates
    <2>2. g \cap {t, "template_vsys"} = g /\ t \in g
        BY <1>2, <1>5, <1>8, <2>1 DEF Templates
    <2>3. Switch(s) = At(t, g)
        BY <1>2, <1>3, <1>4, <1>8, <2>1, <2>2
    <2>4. Spot(t, {t}, {}) \in Spots("certificate")
        BY <1>2, <1>6, <1>8
    <2> QED
        BY <1>1, <1>5, <2>1, <2>2, <2>3, <2>4, AtFits DEF Templates
<1>9. CASE ~s[4].when /\ ~s[5].when
    <2>1. Switch(s) = At("vsys", g)
        BY <1>2, <1>3, <1>4, <1>5, <1>9 DEF Templates
    <2>2. /\ Spot("vsys", {}, {"vsys"}) \in Spots("certificate")
          /\ g \subseteq {"vsys"}
        BY <1>2, <1>5, <1>6, <1>9 DEF Templates
    <2> QED
        BY <1>1, <1>5, <2>1, <2>2, AtFits
<1> QED
    BY <1>2, <1>7, <1>8, <1>9

(* SSL/TLS and certificate profiles.                                       *)
LEMMA ProfileScopePlaces ==
    ASSUME NEW a \in Asks("scoped")
    PROVE  Fits(a, resolveProfileScope(a.given))
<1> DEFINE g == a.given
           s == <<
    Arm(~validTemplates(g) \/ ~noSharedAndPanorama(g), Refused),
    Arm(g \cap Templates # {} /\ g \cap {"shared", "panorama"} # {}, Refused),
    Arm(g \cap ({"panorama"} \cup Templates) # {} /\ ~panorama, Refused),
    Arm(g \cap Templates # {}, templateTier(g)),
    Arm("panorama" \in g, At("panorama", {"panorama"})),
    Arm("shared" \in g \/ ~panorama, At("shared", g \cap {"shared"})),
    Arm(TRUE, Refused)>>
<1>1. resolveProfileScope(g) = Switch(s) /\ DOMAIN s = 1 .. 7
    BY DEF resolveProfileScope
<1>2. /\ s[1].when <=> ~validTemplates(g) \/ ~noSharedAndPanorama(g)
      /\ s[2].when <=> g \cap Templates # {} /\ g \cap {"shared", "panorama"} # {}
      /\ s[3].when <=> g \cap ({"panorama"} \cup Templates) # {} /\ ~panorama
      /\ s[4].when <=> g \cap Templates # {}
      /\ s[5].when <=> "panorama" \in g
      /\ s[6].when <=> "shared" \in g \/ ~panorama
      /\ s[7].when
    BY DEF Arm
<1>3. /\ s[1].then = Refused
      /\ s[2].then = Refused
      /\ s[3].then = Refused
      /\ s[4].then = templateTier(g)
      /\ s[5].then = At("panorama", {"panorama"})
      /\ s[6].then = At("shared", g \cap {"shared"})
      /\ s[7].then = Refused
    BY DEF Arm
<1> HIDE DEF s
<1>4. \A i \in 1 .. 7 :
        s[i].when /\ (\A j \in 1 .. (i - 1) : ~s[j].when) => Switch(s) = s[i].then
    BY <1>1, SwitchTakes, 7 \in Nat
<1>5. /\ g \subseteq {"shared", "panorama", "template_vsys"} \cup Templates
      /\ g = g \ Yielding(a)
      /\ RulebaseOK(a) /\ RulebaseOf(a) = "none"
    BY AskParts, PlainAsk DEF Selectors, LocationFamilies, DeviceFamilies,
       NetFamilies
<1>6. Spots("scoped") = 
        IF panorama
        THEN {Spot(t, {t}, {"template_vsys"}) : t \in Templates}
             \cup {Spot("shared", {"shared"}, {}), Spot("panorama", {"panorama"}, {})}
        ELSE {Spot("shared", {}, {"shared"})}
    BY DEF Spots, OnPanorama, OnFirewall, InTemplates, OwnTiers, LocationFamilies,
       DeviceFamilies, NetFamilies
<1>7. CASE s[1].when \/ s[2].when \/ s[3].when \/ (~s[4].when /\ ~s[5].when /\ ~s[6].when)
    <2>1. Switch(s) = Refused
        BY <1>2, <1>3, <1>4, <1>7
    <2>2. \A p \in Spots("scoped") : p.needs \subseteq g => ~(g \subseteq p.needs \cup p.may)
        BY <1>2, <1>5, <1>6, <1>7 DEF Spot, Templates, validTemplates,
           noTemplateAndPanorama, noSharedAndPanorama
    <2> QED
        BY <1>1, <1>5, <2>1, <2>2, NoSpotFits
<1>8. CASE ~s[1].when /\ ~s[2].when /\ ~s[3].when /\ s[4].when
    <2>1. PICK t \in Templates :
              g \cap Templates = {t} /\ templateTier(g) = At(t, g \cap {t, "template_vsys"})
        BY <1>2, <1>8, OneTemplate DEF validTemplates
    <2>2. g \cap {t, "template_vsys"} = g /\ t \in g
        BY <1>2, <1>5, <1>8, <2>1 DEF Templates, validTemplates,
           noTemplateAndPanorama, noSharedAndPanorama
    <2>3. Switch(s) = At(t, g)
        BY <1>2, <1>3, <1>4, <1>8, <2>1, <2>2
    <2>4. Spot(t, {t}, {"template_vsys"}) \in Spots("scoped")
        BY <1>2, <1>6, <1>8
    <2> QED
        BY <1>1, <1>5, <2>1, <2>2, <2>3, <2>4, AtFits DEF Templates
<1>9. CASE ~s[1].when /\ ~s[2].when /\ ~s[3].when /\ ~s[4].when /\ s[5].when
    <2>1. Switch(s) = At("panorama", g)
        BY <1>2, <1>3, <1>4, <1>5, <1>9 DEF Templates, validTemplates,
           noTemplateAndPanorama, noSharedAndPanorama
    <2>2. Spot("panorama", {"panorama"}, {}) \in Spots("scoped") /\ g = {"panorama"}
        BY <1>2, <1>5, <1>6, <1>9 DEF Templates, validTemplates,
           noTemplateAndPanorama, noSharedAndPanorama
    <2> QED
        BY <1>1, <1>5, <2>1, <2>2, AtFits
<1>10. CASE /\ ~s[1].when /\ ~s[2].when /\ ~s[3].when /\ ~s[4].when /\ ~s[5].when
            /\ s[6].when
    <2>1. g \subseteq {"shared"} /\ (panorama => g = {"shared"}) /\ g \cap {"shared"} = g
        BY <1>2, <1>5, <1>10 DEF Templates, validTemplates
    <2>2. Switch(s) = At("shared", g)
        BY <1>2, <1>3, <1>4, <1>10, <2>1
    <2>3. CASE panorama
        BY <1>1, <1>5, <1>6, <2>1, <2>2, <2>3, AtFits
    <2>4. CASE ~panorama
        BY <1>1, <1>5, <1>6, <2>1, <2>2, <2>4, AtFits
    <2> QED
        BY <2>3, <2>4
<1> QED
    BY <1>2, <1>7, <1>8, <1>9, <1>10

(* What yields in an ask of a device family: a vsys to shared on a         *)
(* firewall, and shared to a template.                                     *)
LEMMA DeviceAsk ==
    ASSUME NEW f \in DeviceFamilies, NEW a \in Asks(f)
    PROVE  /\ a.given \subseteq {"shared", "panorama", "vsys", "template_vsys"} \cup Templates
           /\ Yielding(a) = IF a.given \cap Templates # {} THEN {"shared"}
                           ELSE IF "shared" \in a.given /\ ~panorama THEN {"vsys"} ELSE {}
           /\ RulebaseOK(a) /\ RulebaseOf(a) = "none"
<1>1. /\ a.family = f /\ a.rulebase = "none"
      /\ a.given \subseteq {"shared", "panorama", "vsys", "template_vsys"} \cup Templates
    BY AskParts DEF Rulebases, Selectors, LocationFamilies, DeviceFamilies
<1>2. f \notin LocationFamilies
    BY DEF LocationFamilies, DeviceFamilies
<1>3. a.given \cap ({"device_group"} \cup Templates) = a.given \cap Templates
    BY <1>1 DEF Templates
<1>4. Yielding(a) = IF a.given \cap Templates # {} THEN {"shared"}
                   ELSE IF "shared" \in a.given /\ ~panorama THEN {"vsys"} ELSE {}
    <2>1. CASE "shared" \in a.given /\ a.given \cap Templates = {} /\ ~panorama
        BY <1>1, <1>2, <1>3, <2>1 DEF Yielding
    <2>2. CASE a.given \cap Templates # {}
        BY <1>1, <1>2, <1>3, <2>2 DEF Yielding
    <2>3. CASE a.given \cap Templates = {} /\ ("shared" \notin a.given \/ panorama)
        BY <1>1, <1>2, <1>3, <2>3 DEF Yielding
    <2> QED
        BY <2>1, <2>2, <2>3
<1> QED
    BY <1>1, <1>2, <1>4 DEF RulebaseOK, RulebaseOf, LocationFamilies

(* The places of a device family: of the tiers, those it has.              *)
LEMMA DeviceSpots ==
    ASSUME NEW f \in DeviceFamilies
    PROVE  Spots(f) =
             IF panorama
             THEN {Spot(t, {t}, {"template_vsys"}) : t \in Templates}
                  \cup {Spot(t, {t}, {}) : t \in {u \in {"shared", "panorama"} : Has(f, u)}}
             ELSE {Spot(t, {}, {"vsys"}) : t \in {u \in {"vsys"} : Has(f, u)}}
                  \cup {Spot(t, {"shared"}, {}) : t \in {u \in {"shared"} : Has(f, u)}}
<1>1. CASE panorama
    <2>1. OwnTiers(f) = {u \in {"shared", "panorama"} : Has(f, u)}
        BY DEF OwnTiers, Has, DeviceFamilies
    <2>2. f \notin LocationFamilies /\ f \in DeviceFamilies \cup {"scoped"}
        BY DEF LocationFamilies, DeviceFamilies
    <2>3. f \notin NetFamilies \cup {"certificate", "mgt", "below", "zone", "panorama"}
        BY DEF NetFamilies, DeviceFamilies
    <2>4. OnPanorama(f) =
             InTemplates({}, {"template_vsys"}) \cup {Spot(t, {t}, {}) : t \in OwnTiers(f)}
        BY <2>2, <2>3 DEF OnPanorama
    <2> QED
        BY <1>1, <2>1, <2>4 DEF Spots, InTemplates
<1>2. CASE ~panorama
    BY <1>2 DEF Spots, OnFirewall, Has, DeviceFamilies
<1> QED
    BY <1>1, <1>2

(* The device families on Panorama.                                        *)
LEMMA PanoramaDevicePlaces ==
    ASSUME NEW f \in DeviceFamilies, NEW a \in Asks(f), panorama, validDeviceScope(a.given)
    PROVE  Fits(a, resolvePanoramaDeviceScope(f, a.given))
<1> DEFINE g == a.given
           e == g \ Yielding(a)
           s == <<
    Arm("vsys" \in g, Refused),
    Arm(g \cap Templates # {}, templateTier(g)),
    Arm("panorama" \in g /\ Has(f, "panorama"), At("panorama", {"panorama"})),
    Arm("panorama" \in g, Refused),
    Arm("shared" \in g /\ Has(f, "shared"), At("shared", {"shared"})),
    Arm(TRUE, Refused)>>
<1>1. resolvePanoramaDeviceScope(f, g) = Switch(s) /\ DOMAIN s = 1 .. 6
    BY DEF resolvePanoramaDeviceScope
<1>2. /\ s[1].when <=> "vsys" \in g
      /\ s[2].when <=> g \cap Templates # {}
      /\ s[3].when <=> "panorama" \in g /\ Has(f, "panorama")
      /\ s[4].when <=> "panorama" \in g
      /\ s[5].when <=> "shared" \in g /\ Has(f, "shared")
      /\ s[6].when
    BY DEF Arm
<1>3. /\ s[1].then = Refused
      /\ s[2].then = templateTier(g)
      /\ s[3].then = At("panorama", {"panorama"})
      /\ s[4].then = Refused
      /\ s[5].then = At("shared", {"shared"})
      /\ s[6].then = Refused
    BY DEF Arm
<1> HIDE DEF s
<1>4. \A i \in 1 .. 6 :
        s[i].when /\ (\A j \in 1 .. (i - 1) : ~s[j].when) => Switch(s) = s[i].then
    BY <1>1, SwitchTakes, 6 \in Nat
<1>5. /\ g \subseteq {"shared", "panorama", "vsys", "template_vsys"} \cup Templates
      /\ e = IF g \cap Templates # {} THEN g \ {"shared"} ELSE g
      /\ RulebaseOK(a) /\ RulebaseOf(a) = "none"
    BY DeviceAsk
<1>6. Spots(f) = {Spot(t, {t}, {"template_vsys"}) : t \in Templates}
                 \cup {Spot(t, {t}, {}) : t \in {u \in {"shared", "panorama"} : Has(f, u)}}
    BY DeviceSpots
<1>e. e = g \ Yielding(a)
    OBVIOUS
<1> HIDE DEF e
<1>7. CASE s[1].when \/ (~s[2].when /\ ~s[3].when /\ ~s[5].when)
    <2>1. Switch(s) = Refused
        BY <1>2, <1>3, <1>4, <1>7
    <2>2. \A p \in Spots(f) : p.needs \subseteq e => ~(e \subseteq p.needs \cup p.may)
        BY <1>2, <1>5, <1>6, <1>7 DEF Spot, Templates
    <2>3. Fits(a, Refused)
        BY <1>5, <1>e, <2>2, NoSpotFits
    <2> QED
        BY <1>1, <2>1, <2>3
<1>8. CASE ~s[1].when /\ s[2].when
    <2>1. PICK t \in Templates :
              g \cap Templates = {t} /\ templateTier(g) = At(t, g \cap {t, "template_vsys"})
        BY <1>2, <1>8, OneTemplate DEF validDeviceScope, validTemplates
    <2>2. /\ g \cap {t, "template_vsys"} = e
          /\ t \in e
          /\ e \subseteq {t, "template_vsys"}
        BY <1>2, <1>5, <1>8, <2>1 DEF Templates, validDeviceScope, validTemplates,
           noTemplateAndPanorama, noSharedAndPanorama
    <2>3. Switch(s) = At(t, e)
        BY <1>2, <1>3, <1>4, <1>8, <2>1, <2>2
    <2>4. Spot(t, {t}, {"template_vsys"}) \in Spots(f)
        BY <1>6
    <2> QED
        BY <1>1, <1>5, <2>2, <2>3, <2>4, AtFits DEF e
<1>9. CASE ~s[1].when /\ ~s[2].when /\ s[3].when
    <2>1. e = {"panorama"}
        BY <1>2, <1>5, <1>9 DEF Templates, validDeviceScope, validTemplates,
           noTemplateAndPanorama, noSharedAndPanorama
    <2>2. Switch(s) = At("panorama", e)
        BY <1>2, <1>3, <1>4, <1>9, <2>1
    <2>3. Spot("panorama", {"panorama"}, {}) \in Spots(f)
        BY <1>2, <1>6, <1>9
    <2> QED
        BY <1>1, <1>5, <2>1, <2>2, <2>3, AtFits DEF e
<1>10. CASE ~s[1].when /\ ~s[2].when /\ ~s[3].when /\ ~s[4].when /\ s[5].when
    <2>1. e = {"shared"}
        BY <1>2, <1>5, <1>10 DEF Templates, validDeviceScope, validTemplates,
           noTemplateAndPanorama, noSharedAndPanorama
    <2>2. Switch(s) = At("shared", e)
        BY <1>2, <1>3, <1>4, <1>10, <2>1
    <2>3. Spot("shared", {"shared"}, {}) \in Spots(f)
        BY <1>2, <1>6, <1>10
    <2> QED
        BY <1>1, <1>5, <2>1, <2>2, <2>3, AtFits DEF e
<1>11. CASE ~s[1].when /\ ~s[2].when /\ ~s[3].when /\ s[4].when
    <2>1. Switch(s) = Refused
        BY <1>2, <1>3, <1>4, <1>11
    <2>2. \A p \in Spots(f) : p.needs \subseteq e => ~(e \subseteq p.needs \cup p.may)
        BY <1>2, <1>5, <1>6, <1>11 DEF Spot, Templates
    <2>3. Fits(a, Refused)
        BY <1>5, <1>e, <2>2, NoSpotFits
    <2> QED
        BY <1>1, <2>1, <2>3
<1> QED
    BY <1>2, <1>7, <1>8, <1>9, <1>10, <1>11

(* The device families.                                                    *)
LEMMA DevicePlaces ==
    ASSUME NEW f \in DeviceFamilies, NEW a \in Asks(f)
    PROVE  Fits(a, resolveDeviceScope(f, a.given))
<1> DEFINE g == a.given
           e == g \ Yielding(a)
           s == <<
    Arm(~validDeviceScope(g), Refused),
    Arm(panorama, resolvePanoramaDeviceScope(f, g)),
    Arm(g \cap ({"panorama"} \cup Templates) # {}, Refused),
    Arm("shared" \in g /\ Has(f, "shared"), At("shared", {"shared"})),
    Arm("shared" \in g \/ ~Has(f, "vsys"), Refused),
    Arm(TRUE, At("vsys", g \cap {"vsys"}))>>
<1>1. resolveDeviceScope(f, g) = Switch(s) /\ DOMAIN s = 1 .. 6
    BY DEF resolveDeviceScope
<1>2. /\ s[1].when <=> ~validDeviceScope(g)
      /\ s[2].when <=> panorama
      /\ s[3].when <=> g \cap ({"panorama"} \cup Templates) # {}
      /\ s[4].when <=> "shared" \in g /\ Has(f, "shared")
      /\ s[5].when <=> "shared" \in g \/ ~Has(f, "vsys")
      /\ s[6].when
    BY DEF Arm
<1>3. /\ s[1].then = Refused
      /\ s[2].then = resolvePanoramaDeviceScope(f, g)
      /\ s[3].then = Refused
      /\ s[4].then = At("shared", {"shared"})
      /\ s[5].then = Refused
      /\ s[6].then = At("vsys", g \cap {"vsys"})
    BY DEF Arm
<1> HIDE DEF s
<1>4. \A i \in 1 .. 6 :
        s[i].when /\ (\A j \in 1 .. (i - 1) : ~s[j].when) => Switch(s) = s[i].then
    BY <1>1, SwitchTakes, 6 \in Nat
<1>5. /\ g \subseteq {"shared", "panorama", "vsys", "template_vsys"} \cup Templates
      /\ e = IF g \cap Templates # {} THEN g \ {"shared"}
             ELSE IF "shared" \in g /\ ~panorama THEN g \ {"vsys"} ELSE g
      /\ RulebaseOK(a) /\ RulebaseOf(a) = "none"
    BY DeviceAsk
<1>6. ~panorama =>
        Spots(f) = {Spot(t, {}, {"vsys"}) : t \in {u \in {"vsys"} : Has(f, u)}}
                   \cup {Spot(t, {"shared"}, {}) : t \in {u \in {"shared"} : Has(f, u)}}
    BY DeviceSpots
<1>7. panorama =>
        Spots(f) = {Spot(t, {t}, {"template_vsys"}) : t \in Templates}
                   \cup {Spot(t, {t}, {}) : t \in {u \in {"shared", "panorama"} : Has(f, u)}}
    BY DeviceSpots
<1>e. e = g \ Yielding(a)
    OBVIOUS
<1> HIDE DEF e
<1>8. CASE s[1].when
    <2>1. Switch(s) = Refused
        BY <1>2, <1>3, <1>4, <1>8
    <2>2. \A p \in Spots(f) : p.needs \subseteq e => ~(e \subseteq p.needs \cup p.may)
        <3>1. CASE panorama
            BY <1>2, <1>5, <1>7, <1>8, <3>1 DEF Spot, Templates, validDeviceScope,
               validTemplates, noTemplateAndPanorama, noSharedAndPanorama
        <3>2. CASE ~panorama
            BY <1>2, <1>5, <1>6, <1>8, <3>2 DEF Spot, Templates, validDeviceScope,
               validTemplates, noTemplateAndPanorama, noSharedAndPanorama
        <3> QED
            BY <3>1, <3>2
    <2>3. Fits(a, Refused)
        BY <1>5, <1>e, <2>2, NoSpotFits
    <2> QED
        BY <1>1, <2>1, <2>3
<1>9. CASE ~s[1].when /\ s[2].when
    BY <1>1, <1>2, <1>3, <1>4, <1>9, PanoramaDevicePlaces
<1>10. CASE ~s[1].when /\ ~s[2].when /\ (s[3].when \/ (~s[4].when /\ s[5].when))
    <2>1. Switch(s) = Refused
        BY <1>2, <1>3, <1>4, <1>10
    <2>2. \A p \in Spots(f) : p.needs \subseteq e => ~(e \subseteq p.needs \cup p.may)
        BY <1>2, <1>5, <1>6, <1>10 DEF Spot, Templates
    <2>3. Fits(a, Refused)
        BY <1>5, <1>e, <2>2, NoSpotFits
    <2> QED
        BY <1>1, <2>1, <2>3
<1>11. CASE ~s[1].when /\ ~s[2].when /\ ~s[3].when /\ s[4].when
    <2>1. e = {"shared"}
        BY <1>2, <1>5, <1>11 DEF Templates, validDeviceScope, validTemplates,
           noTemplateAndPanorama, noSharedAndPanorama
    <2>2. Switch(s) = At("shared", e)
        BY <1>2, <1>3, <1>4, <1>11, <2>1
    <2>3. Spot("shared", {"shared"}, {}) \in Spots(f)
        BY <1>2, <1>6, <1>11
    <2> QED
        BY <1>1, <1>5, <2>1, <2>2, <2>3, AtFits DEF e
<1>12. CASE ~s[1].when /\ ~s[2].when /\ ~s[3].when /\ ~s[4].when /\ ~s[5].when
    <2>1. e = g \cap {"vsys"}
        BY <1>2, <1>5, <1>12 DEF Templates, validDeviceScope, validTemplates,
           noTemplateAndPanorama, noSharedAndPanorama
    <2>2. Switch(s) = At("vsys", e)
        BY <1>2, <1>3, <1>4, <1>12, <2>1
    <2>3. Spot("vsys", {}, {"vsys"}) \in Spots(f)
        BY <1>2, <1>6, <1>12
    <2> QED
        BY <1>1, <1>5, <2>1, <2>2, <2>3, AtFits DEF e
<1> QED
    BY <1>2, <1>8, <1>9, <1>10, <1>11, <1>12

(* What yields in an ask of objects, profiles and rules: all to a device   *)
(* group, and a vsys to shared.                                            *)
LEMMA LocationAsk ==
    ASSUME NEW f \in LocationFamilies, NEW a \in Asks(f)
    PROVE  /\ a.family = f /\ a.given \subseteq {"vsys", "shared", "device_group"}
           /\ a.given \ Yielding(a) =
                 IF "device_group" \in a.given THEN {"device_group"}
                 ELSE IF "shared" \in a.given THEN {"shared"} ELSE a.given
           /\ RulebaseOK(a) <=> IF f = "rule" THEN a.rulebase # "other" ELSE a.rulebase = "none"
<1>1. /\ a.family = f /\ a.given \subseteq {"vsys", "shared", "device_group"}
    BY AskParts DEF Selectors, LocationFamilies, DeviceFamilies, NetFamilies
<1>2. f \notin DeviceFamilies
    BY DEF LocationFamilies, DeviceFamilies
<1>3. CASE "device_group" \in a.given
    <2>1. a.given \cap ({"device_group"} \cup Templates) # {}
        BY <1>3
    <2>2. Yielding(a) = {"shared", "vsys"}
        BY <1>1, <1>2, <1>3, <2>1 DEF Yielding
    <2> QED
        BY <1>1, <1>3, <2>2 DEF RulebaseOK
<1>4. CASE "device_group" \notin a.given /\ "shared" \in a.given
    <2>1. a.given \cap ({"device_group"} \cup Templates) = {}
        BY <1>1, <1>4 DEF Templates
    <2>2. Yielding(a) = {"vsys"}
        BY <1>1, <1>2, <1>4, <2>1 DEF Yielding
    <2> QED
        BY <1>1, <1>4, <2>2 DEF RulebaseOK
<1>5. CASE "device_group" \notin a.given /\ "shared" \notin a.given
    <2>1. Yielding(a) = {}
        BY <1>1, <1>2, <1>5 DEF Yielding
    <2> QED
        BY <1>1, <1>5, <2>1 DEF RulebaseOK
<1> QED
    BY <1>1, <1>3, <1>4, <1>5 DEF RulebaseOK

(* The places of objects, profiles and rules.                              *)
LEMMA LocationSpots ==
    ASSUME NEW f \in LocationFamilies
    PROVE  /\ panorama =>
                 Spots(f) = {Spot("shared", {}, {"shared"}), Spot("device_group", {"device_group"}, {})}
           /\ ~panorama /\ f = "object" =>
                 Spots(f) = {Spot("vsys", {}, {"vsys"}), Spot("shared", {"shared"}, {})}
           /\ ~panorama /\ f = "profile" => Spots(f) = {Spot("shared", {}, {"shared"})}
           /\ ~panorama /\ f = "rule" => Spots(f) = {Spot("vsys", {}, {"vsys"})}
<1>1. f \in {"object", "profile", "rule"} /\ f \notin DeviceFamilies \cup {"scoped"}
    BY DEF LocationFamilies, DeviceFamilies
<1>2. panorama => Spots(f) = OnPanorama(f)
    BY DEF Spots
<1>3. OnPanorama(f) =
         {Spot("shared", {}, {"shared"}), Spot("device_group", {"device_group"}, {})}
    BY <1>1 DEF OnPanorama, LocationFamilies, DeviceFamilies, NetFamilies
<1>4. ~panorama => Spots(f) = OnFirewall(f)
    BY DEF Spots
<1>5. /\ OnFirewall("object") = {Spot("vsys", {}, {"vsys"}), Spot("shared", {"shared"}, {})}
      /\ OnFirewall("profile") = {Spot("shared", {}, {"shared"})}
      /\ OnFirewall("rule") = {Spot("vsys", {}, {"vsys"})}
    BY DEF OnFirewall
<1> QED
    BY <1>2, <1>3, <1>4, <1>5

(* Objects, profiles and rules.                                            *)
LEMMA LocationPlaces ==
    ASSUME NEW f \in LocationFamilies, NEW a \in Asks(f)
    PROVE  Fits(a, resolveLocation(a))
<1> DEFINE g == a.given
           e == g \ Yielding(a)
           InRules(tier, by) ==
               IF f = "rule"
               THEN [At(tier, by) EXCEPT !.rulebase = normalizeRulebase(a.rulebase)]
               ELSE At(tier, by)
           s == <<
    Arm(f = "rule" /\ a.rulebase = "other", Refused),
    Arm(f # "rule" /\ a.rulebase # "none", Refused),
    Arm("device_group" \in g /\ ~panorama, Refused),
    Arm("device_group" \in g, InRules("device_group", {"device_group"})),
    Arm("shared" \in g /\ f = "rule" /\ ~panorama, Refused),
    Arm("shared" \in g, InRules("shared", {"shared"})),
    Arm("vsys" \in g /\ (panorama \/ f = "profile"), Refused),
    Arm("vsys" \in g, At("vsys", {"vsys"})),
    Arm(panorama, InRules("shared", {})),
    Arm(f = "profile", At("shared", {})),
    Arm(TRUE, At("vsys", {}))>>
<1>0. a.family = f
    BY AskParts
<1>1. resolveLocation(a) = Switch(s) /\ DOMAIN s = 1 .. 11
    BY <1>0 DEF resolveLocation
<1>2. /\ s[1].when <=> f = "rule" /\ a.rulebase = "other"
      /\ s[2].when <=> f # "rule" /\ a.rulebase # "none"
      /\ s[3].when <=> "device_group" \in g /\ ~panorama
      /\ s[4].when <=> "device_group" \in g
      /\ s[5].when <=> "shared" \in g /\ f = "rule" /\ ~panorama
      /\ s[6].when <=> "shared" \in g
      /\ s[7].when <=> "vsys" \in g /\ (panorama \/ f = "profile")
      /\ s[8].when <=> "vsys" \in g
      /\ s[9].when <=> panorama
      /\ s[10].when <=> f = "profile"
      /\ s[11].when
    BY DEF Arm
<1>3. /\ s[1].then = Refused
      /\ s[2].then = Refused
      /\ s[3].then = Refused
      /\ s[4].then = InRules("device_group", {"device_group"})
      /\ s[5].then = Refused
      /\ s[6].then = InRules("shared", {"shared"})
      /\ s[7].then = Refused
      /\ s[8].then = At("vsys", {"vsys"})
      /\ s[9].then = InRules("shared", {})
      /\ s[10].then = At("shared", {})
      /\ s[11].then = At("vsys", {})
    BY DEF Arm
<1> HIDE DEF s, InRules
<1>4. \A i \in 1 .. 11 :
        s[i].when /\ (\A j \in 1 .. (i - 1) : ~s[j].when) => Switch(s) = s[i].then
    BY <1>1, SwitchTakes, 11 \in Nat
<1>5. /\ g \subseteq {"vsys", "shared", "device_group"} /\ a.family = f
      /\ e = IF "device_group" \in g THEN {"device_group"}
             ELSE IF "shared" \in g THEN {"shared"} ELSE g
      /\ RulebaseOK(a) <=> IF f = "rule" THEN a.rulebase # "other" ELSE a.rulebase = "none"
    BY LocationAsk
<1>6. /\ panorama =>
            Spots(f) = {Spot("shared", {}, {"shared"}), Spot("device_group", {"device_group"}, {})}
      /\ ~panorama /\ f = "object" =>
            Spots(f) = {Spot("vsys", {}, {"vsys"}), Spot("shared", {"shared"}, {})}
      /\ ~panorama /\ f = "profile" => Spots(f) = {Spot("shared", {}, {"shared"})}
      /\ ~panorama /\ f = "rule" => Spots(f) = {Spot("vsys", {}, {"vsys"})}
      /\ f \in {"object", "profile", "rule"}
    BY LocationSpots DEF LocationFamilies
<1>7. e = g \ Yielding(a)
    OBVIOUS
<1>8. ASSUME NEW tier, NEW by
      PROVE  LET p == [tier |-> tier, by |-> by, rulebase |-> RulebaseOf(a)] IN
             /\ f # "rule" \/ ~panorama => At(tier, by) = p
             /\ f # "rule" \/ panorama => InRules(tier, by) = p
    BY <1>5 DEF At, RulebaseOf, InRules
<1> HIDE DEF e
<1>9. ASSUME RulebaseOK(a), NEW tier, NEW needs, NEW may,
             Spot(tier, needs, may) \in Spots(f),
             needs \subseteq e, e \subseteq needs \cup may,
             Switch(s) = [tier |-> tier, by |-> e, rulebase |-> RulebaseOf(a)]
      PROVE  Fits(a, resolveLocation(a))
    <2> DEFINE p == Spot(tier, needs, may)
    <2>1. p.tier = tier /\ p.needs = needs /\ p.may = may
        BY DEF Spot
    <2>2. p \in Spots(f) /\ Suits(p, e)
        BY <1>9, <2>1 DEF Suits
    <2> HIDE DEF p
    <2>3. Switch(s) = [tier |-> p.tier, by |-> a.given \ Yielding(a),
                       rulebase |-> RulebaseOf(a)]
        BY <1>7, <1>9, <2>1
    <2> QED
        BY <1>1, <1>7, <1>9, <2>2, <2>3, PlaceFits
<1>10. CASE s[1].when \/ s[2].when
    <2>1. Switch(s) = Refused /\ ~RulebaseOK(a)
        BY <1>2, <1>3, <1>4, <1>5, <1>10
    <2>2. Fits(a, Refused)
        BY <2>1, RefusalFits
    <2> QED
        BY <1>1, <2>1, <2>2
<1> DEFINE good == ~s[1].when /\ ~s[2].when
<1>11. CASE /\ good
            /\ (s[3].when \/ (~s[4].when /\ s[5].when) \/ (~s[4].when /\ ~s[6].when /\ s[7].when))
    <2>1. Switch(s) = Refused
        BY <1>2, <1>3, <1>4, <1>11
    <2>2. \A p \in Spots(f) : p.needs \subseteq e => ~(e \subseteq p.needs \cup p.may)
        BY <1>2, <1>5, <1>6, <1>11 DEF Spot
    <2>3. Fits(a, Refused)
        BY <1>7, <2>2, NoSpotFits
    <2> QED
        BY <1>1, <2>1, <2>3
<1>12. CASE good /\ ~s[3].when /\ s[4].when
    <2>1. /\ Switch(s) = InRules("device_group", {"device_group"})
          /\ RulebaseOK(a)
          /\ panorama
          /\ e = {"device_group"}
        BY <1>2, <1>3, <1>4, <1>5, <1>12
    <2>2. Spot("device_group", {"device_group"}, {}) \in Spots(f)
        BY <1>6, <2>1
    <2> QED
        BY <1>8, <1>9, <2>1, <2>2
<1>13. CASE good /\ ~s[4].when /\ ~s[5].when /\ s[6].when
    <2>1. /\ Switch(s) = InRules("shared", {"shared"})
          /\ RulebaseOK(a)
          /\ (f # "rule" \/ panorama)
          /\ e = {"shared"}
        BY <1>2, <1>3, <1>4, <1>5, <1>13
    <2>2. Switch(s) = [tier |-> "shared", by |-> e, rulebase |-> RulebaseOf(a)]
        BY <1>8, <2>1
    <2>3. CASE panorama \/ f = "profile"
        <3>1. Spot("shared", {}, {"shared"}) \in Spots(f)
            BY <1>6, <2>3
        <3> QED
            BY <1>9, <2>1, <2>2, <3>1
    <2>4. CASE ~panorama /\ f = "object"
        <3>1. Spot("shared", {"shared"}, {}) \in Spots(f)
            BY <1>6, <2>4
        <3> QED
            BY <1>9, <2>1, <2>2, <3>1
    <2> QED
        BY <1>6, <2>1, <2>3, <2>4
<1>14. CASE /\ good /\ ~s[4].when /\ ~s[6].when /\ ~s[7].when
            /\ (s[8].when \/ (~s[9].when /\ ~s[10].when))
    <2>1. ~panorama /\ f # "profile" /\ e \subseteq {"vsys"} /\ RulebaseOK(a)
        BY <1>2, <1>5, <1>14
    <2>2. Switch(s) = At("vsys", e)
        <3>1. CASE s[8].when
            <4>1. e = {"vsys"}
                BY <1>2, <1>5, <2>1, <1>14, <3>1
            <4> QED
                BY <1>2, <1>3, <1>4, <1>14, <3>1, <4>1
        <3>2. CASE ~s[8].when
            <4>1. e = {}
                BY <1>2, <1>5, <2>1, <1>14, <3>2
            <4> QED
                BY <1>2, <1>3, <1>4, <1>14, <3>2, <4>1
        <3> QED
            BY <3>1, <3>2
    <2>3. Spot("vsys", {}, {"vsys"}) \in Spots(f)
        BY <1>6, <2>1
    <2> QED
        BY <1>8, <1>9, <2>1, <2>2, <2>3
<1>15. CASE /\ good /\ ~s[4].when /\ ~s[6].when /\ ~s[7].when /\ ~s[8].when
            /\ (s[9].when \/ s[10].when)
    <2>1. e = {} /\ RulebaseOK(a) /\ (panorama \/ f = "profile")
        BY <1>2, <1>5, <1>15
    <2>2. Switch(s) = [tier |-> "shared", by |-> e, rulebase |-> RulebaseOf(a)]
        <3>1. CASE panorama
            <4>1. Switch(s) = InRules("shared", e)
                BY <1>2, <1>3, <1>4, <1>15, <2>1, <3>1
            <4> QED
                BY <1>8, <3>1, <4>1
        <3>2. CASE ~panorama
            <4>1. Switch(s) = At("shared", e)
                BY <1>2, <1>3, <1>4, <1>15, <2>1, <3>2
            <4> QED
                BY <1>8, <2>1, <3>2, <4>1
        <3> QED
            BY <3>1, <3>2
    <2>3. Spot("shared", {}, {"shared"}) \in Spots(f)
        BY <1>6, <2>1
    <2> QED
        BY <1>9, <2>1, <2>2, <2>3
<1> QED
    BY <1>2, <1>10, <1>11, <1>12, <1>13, <1>14, <1>15

(* Each family has its resolver, and each is right.                        *)
LEMMA EveryResolverFits ==
    ASSUME NEW f \in Families, NEW a \in Asks(f), Registered(f)
    PROVE  Fits(a, Resolved(a))
<1>1. a.family = f
    BY AskParts
<1>2. CASE f \in LocationFamilies
    <2>1. Resolved(a) = resolveLocation(a)
        BY <1>1, <1>2 DEF Resolved, LocationFamilies, DeviceFamilies, NetFamilies
    <2> QED
        BY <1>2, <2>1, LocationPlaces
<1>3. CASE f \in DeviceFamilies
    <2>1. Resolved(a) = resolveDeviceScope(f, a.given)
        BY <1>1, <1>3 DEF Resolved, LocationFamilies, DeviceFamilies, NetFamilies
    <2> QED
        BY <1>3, <2>1, DevicePlaces
<1>4. CASE f \in NetFamilies
    <2>1. Resolved(a) = resolveNetScope(f, a.given)
        BY <1>1, <1>4 DEF Resolved, LocationFamilies, DeviceFamilies, NetFamilies
    <2> QED
        BY <1>4, <2>1, NetPlaces
<1>5. CASE f = "scoped"
    <2>1. Resolved(a) = resolveProfileScope(a.given)
        BY <1>1, <1>5 DEF Resolved, LocationFamilies, DeviceFamilies, NetFamilies
    <2> QED
        BY <1>5, <2>1, ProfileScopePlaces
<1>6. CASE f = "mgt"
    <2>1. Resolved(a) = resolveMgtScope(a.given)
        BY <1>1, <1>6 DEF Resolved, LocationFamilies, DeviceFamilies, NetFamilies
    <2> QED
        BY <1>6, <2>1, MgtPlaces
<1>7. CASE f = "below"
    <2>1. Resolved(a) = resolveParentNetScope(a.given)
        BY <1>1, <1>7 DEF Resolved, LocationFamilies, DeviceFamilies, NetFamilies
    <2> QED
        BY <1>7, <2>1, BelowPlaces
<1>8. CASE f = "zone"
    <2>1. Resolved(a) = resolveZoneLocation(a.given)
        BY <1>1, <1>8 DEF Resolved, LocationFamilies, DeviceFamilies, NetFamilies
    <2> QED
        BY <1>8, <2>1, ZonePlaces
<1>9. CASE f = "certificate"
    <2>1. Resolved(a) = resolveCertScope(a.given)
        BY <1>1, <1>9 DEF Resolved, LocationFamilies, DeviceFamilies, NetFamilies
    <2> QED
        BY <1>9, <2>1, CertPlaces
<1>10. CASE f = "panorama"
    <2>1. Resolved(a) = At("panorama", {}) /\ panorama
        BY <1>1, <1>10 DEF Resolved, Registered, LocationFamilies, DeviceFamilies,
           NetFamilies
    <2>2. /\ a.given = {}
          /\ a.given = a.given \ Yielding(a)
          /\ RulebaseOK(a)
          /\ RulebaseOf(a) = "none"
        BY <1>10, AskParts, PlainAsk DEF Selectors, LocationFamilies,
           DeviceFamilies, NetFamilies
    <2>3. Spot("panorama", {}, {}) \in Spots(f)
        BY <1>10, <2>1 DEF Spots, OnPanorama, LocationFamilies, DeviceFamilies,
           NetFamilies
    <2> QED
        BY <2>1, <2>2, <2>3, AtFits
<1> QED
    BY <1>2, <1>3, <1>4, <1>5, <1>6, <1>7, <1>8, <1>9, <1>10, FamiliesAssumption

(* WhereAsked: each call works in the place that its selectors name, no    *)
(* selector dropped but those that yield, and is refused when there is no  *)
(* such place, for every family, every selection and either device type    *)
(* (resolveLocation and the resolvers of the *_scope.go files).            *)
THEOREM PlacesAreAsked == ScopeSpec => []WhereAsked
<1>1. ScopeInit => WhereAsked
    BY DEF ScopeInit, WhereAsked
<1>2. WhereAsked /\ [ScopeNext]_scopeVars => WhereAsked'
    <2> SUFFICES ASSUME WhereAsked, [ScopeNext]_scopeVars PROVE WhereAsked'
        OBVIOUS
    <2>1. panorama' = panorama
        BY DEF ScopeNext, Ask, scopeVars
    <2>2. WhereAsked' <=> (asked' # Nothing => Fits(asked', place'))
        BY <2>1 DEF WhereAsked, Fits, Meant, Effective, Yielding, RulebaseOf
    <2>3. CASE UNCHANGED scopeVars
        BY <2>3 DEF scopeVars, WhereAsked, Meant, Effective, Yielding
    <2>4. ASSUME NEW f \in Families, NEW a \in Asks(f), Ask(f, a)
          PROVE  WhereAsked'
        BY <2>2, <2>4, EveryResolverFits DEF Ask
    <2> QED
        BY <2>3, <2>4 DEF ScopeNext
<1> QED
    BY <1>1, <1>2, PTL DEF ScopeSpec
=============================================================================
