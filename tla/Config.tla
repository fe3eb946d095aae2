------------------------------- MODULE Config -------------------------------
(***************************************************************************)
(* How the environment becomes the server's configuration (config.go).     *)
(* A variable is unset, which blank and empty are too, or has a value of a *)
(* kind; bad is one that does not parse.  What a configuration has beyond  *)
(* the fields below (device address, port, log level) only has to parse.   *)
(***************************************************************************)

CONSTANT NoConfig   \* LoadConfig has returned an error

(* The first variable that is set, the project's own name before pango's.  *)
envFirst(primary, alias) == IF primary # "unset" THEN primary ELSE alias

isSet(x) == x # "unset"

(* Whatever parses as a boolean, and false when unset.                     *)
boolEnvOK(x) == x \in {"unset", "true", "false"}

(* An API key, or else a username with a password.                         *)
hasLogin(env) == "api_key" \in env.login \/ {"username", "password"} \subseteq env.login

(* Mutant: writes are on unless they are switched off.                     *)
readOnlyUnlessDenied(env) == env.allow_writes = "false"

(* Writes are opt-in.                                                      *)
readOnlyFromEnv(env) == env.allow_writes # "true"

(* A value of PANOS_READ_ONLY that lingers is an error, whatever it says.  *)
readOnlyOK(env) == ~isSet(env.read_only) /\ boolEnvOK(env.allow_writes)

(* 1 second to 24 hours; a larger number would wrap once in nanoseconds.   *)
jobWaitOK(env) == env.job_wait \in {"unset", "one", "day"}

transport(env) == IF isSet(env.transport) THEN env.transport ELSE "stdio"

(* Unset is 127.0.0.1.                                                     *)
isLoopback(env) == env.http_host \in {"unset", "loopback"}

skipVerify(env) == envFirst(env.skip_verify, env.skip_verify_alias) = "true"

(* Mutant: any address may be bound without a token.                       *)
validateTLS(env) ==
    /\ isSet(env.ca_cert) => ~skipVerify(env) /\ env.ca_cert = "readable"

(* Verification is off or has a CA, not both, the CA must be readable now, *)
(* and only a loopback address may go without a token.                     *)
validateTLSAndAuth(env) ==
    /\ isSet(env.ca_cert) => ~skipVerify(env) /\ env.ca_cert = "readable"
    /\ transport(env) = "http" /\ ~isSet(env.http_token) => isLoopback(env)

configOK(env) ==
    /\ isSet(envFirst(env.host, env.host_alias))
    /\ hasLogin(env)
    /\ boolEnvOK(envFirst(env.skip_verify, env.skip_verify_alias))
    /\ readOnlyOK(env)
    /\ jobWaitOK(env)
    /\ transport(env) \in {"stdio", "http"}
    /\ validateTLSAndAuth(env)
    /\ env.others = "parse"

Configs == [read_only : BOOLEAN, transport : {"stdio", "http"},
            http_token : BOOLEAN, has_ca : BOOLEAN]
ASSUME NoConfigAssumption == NoConfig \notin Configs

LoadConfig(env) ==
    IF ~configOK(env) THEN NoConfig
    ELSE [read_only   |-> readOnlyFromEnv(env),
          transport   |-> transport(env),
          http_token  |-> isSet(env.http_token),
          has_ca      |-> isSet(env.ca_cert)]
=============================================================================
