------------------------------ MODULE MCServer ------------------------------
(* The environments of the small instance: a good one with one variable of *)
(* any value, and the combinations of those that the permission to write,  *)
(* the transport's door and the verification of the device depend on.      *)
EXTENDS Server

Flag == {"unset", "true", "false", "bad"}
Domain == [
    host              |-> {"unset", "name"},
    host_alias        |-> {"unset", "name"},
    login             |-> SUBSET {"api_key", "username", "password"},
    skip_verify       |-> Flag,
    skip_verify_alias |-> Flag,
    allow_writes      |-> Flag,
    read_only         |-> {"unset", "true", "false"},
    job_wait          |-> {"unset", "zero", "one", "day", "over", "bad"},
    transport         |-> {"unset", "stdio", "http", "bad"},
    http_host         |-> {"unset", "loopback", "open"},
    http_token        |-> {"unset", "token"},
    ca_cert           |-> {"unset", "readable", "unreadable"},
    others            |-> {"parse", "bad"}]

Good == [
    host |-> "name", host_alias |-> "unset", login |-> {"api_key"},
    skip_verify |-> "unset", skip_verify_alias |-> "unset",
    allow_writes |-> "true", read_only |-> "unset", job_wait |-> "unset",
    transport |-> "http", http_host |-> "open", http_token |-> "token",
    ca_cert |-> "unset", others |-> "parse"]

MCEnvs ==
    UNION {{[Good EXCEPT ![x] = v] : v \in Domain[x]} : x \in DOMAIN Domain}
    \cup {[Good EXCEPT !.allow_writes = w, !.read_only = r] :
            w \in Domain.allow_writes, r \in Domain.read_only}
    \cup {[Good EXCEPT !.transport = t, !.http_host = h, !.http_token = k] :
            t \in Domain.transport, h \in Domain.http_host, k \in Domain.http_token}
    \cup {[Good EXCEPT !.skip_verify = s, !.skip_verify_alias = a, !.ca_cert = c] :
            s \in Domain.skip_verify, a \in {"unset", "true"}, c \in Domain.ca_cert}
=============================================================================
