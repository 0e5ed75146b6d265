------------------------------ MODULE Clients -------------------------------
(***************************************************************************)
(* Clients of one backend from transport_global_init to                    *)
(* transport_global_cleanup (src/transport.c, the *_global_*, *_context_*   *)
(* and *_config_apply functions of the backends): what the library and the *)
(* contexts hold, and which settings a configuration leaves in force.       *)
(*                                                                         *)
(* The application initialises and cleans up on one thread, as the header   *)
(* of the curl backend asks, keeps a client between its own global_init and *)
(* global_cleanup, and applies configurations at any time.                  *)
(***************************************************************************)
EXTENDS Naturals, Sequences, SequencesExt

CONSTANTS
  NumClients,     \* clients of the application
  ClientBackends, \* the builds
  Configs,        \* configurations that are applied
  MaxApplies      \* bound: config_apply calls

NONE == "none"    \* NULL, 0, the default mask

(* The parts of an HttpConfig a backend may support.                        *)
Settings == {"timeout", "verify", "redirects", "tls", "agent", "proxy", "auth", "jar"}

ASSUME ClientBounds ==
  /\ NumClients \in Nat /\ MaxApplies \in Nat
  /\ \A config \in Configs : DOMAIN config = Settings
  /\ ClientBackends \subseteq
       {"curl", "libuv", "libevent", "raw", "winhttp", "wininet", "libsoup3", "fetch", "wasm",
        "msh3", "apple", "picoquic", "xquic"}

VARIABLES
  library,    \* [backend, count, up, applies]: the reference count, the library's own
              \* state, config_apply calls so far
  client      \* for each client: stage, what the context owns and has in force

clientVars == <<library, client>>

Clients == 1..NumClients
Backend == library.backend

NewClient ==
  [stage |-> "new", own |-> {}, heap |-> [r \in Settings \cup {"context", "handle"} |-> 0],
   force |-> [f \in Settings |-> NONE],
   last |-> <<>>]                 \* history: the configuration in force, if any

ClientInit ==
  /\ library \in [backend : ClientBackends, count : {0}, up : {0}, applies : {0}]
  /\ client = [c \in Clients |-> NewClient]

-----------------------------------------------------------------------------
(* Who counts the initialisations: with a count the library is started by   *)
(* the first and stopped by the last; winsock (raw sockets) counts itself.  *)
Counted == {"curl", "libuv", "libevent", "libsoup3", "fetch", "wasm", "msh3", "picoquic", "xquic"}
MayFailToStart == {"curl", "msh3", "raw"}

Start ==
  library' = [library EXCEPT !.count = @ + 1,
                             !.up = IF Backend \in Counted /\ library.count > 0 THEN @ ELSE @ + 1]

Mutant_cleanup_stops_at_once ==
  library' = [library EXCEPT !.count = @ - 1, !.up = IF @ > 0 THEN @ - 1 ELSE @]

Stop ==
  library' = [library EXCEPT !.count = @ - 1,
                             !.up = IF Backend \in Counted /\ library.count > 1 THEN @ ELSE @ - 1]

transport_global_init(c) ==
  /\ client[c].stage = "new"
  /\ \/ Start /\ client' = [client EXCEPT ![c].stage = "ready"]
     \/ /\ Backend \in MayFailToStart /\ (Backend \in Counted => library.count = 0)
        /\ client' = [client EXCEPT ![c].stage = "ended"]
        /\ UNCHANGED library

transport_global_cleanup(c) ==
  /\ client[c].stage \in {"ready", "closed"}
  /\ Stop
  /\ client' = [client EXCEPT ![c].stage = "ended"]

-----------------------------------------------------------------------------
(* What context_init acquires, in order; the copied agent is the default's. *)
Acquires ==
  CASE Backend = "curl" -> <<"context", "handle">>
    [] Backend \in {"winhttp", "wininet"} -> <<"handle", "context", "agent">>
    [] Backend \in {"libsoup3", "picoquic"} -> <<"context", "agent", "handle">>
    [] OTHER -> <<"context", "agent">>

Held(heap, rs) == [r \in DOMAIN heap |-> IF r \in rs THEN heap[r] + 1 ELSE heap[r]]
Freed(heap, rs) == [r \in DOMAIN heap |-> IF r \in rs THEN heap[r] - 1 ELSE heap[r]]

(* http_config_init: the agent is the default one.                          *)
InitialForce == [f \in Settings |-> IF f = "agent" THEN "default" ELSE NONE]

(* A failure at one step releases what the steps before have acquired.      *)
context_init(c) ==
  /\ client[c].stage = "ready"
  /\ \/ LET got == ToSet(Acquires)
        IN client' = [client EXCEPT ![c].stage = "live", ![c].own = got,
                                    ![c].heap = Held(@, got), ![c].force = InitialForce]
     \/ client' = [client EXCEPT ![c].stage = "closed"]
  /\ UNCHANGED library

(* transport_factory_cleanup_client; a second call finds no transport.      *)
context_free(c) ==
  /\ client[c].stage = "live"
  /\ client' = [client EXCEPT ![c].stage = "closed", ![c].own = {},
                              ![c].heap = Freed(@, client[c].own)]
  /\ UNCHANGED library

-----------------------------------------------------------------------------
(* config_apply as the list of what it does.  A setting may be              *)
(*   set: it follows the configuration;                                    *)
(*   try: the same, or the call fails there;                               *)
(*   given: it follows the configuration if that gives it, or fails there;  *)
(*   withproxy: the same, and a proxy must be given too;                    *)
(*   copy: the old string is freed, a given one copied, or it fails there;  *)
(*   reopen: the handle that stands for it is closed and one opened anew.   *)
All(kind, fields) == [i \in 1..Len(fields) |-> [kind |-> kind, field |-> fields[i]]]
Flags == All("set", <<"verify", "redirects">>)
Timeout(kind) == All(kind, <<"timeout">>)
Copies(fields) == All("copy", fields)
Jar == All("set", <<"jar">>)

http_curl_config_apply ==
  All("given", <<"tls">>) \o All("try", <<"timeout", "verify", "redirects">>)
  \o All("given", <<"agent">>) \o All("try", <<"proxy">>) \o All("withproxy", <<"auth">>) \o Jar

Mutant_proxy_copied_if_given ==
  Timeout("set") \o Flags \o Copies(<<"agent">>) \o All("given", <<"proxy">>) \o Copies(<<"auth">>)

http_libuv_config_apply == Timeout("set") \o Flags \o Copies(<<"agent", "proxy", "auth">>)
http_libevent_config_apply == Timeout("set") \o Flags \o Copies(<<"agent", "proxy", "auth">>)
http_raw_config_apply == Timeout("given")
http_winhttp_config_apply ==
  Timeout("given") \o All("try", <<"proxy">>) \o All("withproxy", <<"auth">>) \o Flags \o Jar
http_wininet_config_apply == Timeout("given") \o Flags \o Jar \o Copies(<<"auth">>)
http_libsoup3_config_apply ==
  Timeout("given") \o Flags \o Copies(<<"agent", "proxy", "auth">>) \o Jar
http_fetch_config_apply == Timeout("set") \o Flags \o Copies(<<"agent", "proxy">>)
http_wasm_config_apply == Timeout("set") \o Flags
http_msh3_config_apply == All("reopen", <<"verify">>) \o Timeout("set") \o All("set", <<"redirects">>)
http_apple_config_apply == All("set", <<"verify", "jar">>)
http_picoquic_config_apply == Timeout("set") \o Flags
http_xquic_config_apply == Timeout("set") \o Flags

ConfigSteps ==
  CASE Backend = "curl" -> http_curl_config_apply
    [] Backend = "libuv" -> http_libuv_config_apply
    [] Backend = "libevent" -> http_libevent_config_apply
    [] Backend = "raw" -> http_raw_config_apply
    [] Backend = "winhttp" -> http_winhttp_config_apply
    [] Backend = "wininet" -> http_wininet_config_apply
    [] Backend = "libsoup3" -> http_libsoup3_config_apply
    [] Backend = "fetch" -> http_fetch_config_apply
    [] Backend = "wasm" -> http_wasm_config_apply
    [] Backend = "msh3" -> http_msh3_config_apply
    [] Backend = "apple" -> http_apple_config_apply
    [] Backend = "picoquic" -> http_picoquic_config_apply
    [] Backend = "xquic" -> http_xquic_config_apply

(* One step that succeeds, on a client x.                                   *)
Given(step, config) ==
  CASE step.kind = "given" -> config[step.field] # NONE
    [] step.kind = "withproxy" -> config.proxy # NONE /\ config[step.field] # NONE
    [] OTHER -> TRUE

Released(x, step) ==
  IF step.kind \in {"copy", "reopen"} /\ step.field \in x.own
  THEN [x EXCEPT !.heap = Freed(@, {step.field}), !.own = @ \ {step.field},
                 !.force[step.field] = NONE]
  ELSE IF step.kind \in {"copy", "reopen"} THEN [x EXCEPT !.force[step.field] = NONE]
  ELSE x

Succeeds(x, step, config) ==
  LET y == Released(x, step)
      copied == step.kind = "reopen" \/ (step.kind = "copy" /\ config[step.field] # NONE)
  IN IF ~Given(step, config) THEN x
     ELSE [y EXCEPT !.force[step.field] = config[step.field],
                    !.own = IF copied THEN @ \cup {step.field} ELSE @,
                    !.heap = IF copied THEN Held(@, {step.field}) ELSE @]

CanFail(step, config) ==
  step.kind # "set" /\ Given(step, config) /\ (step.kind = "copy" => config[step.field] # NONE)

(* A client after the first n steps, for every n.                           *)
Stepwise(x, steps, config) ==
  LET after[n \in 0..Len(steps)] ==
        IF n = 0 THEN x ELSE Succeeds(after[n - 1], steps[n], config)
  IN after

(* All steps, or those before one that fails.                               *)
config_apply(c, config) ==
  LET steps == ConfigSteps
      after == Stepwise(client[c], steps, config)
  IN /\ client[c].stage = "live" /\ library.applies < MaxApplies
     /\ \/ client' = [client EXCEPT ![c] = [after[Len(steps)] EXCEPT !.last = <<config>>]]
        \/ \E n \in 1..Len(steps) :
             /\ CanFail(steps[n], config)
             /\ client' = [client EXCEPT ![c] = [Released(after[n - 1], steps[n]) EXCEPT
                                                   !.last = <<>>]]
     /\ library' = [library EXCEPT !.applies = @ + 1]

-----------------------------------------------------------------------------
ClientSteps(c) ==
  \/ transport_global_init(c) \/ transport_global_cleanup(c)
  \/ context_init(c) \/ context_free(c)
  \/ \E config \in Configs : config_apply(c, config)

ClientNext == \E c \in Clients : ClientSteps(c)

ClientSpec == ClientInit /\ [][ClientNext]_clientVars

-----------------------------------------------------------------------------
(* Settings that outlive the configuration that gave them, if a later one   *)
(* does not give them: see the README.                                     *)
Lingers ==
  CASE Backend = "curl" -> {"tls", "agent", "auth"}
    [] Backend = "winhttp" -> {"timeout", "auth"}
    [] Backend \in {"wininet", "raw", "libsoup3"} -> {"timeout"}
    [] OTHER -> {}

Supported == {ConfigSteps[i].field : i \in DOMAIN ConfigSteps}

(* After a configuration was applied without error, it alone decides what   *)
(* is in force, whatever was applied before and failed on the way: nobody   *)
(* goes on through the proxy, with the credentials or without the           *)
(* verification of an earlier one.                                         *)
LastConfigRules ==
  \A c \in Clients :
    LET x == client[c]
    IN (x.stage = "live" /\ x.last # <<>>) =>
         \A f \in Supported \ Lingers : x.force[f] = x.last[1][f]

(* A context owns one copy of each string and handle, and none before it is *)
(* created, after it is freed, or when a call failed half-way; the library  *)
(* runs while a client needs it, is started once, and stops with the last.  *)
ResourcesOwned ==
  /\ \A c \in Clients : \A r \in DOMAIN client[c].heap :
       client[c].heap[r] = IF r \in client[c].own THEN 1 ELSE 0
  /\ \A c \in Clients : client[c].stage # "live" => client[c].own = {}
  /\ LET using == {c \in Clients : client[c].stage \in {"ready", "live", "closed"}}
     IN /\ (library.up > 0) <=> (using # {})
        /\ Backend \in Counted => library.up <= 1

=============================================================================
