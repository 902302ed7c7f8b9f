--------------------------- MODULE DeploymentBoundary ---------------------------
(* Who may talk to the process, and to whom it may talk: the settings a start *)
(* accepts, the judgement of each request before any handler sees it, and the *)
(* guard of outgoing connections (security/deployment.py, network_guard.py,  *)
(* lifespan and middleware of main.py).  Addresses stand for their class.    *)
EXTENDS Naturals

CONSTANTS
  Settings  \* offline, token, https, trust, networks

VARIABLES
  settings,  \* the environment the process is started in
  serving,   \* startup has come to its end
  guarded,   \* _guard_enabled, with hook and create_connection replaced
  answer,    \* the last request with the status of its answer
  dial       \* the last connection that was tried, and whether it left the guard
BoundaryVars == <<settings, serving, guarded, answer, dial>>

(* Tokens: blanks around one are stripped; compare_digest takes no letters   *)
(* beyond ASCII.                                                             *)
Tokens == {"", "short", "long", " long ", "accented"}
strip(token) == IF token = " long " THEN "long" ELSE token
Ascii(token) == token # "accented"
LongEnough(token) == token \in {"long", "accented"}

Requesters ==
  [host : {"loopback", "gateway", "elsewhere"}, scheme : {"http", "https"},
   forwarded : {"", "http", "https"}, bearer : {"", "other", "long", "accented"}]

is_loopback_host(host) == host = "loopback"

(* One network that cannot be parsed, or is all addresses, spoils the list.  *)
ParsesAll(networks) == networks \cap {"malformed", "universal"} = {}
_parse_proxy_networks(networks) == networks \ {"blank"}

is_trusted_proxy_host(host, networks) ==
  ParsesAll(networks) /\ host \in _parse_proxy_networks(networks)

validate_online_configuration(s) ==
  \/ s.offline
  \/ /\ LongEnough(strip(s.token))
     /\ s.https
     /\ s.trust => ParsesAll(s.networks) /\ _parse_proxy_networks(s.networks) # {}

Encrypted(s, r) ==
  \/ r.scheme = "https"
  \/ s.trust /\ is_trusted_proxy_host(r.host, s.networks) /\ r.forwarded = "https"

(* 500: the comparison raises, before the middleware can answer.             *)
bearer_status(expected, supplied) ==
  CASE expected = "" \/ supplied = "" -> 401
    [] expected # "" /\ supplied # "" /\ ~(Ascii(expected) /\ Ascii(supplied)) -> 500
    [] OTHER -> IF supplied = expected THEN 200 ELSE 401

judge(s, r, expected) ==
  CASE s.offline -> IF is_loopback_host(r.host) THEN 200 ELSE 403
    [] ~s.offline /\ s.https /\ ~Encrypted(s, r) -> 426
    [] OTHER -> bearer_status(expected, r.bearer)

(* Slip: the configured token is compared as it is written.                  *)
authorize_unstripped(s, r) == judge(s, r, s.token)
authorize_request(s, r) == judge(s, r, strip(s.token))

-----------------------------------------------------------------------------
ASSUME BoundaryAssumption ==
  \A s \in Settings : s.token \in Tokens /\ {s.offline, s.https, s.trust} \subseteq BOOLEAN

NoAnswer == [status |-> 0]
NoDial == [to |-> "nobody"]

(* lifespan: a start that is refused leaves the schema and the jobs alone.   *)
Startup ==
  /\ ~serving /\ validate_online_configuration(settings)
  /\ serving' = TRUE /\ guarded' = settings.offline
  /\ UNCHANGED <<settings, answer, dial>>

Configure ==
  /\ ~serving /\ settings' \in Settings
  /\ UNCHANGED <<serving, guarded, answer, dial>>

Exit ==
  /\ serving
  /\ serving' = FALSE /\ guarded' = FALSE /\ answer' = NoAnswer /\ dial' = NoDial
  /\ UNCHANGED settings

Judged ==
  /\ serving /\ dial = NoDial
  /\ \E r \in Requesters :
        answer' = [status |-> authorize_request(settings, r), by |-> r]
  /\ UNCHANGED <<settings, serving, guarded, dial>>

_is_loopback_literal(host) == host = "loopback"

(* What a call out of the process raises on its way: create_connection      *)
(* resolves, then connects; a datagram and the older lookups have events of  *)
(* their own.                                                                *)
Raised ==
  [create_connection |-> {"getaddrinfo", "connect"}, connect |-> {"connect"},
   getaddrinfo |-> {"getaddrinfo"}, sendto |-> {"sendto"}, sendmsg |-> {"sendmsg"},
   gethostbyname |-> {"gethostbyname"}, gethostbyaddr |-> {"gethostbyaddr"},
   getnameinfo |-> {"getnameinfo"}]

(* Slip: the hook looks at connections only.                                 *)
hook_for_connections(event, host) == event = "connect" /\ ~_is_loopback_literal(host)
(* Any other event falls through.                                            *)
_audit_hook(event, host) == event \in {"getaddrinfo", "connect"} /\ ~_is_loopback_literal(host)
guarded_create_connection(call, host) ==
  call = "create_connection" /\ ~_is_loopback_literal(host)

Blocks(call, host) ==
  \/ guarded_create_connection(call, host)
  \/ \E event \in Raised[call] : _audit_hook(event, host)

(* A name is never resolved to find out where it leads, and the path of a   *)
(* socket is taken for one.                                                  *)
Dial ==
  /\ serving /\ answer = NoAnswer
  /\ \E call \in DOMAIN Raised, host \in {"loopback", "elsewhere", "a name", "a path"} :
        dial' = [to |-> host, call |-> call, left |-> guarded => ~Blocks(call, host)]
  /\ UNCHANGED <<settings, serving, guarded, answer>>

BoundaryInit ==
  /\ settings \in Settings
  /\ serving = FALSE /\ guarded = FALSE /\ answer = NoAnswer /\ dial = NoDial

BoundaryNext == Configure \/ Startup \/ Exit \/ Judged \/ Dial

-----------------------------------------------------------------------------

BoundaryTypeOK ==
  /\ settings \in Settings /\ serving \in BOOLEAN
  /\ answer = NoAnswer \/ answer.status \in {200, 401, 403, 426, 500}
  /\ dial = NoDial \/ dial.left \in BOOLEAN

(* The datagrams and the lookups of the older functions.                     *)
Loose == {"sendto", "sendmsg", "gethostbyname", "gethostbyaddr", "getnameinfo"}

(* Whatever settings a start accepts: a handler sees only requests of this   *)
(* machine, or, online, requests with the token that came encrypted to the   *)
(* service or to a proxy that was named; nobody with that standing is        *)
(* turned away, unless the token has a letter beyond ASCII, with which       *)
(* startup accepts it and every request that carries one fails.  Offline no  *)
(* stream is opened to another machine, getaddrinfo resolves no name but     *)
(* this machine's, and what goes to its literal address passes; but what is  *)
(* Loose leaves, for all that network_guard.py:3 says of connections and of  *)
(* DNS.                                                                      *)
BoundaryHolds ==
  /\ serving /\ answer # NoAnswer =>
       LET r == answer.by
           encrypted == \/ r.scheme = "https"
                        \/ /\ settings.trust /\ r.host \in settings.networks
                           /\ r.forwarded = "https"
           standing == IF settings.offline THEN r.host = "loopback"
                       ELSE r.bearer = strip(settings.token) /\ encrypted
       IN /\ answer.status = 200 => standing
          /\ standing =>
               \/ answer.status = 200
               \/ answer.status = 500 /\ settings.token = "accented"
  /\ settings.offline /\ dial # NoDial =>
       (dial.left <=> dial.to = "loopback" \/ dial.call \in Loose)
=============================================================================
