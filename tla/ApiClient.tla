----------------------------- MODULE ApiClient -----------------------------
(***************************************************************************)
(* How the web front end talks to the daemon: lib/api.ts with the checks   *)
(* and routes of the two servers, as operators.  WebUI uses them.          *)
(*                                                                         *)
(* A path is the sequence of its segments, a reply a code and a body; of   *)
(* texts only what a program compares is kept.                             *)
(***************************************************************************)
EXTENDS Naturals, SequencesExt

CONSTANTS
    Token,     \* tokens a person or a configuration file can hold
    NoToken,   \* the empty token, and the missing item of localStorage
    Plugin     \* plugins that the manager knows

ASSUME ApiClientAssumption == NoToken \notin Token

AnyToken == Token \cup {NoToken}

(* Both servers compare the Authorization header with their own token; an  *)
(* empty token of the server accepts everything.  The front end never      *)
(* sends a token as a query parameter.                                     *)
Accepts(own, header) == own = NoToken \/ header = own

-----------------------------------------------------------------------------
(* Requests of the front end, by their place in the api object. *)
Reads == {"status", "scanners", "findings", "metrics"}

ReadPath(kind) == <<"api", kind>>
TriggerPath(p) == <<"api", "scanners", "trigger", p>>

(* What a handler finds behind a path: each route is registered with and   *)
(* without the prefix /api; the proxy passes paths on as they are.         *)
Unprefixed(path) == IF Head(path) = "api" THEN Tail(path) ELSE path

RoutedTo(path) ==
    LET p == Unprefixed(path)
    IN  IF Len(p) = 1 /\ Head(p) \in Reads THEN Head(p)
        ELSE IF IsPrefix(<<"scanners", "trigger">>, p) THEN "trigger"
        ELSE "not found"

(* handleTrigger takes the name of the plugin from the whole path. *)
TriggerName(path) ==
    LET prefix == <<"scanners", "trigger">>
    IN  IF IsPrefix(prefix, path) THEN SubSeq(path, Len(prefix) + 1, Len(path)) ELSE path

Known(name) == \E p \in Plugin : name = <<p>>

-----------------------------------------------------------------------------
(* Replies: "ok", 401, "failed" (the scan), "unknown" (no such plugin), or *)
(* no reply at all.                                                        *)
Codes == {"ok", "unauthorized", "failed", "unknown", "broken"}

(* Mutant: the code itself is taken for the message. *)
ThrownCode(code) == code

(* The error that fetch and fetchText throw. *)
Thrown(code) ==
    CASE code = "ok" -> "none"
      [] code = "unauthorized" -> "Unauthorized"
      [] OTHER -> "Request failed"
=============================================================================
