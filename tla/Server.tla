------------------------------- MODULE Server -------------------------------
(***************************************************************************)
(* One request from the moment hyper hands it over until its answer:       *)
(* handle_request and ServeRuntime::dispatch (synsema-stdlib/src/server.rs)*)
(* with the handlers of the program, the host's auth task, the upstream of *)
(* a proxy route and the SSE body seen from outside.  Whether the rate     *)
(* limiter admits the request and whether a stream slot is free is open    *)
(* here; RateLimiter and ServePool model them.                             *)
(*                                                                         *)
(* server: [default, vhosts, private, cors]; a host: [pattern, routes,     *)
(* mounts, auth], auth a function from the tokens it knows to users; a     *)
(* route: [method, path, auth, streaming, limited, proxy, gives].          *)
(***************************************************************************)
EXTENDS Routing

CONSTANTS
    Services,   \* the servers
    Requests    \* what clients send: [method, host, path, token, accept,
                \* json, body, known, range]

(* What a handler gives: a value with its status, content, a violated      *)
(* `expect', an error; what an upstream answers: a status.                 *)
Gives == {"value", "content", "invalid", "error"}

(* What a program can declare: its hosts with their routes, mounts and     *)
(* users, in the order of the program.                                     *)
IsHost(h) ==
    /\ h \in [pattern : {h.pattern}, routes : {h.routes}, mounts : {h.mounts}, auth : {h.auth}]
    /\ h.pattern \in [wild : BOOLEAN, labels : {h.pattern.labels}]
    /\ h.routes \in Seq(ToSet(h.routes)) /\ h.mounts \in Seq(ToSet(h.mounts))
    /\ \A r \in ToSet(h.routes) :
          /\ r.path \in Seq(ToSet(r.path))
          /\ \A seg \in ToSet(r.path) : seg.mark \in {"", ":", "*"}
          /\ \A g \in r.gives : g.kind \in Gives
    /\ \A m \in ToSet(h.mounts) : m.prefix \in Seq(ToSet(m.prefix))

ASSUME ServerAssumption ==
    \A s \in Services :
        /\ IsHost(s.default)
        /\ s.vhosts \in Seq(ToSet(s.vhosts)) /\ \A h \in ToSet(s.vhosts) : IsHost(h)

(* A body is "none", "json", "text", "spilled" (above MEM_SPILL: kept in a *)
(* file only) or "large" (above max_body).                                 *)
Bodies == {"none", "json", "text", "spilled", "large"}

Nothing == "nothing"
MissingUser == "missing"
Answer(status, from, body) ==
    [status |-> status, from |-> from, body |-> body, allow |-> {}, file |-> <<>>]
NoAnswer == Answer(0, "", "")
Error(status) == Answer(status, "none", "error")

(* The statuses an HTTP answer can have: hyper's builder refuses others.   *)
Sendable(status) == status \in 100..999

VARIABLES
    server, req,
    pc,        \* the step the request is at
    route,     \* the route that answers, of the host that is selected
    params, fmt, user,
    file,      \* the file of a spilled body exists
    ran,       \* what was run for the request, in order
    answer,
    holds      \* a stream slot is held
vars == <<server, req, pc, route, params, fmt, user, file, ran, answer, holds>>

Init ==
    /\ server \in Services
    /\ req \in Requests
    /\ pc = "received"
    /\ route = <<>> /\ params = <<>> /\ fmt = "" /\ user = Nothing
    /\ file = FALSE /\ ran = <<>> /\ answer = NoAnswer /\ holds = FALSE
-----------------------------------------------------------------------------
(* HostRouter: the routes and mounts of a host in the order of matching.   *)
Router(h) == [h EXCEPT !.routes = Ordered(@)]

(* Fault: a request that names no virtual host gets the first one.         *)
HostOrFirst ==
    LET i == select_host(server.vhosts, req.host)
    IN  IF server.vhosts = <<>> THEN server.default ELSE server.vhosts[IF i = None THEN 1 ELSE i]

Selected == LET i == select_host(server.vhosts, req.host)
            IN  IF i = None THEN server.default ELSE server.vhosts[i]
Host == Router(Selected)

(* HEAD is answered as GET.                                                *)
Method == IF req.method = "HEAD" THEN "GET" ELSE req.method

Reply(a) == /\ answer' = a /\ pc' = "reply"
            /\ UNCHANGED <<server, req, route, params, fmt, user, file, ran, holds>>
-----------------------------------------------------------------------------
(* handle_request, before dispatch.                                        *)

(* OPTIONS: the methods of the default host, answered at once.             *)
Options ==
    /\ pc = "received" /\ req.method = "OPTIONS"
    /\ LET methods == methods_for_path(Router(server.default), req.path)
       IN  answer' = IF methods = {} THEN Error(404)
                     ELSE [Answer(204, "options", "") EXCEPT
                             !.allow = methods \cup {"OPTIONS", "HEAD"}]
    /\ pc' = "sent"
    /\ UNCHANGED <<server, req, route, params, fmt, user, file, ran, holds>>

(* The body is read up to max_body; a large one goes to a file.            *)
TooLarge ==
    /\ pc = "received" /\ req.method # "OPTIONS" /\ req.body = "large"
    /\ answer' = Error(413) /\ pc' = "sent"
    /\ UNCHANGED <<server, req, route, params, fmt, user, file, ran, holds>>
ReadBody ==
    /\ pc = "received" /\ req.method # "OPTIONS" /\ req.body # "large"
    /\ file' = (req.body = "spilled")
    /\ pc' = "match"
    /\ UNCHANGED <<server, req, route, params, fmt, user, ran, answer, holds>>
-----------------------------------------------------------------------------
(* dispatch.                                                               *)

ServeFile(path) ==
    LET f == static_file(Selected.mounts, path).path
    IN  [Answer(StaticStatus(req, Disk.sizes[f]), "static", "file") EXCEPT !.file = f]
HasFile(path) == Method = "GET" /\ static_file(Selected.mounts, path).found

Found == match_route(Host, Method, req.path)
(* A format suffix counts only where a :param took it.                     *)
Suffixed == /\ Found # None /\ HasSuffix(req.path)
            /\ param_last_segment(Host.routes[Found].path)
Logical == split_format_suffix(req.path)
FoundLogical == match_route(Host, Method, Logical.path)

(* Fault: the route of the path as it is keeps the request, with the       *)
(* parameters of the path without its suffix.                              *)
MatchKeepingRoute ==
    /\ pc = "match" /\ Found # None
    /\ ~(Suffixed /\ HasFile(req.path))
    /\ LET negotiated == Suffixed /\ FoundLogical # None
       IN  /\ route' = Host.routes[Found]
           /\ params' = captures(Host.routes[Found].path, IF negotiated THEN Logical.path ELSE req.path)
           /\ fmt' = IF negotiated THEN Logical.fmt ELSE ""
    /\ pc' = "limit"
    /\ UNCHANGED <<server, req, user, file, ran, answer, holds>>

(* A file at the very path wins over a route that took its suffix; else    *)
(* the path without the suffix is matched again.                           *)
MatchRoute ==
    /\ pc = "match" /\ Found # None
    /\ ~(Suffixed /\ HasFile(req.path))
    /\ LET negotiated == Suffixed /\ FoundLogical # None
           i == IF negotiated THEN FoundLogical ELSE Found
           path == IF negotiated THEN Logical.path ELSE req.path
       IN  /\ route' = Host.routes[i]
           /\ params' = captures(Host.routes[i].path, path)
           /\ fmt' = IF negotiated THEN Logical.fmt ELSE ""
    /\ pc' = "limit"
    /\ UNCHANGED <<server, req, user, file, ran, answer, holds>>
MatchFile ==
    /\ pc = "match" /\ Found # None /\ Suffixed /\ HasFile(req.path)
    /\ Reply(ServeFile(req.path))

(* discovery_response                                                      *)
Discovered == \/ req.path = <<<<"llms", "txt">>>> /\ ~server.private
              \/ req.path = <<<<"robots", "txt">>>>

(* methods_for_path, of the routes that the host of the request has.       *)
Allowed == methods_for_path(Host, req.path)

(* No route: 405, a file, what agents look for, or 404.                    *)
NoRoute ==
    /\ pc = "match" /\ Found = None
    /\ Reply(IF Allowed # {} THEN [Error(405) EXCEPT !.allow = Allowed]
             ELSE IF HasFile(req.path) THEN ServeFile(req.path)
             ELSE IF Method = "GET" /\ Discovered THEN Answer(200, "discovery", "text")
             ELSE Error(404))

Limit ==
    /\ pc = "limit"
    /\ \/ /\ pc' = "json"
          /\ UNCHANGED <<server, req, route, params, fmt, user, file, ran, answer, holds>>
       \/ /\ route.limited
          /\ Reply(Error(429))

(* Only a body that says it is JSON has to be; a spilled one is not        *)
(* looked at.                                                              *)
ParseBody ==
    /\ pc = "json"
    /\ IF req.body = "text" /\ req.json
       THEN Reply(Error(400))
       ELSE /\ pc' = "auth"
            /\ UNCHANGED <<server, req, route, params, fmt, user, file, ran, answer, holds>>

(* Fault: the auth task of the default host decides.                       *)
DefaultVerdict ==
    LET known == server.default.auth
    IN  IF req.token \in DOMAIN known THEN known[req.token] ELSE MissingUser

(* The host's auth task on the bearer token; a host without one knows      *)
(* nobody.                                                                 *)
Verdict ==
    LET known == Selected.auth
    IN  IF req.token \in DOMAIN known THEN known[req.token] ELSE MissingUser
Authenticate ==
    /\ pc = "auth"
    /\ IF ~route.auth
       THEN /\ pc' = "run"
            /\ UNCHANGED <<server, req, route, params, fmt, user, file, ran, answer, holds>>
       ELSE IF Verdict \in {Nothing, MissingUser}
       THEN Reply(Error(401))
       ELSE /\ user' = Verdict /\ pc' = "run"
            /\ UNCHANGED <<server, req, route, params, fmt, file, ran, answer, holds>>

Run(what) == [what |-> what, route |-> route, params |-> params, user |-> user,
              body |-> IF req.body = "spilled" THEN "none" ELSE req.body]

(* proxy_forward: the upstream answers with a status of its own, or the    *)
(* connection or what it says is of no use.                                *)
Forward ==
    /\ pc = "run" /\ route.proxy
    /\ ran' = Append(ran, Run("proxy"))
    /\ \/ \E g \in route.gives : answer' = Answer(g.status, "upstream", "upstream")
       \/ answer' = Answer(502, "proxy", "error")
    /\ pc' = "reply"
    /\ UNCHANGED <<server, req, route, params, fmt, user, file, holds>>

OpenStream ==
    /\ pc = "run" /\ ~route.proxy /\ route.streaming
    /\ \/ /\ holds' = TRUE /\ pc' = "stream"
          /\ answer' = Answer(200, "stream", "events")
          /\ ran' = Append(ran, Run("stream"))
          /\ UNCHANGED <<server, req, route, params, fmt, user, file>>
       \/ Reply(Error(503))

(* The body of the stream ends: the slot and the file are given back.      *)
EndStream ==
    /\ pc = "stream"
    /\ holds' = FALSE /\ file' = FALSE /\ pc' = "sent"
    /\ UNCHANGED <<server, req, route, params, fmt, user, ran, answer>>

(* build_response and the negotiation of content().                        *)
Given(g) ==
    CASE g.kind = "value"   -> Answer(g.status, "handler", "json")
      [] g.kind = "content" ->
            Answer(g.status, "handler", IF fmt # "" THEN fmt ELSE negotiate_format(req.accept))
      [] g.kind = "invalid" -> Answer(400, "handler", "error")
      [] g.kind = "error"   -> Answer(500, "handler", "error")
Handle ==
    /\ pc = "run" /\ ~route.proxy /\ ~route.streaming
    /\ ran' = Append(ran, Run("handler"))
    /\ \E g \in route.gives : answer' = Given(g)
    /\ pc' = "reply"
    /\ UNCHANGED <<server, req, route, params, fmt, user, file, holds>>

(* The handler panics: the worker swallows it, nothing of the job that was *)
(* still to come is done, and the waiting side answers 500.                *)
Panic ==
    /\ pc = "run" /\ ~route.proxy /\ ~route.streaming
    /\ ran' = Append(ran, Run("handler"))
    /\ answer' = Error(500) /\ pc' = "panicked"
    /\ UNCHANGED <<server, req, route, params, fmt, user, file, holds>>
-----------------------------------------------------------------------------
(* The head and the body go out and the file of the body is removed.  A    *)
(* status that HTTP does not have ends the connection without an answer.   *)
Send ==
    /\ pc = "reply"
    /\ file' = FALSE
    /\ pc' = IF Sendable(answer.status) THEN "sent" ELSE "dropped"
    /\ answer' = IF req.method = "HEAD" THEN [answer EXCEPT !.body = ""] ELSE answer
    /\ UNCHANGED <<server, req, route, params, fmt, user, ran, holds>>

Next == \/ Options \/ TooLarge \/ ReadBody
        \/ MatchRoute \/ MatchFile \/ NoRoute \/ Limit \/ ParseBody \/ Authenticate
        \/ Forward \/ OpenStream \/ EndStream \/ Handle \/ Panic \/ Send
Spec == Init /\ [][Next]_vars
=============================================================================
