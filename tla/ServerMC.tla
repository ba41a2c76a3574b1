------------------------------ MODULE ServerMC ------------------------------
(***************************************************************************)
(* Servers with virtual hosts, routes of every specificity, mounts with a  *)
(* link inside and one that leaves its directory, and requests for every   *)
(* path of them; each kind of request is combined with the servers it is   *)
(* of interest to.  Besides, the rate limiter of these servers under two   *)
(* threads and two clients: what it decides depends on times alone, so a   *)
(* behaviour is one of a request, or one of the limiter.                   *)
(***************************************************************************)
EXTENDS Server, TLC

a == <<"a">>
b == <<"b">>
MCEncoded == [s \in {<<"%61">>} |-> a]

MCDisk ==
    LET top == <<<<"www">>>>
        files == {<<<<"www">>, Index>>, <<<<"www">>, <<"a", "md">>>>, <<<<"www">>, <<"sub">>, Index>>,
                  <<<<"etc">>, Index>>, <<<<"etc">>, a>>, <<<<"img">>, b>>}
    IN  [files |-> files,
         dirs |-> {<<>>, <<<<"www">>>>, <<<<"www">>, <<"sub">>>>, <<<<"www">>, <<"alias">>>>,
                   <<<<"etc">>>>, <<<<"img">>>>},
         links |-> [p \in {<<<<"www">>, <<"out">>>>, <<<<"www">>, <<"alias">>, Index>>} |->
                      IF Last(p) = <<"out">> THEN <<<<"etc">>>> ELSE <<<<"etc">>, Index>>],
         sizes |-> [f \in files |-> 4]]

-----------------------------------------------------------------------------
Values == {[kind |-> "value", status |-> 200], [kind |-> "value", status |-> 404],
           [kind |-> "content", status |-> 200], [kind |-> "invalid", status |-> 400],
           [kind |-> "error", status |-> 500]}
Statuses == {[kind |-> "value", status |-> s] : s \in {200, 302, 404}}

Route(method, path) ==
    [method |-> method, path |-> path, auth |-> FALSE, streaming |-> FALSE,
     limited |-> FALSE, proxy |-> FALSE, gives |-> {[kind |-> "value", status |-> 200]}]
Guarded(r) == [r EXCEPT !.auth = TRUE, !.gives = Values]
Limited(r) == [r EXCEPT !.limited = TRUE]
Streaming(r) == [r EXCEPT !.streaming = TRUE]
Proxy(r, statuses) == [r EXCEPT !.proxy = TRUE, !.gives = statuses]

Get(path) == Route("GET", path)
Patterns == {<<Static(a)>>, <<Param("p")>>, <<Rest("r")>>, <<Static(a), Static(b)>>,
             <<Static(a), Param("p")>>, <<Param("p"), Static(b)>>, <<Param("p"), Param("q")>>,
             <<Static(a), Rest("r")>>, <<Param("p"), Rest("r")>>}

Nobody == [t \in {} |-> ""]
KnownAs(t, u) == [x \in {t} |-> u]
HostOf(pattern, routes, mounts, auth) ==
    [pattern |-> pattern, routes |-> routes, mounts |-> mounts, auth |-> auth]
Default(routes, mounts, auth) == HostOf(Wild(<<>>), routes, mounts, auth)
Serve(default, vhosts, private) ==
    [default |-> default, vhosts |-> vhosts, private |-> private]

Www == [prefix |-> <<>>, base |-> <<<<"www">>>>]
Assets == [prefix |-> <<a>>, base |-> <<<<"www">>>>]
Deep == [prefix |-> <<a, b>>, base |-> <<<<"img">>>>]

\* Any three routes, in any order.
RoutingServers ==
    {Serve(Default(<<Get(p), Get(q), Guarded(Get(r))>>, <<Www>>, KnownAs("t1", "ann")), <<>>, FALSE) :
        p \in Patterns, q \in Patterns, r \in Patterns}

Com == <<"com">>
ACom == <<"a", "com">>
XACom == <<"x", "a", "com">>
\* Hosts with tables of their own: exact, wildcard, default.
HostServers ==
    {Serve(Default(<<Guarded(Get(<<Static(a)>>)), Route("POST", <<Static(b)>>)>>, m, KnownAs("t1", "ann")),
           <<HostOf(v, <<Guarded(Get(<<Static(a)>>)), Route("PUT", <<Static(b)>>)>>, <<>>, KnownAs("t2", "bob")),
             HostOf(w, <<Limited(Get(<<Param("p")>>))>>, <<Deep, Assets>>, Nobody)>>, private) :
        v \in {Exact(ACom), Wild(Com), Exact(XACom)}, w \in {Wild(ACom), Wild(XACom)},
        m \in {<<>>, <<Www>>}, private \in BOOLEAN}
\* Streams, limits, proxies and bodies.
WorkServers ==
    {Serve(Default(<<Limited(Guarded(Streaming(Get(<<Param("p")>>)))),
                     Guarded(Proxy(Route("POST", <<Static(a)>>), Statuses)),
                     Limited(Guarded(Route("POST", <<Param("p")>>))), Get(<<Static(a)>>)>>,
                   <<>>, KnownAs("t1", "ann")), <<>>, FALSE)}
MCServices == RoutingServers \cup HostServers \cup WorkServers

-----------------------------------------------------------------------------
NoRange == [kind |-> "none"]
Ask(method, path) ==
    [method |-> method, host |-> XACom, path |-> path, token |-> "t1", accept |-> {},
     json |-> FALSE, body |-> "none", known |-> FALSE, range |-> NoRange]
Segs == {a, b, <<"%61">>, <<"a", "md">>}
Paths == {<<>>} \cup {<<s>> : s \in Segs} \cup {<<s, t>> : s \in Segs, t \in Segs}
            \cup {<<a, b, s>> : s \in Segs}
RoutingRequests == {Ask("GET", p) : p \in Paths}
HostRequests ==
    {[Ask(m, p) EXCEPT !.host = h, !.token = t] :
        m \in {"GET", "PUT", "POST", "OPTIONS"}, h \in {Com, ACom, XACom, <<"b", "com">>},
        t \in {"t1", "t2", "t3"},
        p \in {<<a>>, <<b>>, <<<<"llms", "txt">>>>, <<<<"robots", "txt">>>>}}
Away == {<<a, <<"out">>, a>>, <<a, <<"alias">>>>, <<a, Up, <<"etc">>, a>>, <<a, <<"sub">>, Up, Index>>,
         <<<<"sub">>>>, <<a, b, b>>, <<a, b, Up, <<"img">>, b>>, <<Index>>}
FileRequests ==
    {[Ask("GET", p) EXCEPT !.known = k, !.range = r, !.host = h] :
        p \in Away, k \in BOOLEAN, h \in {ACom, XACom, <<"b", "com">>},
        r \in {NoRange, [kind |-> "open", from |-> 2], [kind |-> "open", from |-> 4]}}
WorkRequests ==
    {[Ask(m, <<p>>) EXCEPT !.body = y, !.json = j, !.token = t, !.accept = x] :
        m \in {"GET", "POST"}, p \in Segs, y \in Bodies, j \in BOOLEAN, t \in {"t1", "t2"},
        x \in {{"md"}, {"md", "html"}, {"json"}}}
MCRequests == RoutingRequests \cup HostRequests \cup FileRequests \cup WorkRequests

CONSTANTS Threads, Clients, Capacity, Window, CleanupEvery, MaxNow, MaxDecisions
\* A limit of some requests in some time.
ASSUME LimiterAssumption == Capacity \in Nat \ {0} /\ Window \in Nat \ {0} /\ MaxNow \in Nat
VARIABLES which, now, at, seen, bucket, lastCleanup, decisions, promised
limiter == <<now, at, seen, bucket, lastCleanup, decisions, promised>>
Rate == INSTANCE RateLimiter WITH Keys <- Clients

MCInit ==
    /\ Init /\ Rate!Init
    /\ \/ which = "request" /\ server \in RoutingServers /\ req \in RoutingRequests
       \/ which = "request" /\ server \in HostServers /\ req \in HostRequests \cup FileRequests
       \/ which = "request" /\ server \in WorkServers /\ req \in WorkRequests
       \/ which = "limiter" /\ server \in WorkServers /\ req = Ask("GET", <<>>)
MCNext == /\ UNCHANGED which
          /\ \/ which = "request" /\ Next /\ UNCHANGED limiter
             \/ which = "limiter" /\ Rate!Next /\ UNCHANGED vars
mcVars == <<which, vars, limiter>>
MCSpec == MCInit /\ [][MCNext]_mcVars

\* Threads and clients are interchangeable.
Symmetric == Permutations(Threads) \cup Permutations(Clients)
-----------------------------------------------------------------------------
Done == pc \in {"sent", "dropped", "panicked"}
Decoded(path) == [i \in DOMAIN path |-> unquote(path[i])]
\* The path that is answered: without its suffix when that chose the format.
AnsweredPath == IF fmt = "" THEN req.path ELSE Logical.path
Instantiated(pattern, values) ==
    FlattenSeq([i \in DOMAIN pattern |->
        IF pattern[i].mark = "" THEN <<pattern[i].seg>> ELSE values[pattern[i].seg]])
PathsOf(r) == {p \in Paths : path_match(r.path, p)}

\* Whatever runs matches the method and the path, and of the routes of its host
\* that do, none is more specific, whatever their order in the program.
MostSpecific ==
    \A i \in DOMAIN ran :
        LET r == ran[i].route
        IN  /\ r.method = Method /\ path_match(r.path, AnsweredPath)
            /\ \A j \in DOMAIN Selected.routes :
                  LET q == Selected.routes[j]
                  IN  q.method = r.method /\ path_match(q.path, AnsweredPath)
                        => ~Precedes(specificity(q.path), specificity(r.path))
\* So the route that runs is the one a reader of the program expects: of those
\* that match the path none matches fewer paths, and its parameters are what
\* the path has in their places.
RightRouteRuns ==
    /\ MostSpecific
    /\ \A i \in DOMAIN ran :
        LET r == ran[i].route
        IN  /\ Instantiated(r.path, ran[i].params) = Decoded(AnsweredPath)
            /\ \A j \in DOMAIN Selected.routes :
                  LET q == Selected.routes[j]
                  IN  q.method = r.method /\ path_match(q.path, AnsweredPath)
                        => ~(PathsOf(q) \subseteq PathsOf(r) /\ PathsOf(q) # PathsOf(r))

\* Who covers the name: the host with that very name; else the first wildcard
\* above it; else the default host.
Owner ==
    LET vs == server.vhosts
        named == {i \in DOMAIN vs : vs[i].pattern = Exact(req.host)}
        above == {i \in DOMAIN vs : vs[i].pattern.wild /\ IsSuffix(vs[i].pattern.labels, req.host)}
        first(indices) == vs[CHOOSE i \in indices : \A j \in indices : i <= j]
    IN  IF named # {} THEN first(named) ELSE IF above # {} THEN first(above) ELSE server.default
\* Hosts do not see each other's routes, users and files: whatever runs is a
\* route of the host that covers the name, as a user that its own auth task
\* knows wherever the route asks for one, and a file lies in a directory that
\* this host mounts.  A request that is refused has run nothing, and the
\* methods that a 405 of the server names are those with which the same request would have
\* found a route of that host.
HostsIsolated ==
    req.method # "OPTIONS" =>
        LET h == Owner
        IN  /\ \A i \in DOMAIN ran :
                  /\ ran[i].route \in ToSet(h.routes)
                  /\ ran[i].route.auth => ran[i].user \in {h.auth[t] : t \in DOMAIN h.auth}
            /\ answer.file # <<>> =>
                  \E i \in DOMAIN h.mounts : IsPrefix(h.mounts[i].base, answer.file)
            /\ (answer.from = "none" /\ pc # "panicked") => ran = <<>>
            /\ (answer.from = "none" /\ answer.status = 405) =>
                  \A m \in {"GET", "PUT", "POST", "DELETE"} :
                      m \in answer.allow <=> match_route(Router(h), m, req.path) # None

\* The limiter takes what it promises and promises what it keeps.
LimiterIsFair ==
    /\ [](which = "limiter" => Rate!AdmissionsArePaidFor)
    /\ [][which = "limiter" => Rate!RetryStep]_mcVars
=============================================================================
