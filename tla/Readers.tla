------------------------------ MODULE Readers -------------------------------
(***************************************************************************)
(* The small readers and copiers of the runtime: the file .env and the     *)
(* signature that comes with a message (secrets.rs), the scopes of         *)
(* capabilities (synsema-capabilities/src/model.rs), and the globals of a  *)
(* program that are taken once and built again in the interpreter of every *)
(* request and every worker (synsema-runtime/src/serve.rs). Then what they *)
(* owe to a program, as the readers of ranges and pages in Routing do, and *)
(* the cases they are looked at. A text is a sequence of characters.       *)
(***************************************************************************)
EXTENDS Integers, Sequences, SequencesExt, FiniteSets, TLC

(* Texts of .env: " " stands for any white space but the end of a line.     *)
Blank == " "
Trimmed(text) ==
    LET solid == {i \in DOMAIN text : text[i] # Blank}
    IN  IF solid = {} THEN <<>> ELSE SubSeq(text, Min(solid), Max(solid))
FromFirst(text) ==
    LET solid == {i \in DOMAIN text : text[i] # Blank}
    IN  IF solid = {} THEN <<>> ELSE SubSeq(text, Min(solid), Len(text))
FirstAt(text, chars) ==
    LET at == {i \in DOMAIN text : text[i] \in chars} IN IF at = {} THEN 0 ELSE Min(at)

(* A value in quotes ends at the same quote, or with the line if there is  *)
(* none; another one at a # after white space.                             *)
Quotes == {"'", "q"}
parse_value(rhs) ==
    LET s == FromFirst(rhs)
        cuts == {i \in 2..Len(s) : s[i] = "#" /\ s[i - 1] = Blank}
        rest == Tail(s)
        close == FirstAt(rest, {s[1]})
    IN  IF s # <<>> /\ s[1] \in Quotes
        THEN IF close > 0 THEN SubSeq(rest, 1, close - 1) ELSE Trimmed(rest)
        ELSE Trimmed(SubSeq(s, 1, IF cuts = {} THEN Len(s) ELSE Min(cuts) - 1))

is_valid_key(k) ==
    k # <<>> /\ k[1] = "a" /\ \A i \in DOMAIN k : k[i] \in {"a", "1"}

(* The variables a file defines: of a name that is given twice the last    *)
(* value, and nothing for a line that is empty, a comment or no variable.  *)
Undefined == <<"undefined">>
Variable(raw) ==
    LET line == FromFirst(raw)
        eq == FirstAt(line, {"="})
        key == Trimmed(SubSeq(line, 1, eq - 1))
    IN  IF line = <<>> \/ line[1] = "#" \/ eq = 0 \/ ~is_valid_key(key) THEN Undefined
        ELSE <<key, parse_value(SubSeq(line, eq + 1, Len(line)))>>
parse(lines) ==
    FoldLeft(LAMBDA vars, raw :
                 LET v == Variable(raw)
                 IN  IF v = Undefined THEN vars
                     ELSE [k \in DOMAIN vars \cup {v[1]} |-> IF k = v[1] THEN v[2] ELSE vars[k]],
             [k \in {} |-> <<>>], lines)
-----------------------------------------------------------------------------
(* The characters of a signature are the numbers they have in base 64;   *)
(* after 51 the decimal digits follow, and Filler is the one that ends it. *)
Filler == 64
NotRead == <<-1>>
HexDigit(d) == IF d < 10 THEN 52 + d ELSE 16 + d
to_hex(bytes) ==
    FoldLeft(LAMBDA acc, b : acc \o <<HexDigit(b \div 16), HexDigit(b % 16)>>, <<>>, bytes)
hexval(c) == CASE c \in 52..61 -> c - 52 [] c \in 26..31 -> c - 16 [] c \in 0..5 -> c + 10
               [] OTHER -> -1
from_hex(s) ==
    IF s = <<>> \/ Len(s) % 2 # 0 \/ \E i \in DOMAIN s : hexval(s[i]) = -1 THEN NotRead
    ELSE [i \in 1..(Len(s) \div 2) |-> 16 * hexval(s[2 * i - 1]) + hexval(s[2 * i])]

(* Six bits of each digit are taken up, and a byte is given when there are *)
(* eight.                                                                  *)
from_base64(s) ==
    LET Take(acc, d) ==
            LET bits == (acc.bits * 64 + d) % 65536
                n == acc.n + 6
            IN  IF n >= 8
                THEN [bits |-> bits, n |-> n - 8,
                      out |-> Append(acc.out, (bits \div 2 ^ (n - 8)) % 256)]
                ELSE [bits |-> bits, n |-> n, out |-> acc.out]
        end == FirstAt(s, {Filler})
    IN  FoldLeft(Take, [bits |-> 0, n |-> 0, out |-> <<>>],
                 IF end = 0 THEN s ELSE SubSeq(s, 1, end - 1)).out

(* The reading as long as the code it is compared with comes first.        *)
decode_signature(s, mac_len) ==
    LET hex == from_hex(s)
        b64 == from_base64(s)
    IN  IF hex # NotRead /\ Len(hex) = mac_len THEN hex
        ELSE IF Len(b64) = mac_len THEN b64
        ELSE IF hex # NotRead THEN hex ELSE b64

verify_hmac(mac, signature) == decode_signature(signature, Len(mac)) = mac
-----------------------------------------------------------------------------
(* Scopes: "://" stands for the three characters, "bs" for a backslash.     *)
Positions(text, chars) == {i \in DOMAIN text : text[i] \in chars}
Before(text, at) == IF at = {} THEN text ELSE SubSeq(text, 1, Min(at) - 1)
After(text, at) == IF at = {} THEN <<>> ELSE SubSeq(text, Min(at) + 1, Len(text))
AfterLast(text, at) == IF at = {} THEN text ELSE SubSeq(text, Max(at) + 1, Len(text))
BeforeLast(text, at) == IF at = {} THEN text ELSE SubSeq(text, 1, Max(at) - 1)
RECURSIVE Split(_)
Split(text) ==
    LET at == Positions(text, {"/"})
    IN  IF at = {} THEN <<text>> ELSE <<Before(text, at)>> \o Split(After(text, at))
RECURSIVE Joined(_)
Joined(segs) ==
    IF segs = <<>> THEN <<>>
    ELSE IF Len(segs) = 1 THEN segs[1] ELSE segs[1] \o <<"/">> \o Joined(Tail(segs))
-----------------------------------------------------------------------------
(* The root is "/" or a drive.                                             *)
Letters == {"a", "b"}
RootOf(p) ==
    IF Len(p) >= 3 /\ p[1] \in Letters /\ p[2] = ":" /\ p[3] = "/" THEN SubSeq(p, 1, 3)
    ELSE IF p # <<>> /\ p[1] = "/" THEN <<"/">> ELSE <<>>
Here == <<".">>
Above == <<".", ".">>

(* One segment more: what leads above is kept where a path has no root.    *)
Collapse(out, seg, rooted) ==
    IF seg \in {<<>>, Here} THEN out
    ELSE IF seg # Above THEN Append(out, seg)
    ELSE IF out # <<>> /\ Last(out) # Above THEN Front(out)
    ELSE IF rooted THEN out ELSE Append(out, seg)

normalize_path(text) ==
    LET p == [i \in DOMAIN text |-> IF text[i] = "bs" THEN "/" ELSE text[i]]
        root == RootOf(p)
        segs == Split(SubSeq(p, Len(root) + 1, Len(p)))
        out == FoldLeft(LAMBDA acc, s : Collapse(acc, s, root # <<>>), <<>>, segs)
    IN  IF root = <<>> /\ out = <<>> THEN Here ELSE root \o Joined(out)

(* scheme://host/database, in lower case and without the user, the port    *)
(* and the query.                                                          *)
LowerOf == [c \in {"H"} |-> "h"]
Lower(text) == [i \in DOMAIN text |-> IF text[i] \in DOMAIN LowerOf THEN LowerOf[text[i]] ELSE text[i]]
canon_url(url) ==
    LET sep == Positions(url, {"://"})
        behind == After(url, sep)
        rest == Before(behind, Positions(behind, {"?", "#"}))
        authority == Before(rest, Positions(rest, {"/"}))
        path == After(rest, Positions(rest, {"/"}))
        hostPort == AfterLast(authority, Positions(authority, {"@"}))
        host == BeforeLast(hostPort, Positions(hostPort, {":"}))
        db == Lower(Before(path, Positions(path, {"/"})))
    IN  IF sep = {} THEN Lower(url)
        ELSE Lower(Before(url, sep)) \o <<"://">> \o Lower(host)
                \o (IF db = <<>> THEN <<>> ELSE <<"/">> \o db)

RECURSIVE glob(_, _)
glob(name, pat) ==
    IF pat = <<>> THEN name = <<>>
    ELSE IF pat[1] = "*"
    THEN \E k \in 0..Len(name) : glob(SubSeq(name, k + 1, Len(name)), Tail(pat))
    ELSE name # <<>> /\ pat[1] \in {"?", name[1]} /\ glob(Tail(name), Tail(pat))
fnmatch(name, pattern) == glob(name, pattern)

(* What covers does with two scopes; see Capabilities for the types.       *)
Canonical(ty, scope) ==
    IF ty = "db" /\ Positions(scope, {"://"}) # {} THEN canon_url(scope)
    ELSE IF ty \in {"file", "db"} THEN normalize_path(scope) ELSE scope
covers(ty, grant, scope) ==
    LET g == Canonical(ty, grant)
        s == Canonical(ty, scope)
    IN  g = s \/ fnmatch(s, g)
-----------------------------------------------------------------------------
(* A world gives every environment, "global" or a module, its bindings;     *)
(* tasks close over the global environment or over that of the module they  *)
(* come from, which is not sent itself.  What is built again closes over an *)
(* environment that is known by the bindings it was built from.             *)
Plain(v) == [k |-> "plain", v |-> v]
Task(id, env) == [k |-> "task", id |-> id, env |-> env]
MapOf(entries) == [k |-> "map", entries |-> entries]
Global == "global"
NoModule == "none"

Value(v) == [k |-> "value", v |-> v]
TaskVal(id) == [k |-> "task", id |-> id]
Module(alias, env) == [k |-> "module", alias |-> alias, env |-> env]
MapWithTasks(entries) == [k |-> "tasks", alias |-> entries]
ModuleSelfRef(entries) == [k |-> "self", alias |-> entries]
Nothing == [n \in {} |-> n]

(* That of any task of the map; a map here has tasks of one module.        *)
module_env_of(map) ==
    LET of == {map[n].env : n \in {m \in DOMAIN map : map[m].k = "task"}} \ {Global}
    IN  IF of = {} THEN NoModule ELSE CHOOSE env \in of : TRUE

(* The modules in `visited' are being taken: a map of the innermost one is *)
(* left to be built within it, and what leads back to another one loses    *)
(* the names of its module.                                                *)
RECURSIVE val_to_global(_, _, _)
val_to_global(world, v, visited) ==
    LET entries == [n \in DOMAIN v.entries |-> val_to_global(world, v.entries[n], visited)]
        env == module_env_of(v.entries)
    IN  CASE v.k = "plain" -> Value(v)
          [] v.k = "task" -> TaskVal(v.id)
          [] v.k = "map" /\ \A n \in DOMAIN entries : entries[n].k = "value" -> Value(v)
          [] v.k = "map" /\ \E n \in DOMAIN entries : entries[n].k # "value" ->
                IF env = NoModule THEN MapWithTasks(entries)
                ELSE IF ~Contains(visited, env)
                THEN Module(entries, [n \in DOMAIN world[env] |->
                                         val_to_global(world, world[env][n], Append(visited, env))])
                ELSE IF Last(visited) = env THEN ModuleSelfRef(entries)
                ELSE Module(entries, Nothing)
snapshot_module_env(world, env) ==
    [n \in DOMAIN world[env] |-> val_to_global(world, world[env][n], <<env>>)]
snapshot_globals(world) ==
    [n \in DOMAIN world[Global] |-> val_to_global(world, world[Global][n], <<>>)]
-----------------------------------------------------------------------------
Base == [module |-> FALSE, from |-> Nothing]
rebuild_module_env(env) == [module |-> TRUE, from |-> env]

RECURSIVE rebuild_global_val(_, _)
rebuild_global_val(gv, target) ==
    LET Entries(env) == MapOf([n \in DOMAIN gv.alias |-> rebuild_global_val(gv.alias[n], env)])
    IN  CASE gv.k = "value" -> gv.v
          [] gv.k = "task" -> Task(gv.id, target)
          [] gv.k = "module" -> Entries(rebuild_module_env(gv.env))
          [] gv.k = "tasks" -> Entries(Base)
          [] gv.k = "self" -> Entries(target)

(* What a name stands for in the program, and in what was built again.     *)
Unbound == Plain("unbound")
Meaning(world, env, name) ==
    IF name \in DOMAIN world[env] THEN world[env][name]
    ELSE IF name \in DOMAIN world[Global] THEN world[Global][name] ELSE Unbound
rebuild_globals(snapshot, env, name) ==
    IF name \in DOMAIN env.from THEN rebuild_global_val(env.from[name], env)
    ELSE IF name \in DOMAIN snapshot THEN rebuild_global_val(snapshot[name], Base) ELSE Unbound

(* The task a parallel_map applies, in a worker.                           *)
reconstruct_task(world, t) ==
    Task(t.id, IF t.env = Global THEN Base
               ELSE rebuild_module_env(snapshot_module_env(world, t.env)))
-----------------------------------------------------------------------------
Ro == INSTANCE Routing WITH Encoded <- <<>>, DefaultLimit <- 2, MaxLimit <- 3,
    Disk <- [files |-> {}, dirs |-> {}, links |-> <<>>, sizes |-> <<>>]

TextsOf(chars, n) == UNION {[1..k -> chars] : k \in 0..n}
-----------------------------------------------------------------------------
EnvCases == TextsOf({"a", Blank, "#", "'", "q", "="}, 4)
\* Any text is read back from between quotes it does not have; a text with no
\* white space around it and no comment in it is read back as it is, whatever
\* white space or comment follows; and of two lines for one variable the last
\* one counts, whatever stands between them.
EnvLaw(text) ==
    LET comment == <<Blank, "#", "'">>
        line(value) == <<Blank, "a", "1", Blank, "=">> \o value
        bare == /\ text # <<>> /\ text[1] \notin Quotes \cup {"#"} /\ Trimmed(text) = text
                /\ ~\E i \in 2..Len(text) : text[i] = "#" /\ text[i - 1] = Blank
    IN  /\ \A quote \in Quotes : FirstAt(text, {quote}) = 0 =>
               parse_value(<<Blank, quote>> \o text \o <<quote>> \o comment) = text
        /\ bare => /\ parse_value(<<Blank>> \o text \o <<Blank>>) = text
                   /\ parse_value(text \o comment) = text
        /\ parse(<<line(<<"x">>), text, line(<<"y">>)>>)[<<"a", "1">>] = <<"y">>
        /\ DOMAIN parse(<<text>>) \subseteq {<<"a">> \o [i \in 1..n |-> "a"] : n \in 0..2}

Codes == [1..2 -> {0, 1, 15, 16, 105, 127, 255}] \cup [1..4 -> {0, 171}]
SignatureCases == {<<a, b>> \in Codes \X Codes : Len(a) = Len(b)}
\* The digits of four by six bits of the code, and what fills them up.
Base64(bytes) ==
    LET bits == [i \in 1..8 * Len(bytes) |-> (bytes[(i + 7) \div 8] \div 2 ^ (7 - ((i - 1) % 8))) % 2]
        bit(i) == IF i \in DOMAIN bits THEN bits[i] ELSE 0
    IN  [d \in 1..(8 * Len(bytes) + 5) \div 6 |->
            FoldLeft(LAMBDA acc, i : 2 * acc + bit(6 * (d - 1) + i), 0, <<1, 2, 3, 4, 5, 6>>)]
\* A code is verified by its own text in base 16 and in base 64, filled up or
\* not, and by no other code's.
SignatureLaw(mac, other) ==
    \A text \in {to_hex(other), Base64(other), Base64(other) \o <<Filler, Filler>>} :
        verify_hmac(mac, text) <=> mac = other
-----------------------------------------------------------------------------
Paths == TextsOf({"a", ".", "/"}, 6) \cup {<<"a", ":", "/">> \o p : p \in TextsOf({"b", ".", "/"}, 3)}
\* Where a path leads, from a directory three levels deep or from its root.
Walk(p) ==
    LET root == RootOf(p)
        start == IF root = <<>> THEN <<<<"1">>, <<"2">>, <<"3">>>> ELSE <<>>
        step(at, seg) == IF seg \in {<<>>, <<".">>} THEN at
                         ELSE IF seg # <<".", ".">> THEN Append(at, seg)
                         ELSE IF at = <<>> THEN at ELSE Front(at)
    IN  <<root, FoldLeft(step, start, Split(SubSeq(p, Len(root) + 1, Len(p))))>>
\* A path is brought to its form once, and leads where it led; and what is
\* granted below a directory by name is what lies below it, and below the root
\* what has the root.
Below(p, dir) ==
    Walk(p)[1] = Walk(dir)[1] /\ IsStrictPrefix(Walk(dir)[2], Walk(p)[2])
PathLaw(p) ==
    LET form == normalize_path(p)
    IN  /\ normalize_path(form) = form /\ Walk(form) = Walk(p)
        /\ \A dir \in {<<"a">>, <<"/", "a">>, <<"a", "/", ".", ".", "/", "a">>} :
               covers("file", dir \o <<"/", "*">>, p) <=> Below(p, dir)
        /\ covers("file", <<"/", "*">>, p) <=> Walk(p)[1] = <<"/">>

Patterns == TextsOf({"a", "b", "*"}, 3)
PatternCases == Patterns \X Patterns
\* Every pattern matches itself, and what is matched by what it matches; a star
\* is any text and anything else itself.
PatternLaw(p, q) ==
    /\ fnmatch(p, p)
    /\ fnmatch(q, p) => \A r \in Patterns : fnmatch(r, q) => fnmatch(r, p)

UrlCases ==
    [user : {<<>>, <<"u", "@">>, <<"u", ":", "@", "@">>}, host : {<<"h">>, <<"H", "*">>},
     port : {<<>>, <<":", "5">>}, path : {<<>>, <<"/">>, <<"/", "d">>, <<"/", "d", "/", "x">>},
     query : {<<>>, <<"?", "/", "@", ":">>, <<"#", "x">>}]
UrlOf(u) == <<"s", "://">> \o u.user \o u.host \o u.port \o u.path \o u.query
\* A database is known by its host and its name alone.
UrlLaw(u) ==
    LET plain == [u EXCEPT !.user = <<>>, !.port = <<>>, !.query = <<>>]
        canon == canon_url(UrlOf(u))
    IN  /\ canon = canon_url(UrlOf(plain)) /\ canon_url(canon) = canon
        /\ covers("db", <<"s", "://", "h", "/", "*">>, UrlOf(u)) <=>
               u.host = <<"h">> /\ Len(u.path) > 1
-----------------------------------------------------------------------------
RangeCases ==
    {<<size, r>> : size \in 0..4,
        r \in [kind : {"suffix"}, n : 0..5] \cup [kind : {"open"}, from : 0..5]
                \cup [kind : {"closed"}, from : 0..5, to : 0..5]}
NamedBytes(r, size) ==
    CASE r.kind = "suffix" -> {i \in 0..size - 1 : i >= size - r.n}
      [] r.kind = "open"   -> {i \in 0..size - 1 : i >= r.from}
      [] r.kind = "closed" -> {i \in 0..size - 1 : i >= r.from /\ i <= r.to}
\* A range gives the bytes of the file that it names.
RangeLaw(size, r) ==
    LET got == Ro!parse_range(r, size)
    IN  (IF got.ok THEN got.from..got.to ELSE {}) = NamedBytes(r, size)

PageCases == (0..7) \X (-1..4)
Items(n) == [i \in 1..n |-> i]
Followed(n, limit) ==
    LET pages[k \in 0..n + 2] ==
          IF k = 0 THEN [items |-> <<>>, cursor |-> 0]
          ELSE IF pages[k - 1].cursor = Ro!NoCursor THEN pages[k - 1]
          ELSE LET page == Ro!paginate(Items(n), [limit |-> limit, cursor |-> pages[k - 1].cursor])
               IN  [page EXCEPT !.items = pages[k - 1].items \o @]
    IN  pages[n + 2]
\* Following the cursor from the first page shows every item once.
PageLaw(n, limit) == Followed(n, limit) = [items |-> Items(n), cursor |-> Ro!NoCursor]
-----------------------------------------------------------------------------
\* A program with a task, a map of callbacks and two modules; one of them has a
\* helper nobody else sees, a name that the program has too, a map of its own
\* tasks, and the other module.
Own(m) == [t |-> Task("t" \o m, m), h |-> Task("h" \o m, m), v |-> Plain("v" \o m)]
Tools(m) == MapOf([x |-> Task("t" \o m, m), y |-> MapOf([z |-> Task("h" \o m, m)])])
Alias(m, exports, tools) ==
    MapOf([n \in exports |-> IF n = "tools" THEN tools ELSE Own(m)[n]])
Optional(name, v, there) == IF there THEN name :> v ELSE Nothing
World(tools, deep, callback, exports) ==
    LET two == Own("m2") @@ Optional("tools", Tools("m2"), deep)
        one == Own("m1") @@ Optional("tools", Tools("m1"), tools)
                  @@ ("other" :> Alias("m2", {"t"}, Tools("m2")))
                  @@ ("flags" :> MapOf([v |-> Plain("f")]))
        top == [g |-> Task("g", Global), v |-> Plain("v"), m |-> Alias("m1", exports, Tools("m1"))]
                  @@ Optional("on", MapOf([g |-> Task("g", Global)]), callback)
                  @@ Optional("n", Alias("m2", {"t", "v"}, Tools("m2")), deep)
    IN  Global :> top @@ "m1" :> one @@ "m2" :> two
Worlds ==
    {World(tools, deep, callback, exports) :
        tools \in BOOLEAN, deep \in BOOLEAN, callback \in BOOLEAN,
        exports \in {{"t"}, {"v"}, {"t", "v"}}}
    \cup {World(TRUE, deep, callback, exports) :
        deep \in BOOLEAN, callback \in BOOLEAN, exports \in {{"t", "tools"}, {"tools"}}}
Names == {"t", "h", "v", "g", "m", "n", "on", "tools", "other", "flags"}

\* Whoever follows names and entries as far as `depth' tasks finds the same.
RECURSIVE Same(_, _, _, _, _)
Same(world, snapshot, v, r, depth) ==
    CASE v.k # r.k -> FALSE
      [] v.k = "plain" -> v = r
      [] v.k = "map" -> /\ DOMAIN v.entries = DOMAIN r.entries
                        /\ \A n \in DOMAIN v.entries :
                              Same(world, snapshot, v.entries[n], r.entries[n], depth)
      [] v.k = "task" -> /\ v.id = r.id
                         /\ depth > 0 => \A n \in Names :
                               Same(world, snapshot, Meaning(world, v.env, n),
                                    rebuild_globals(snapshot, r.env, n), depth - 1)

\* Every request and every worker finds under each name what the program has
\* there, and so does every task it calls, in its module as in the program; as
\* long as the modules do not use each other in a circle.
WorldLaw(world) ==
    LET snapshot == snapshot_globals(world)
    IN  /\ \A n \in Names :
               Same(world, snapshot, Meaning(world, Global, n), rebuild_globals(snapshot, Base, n), 2)
        /\ \A env \in DOMAIN world : \A n \in DOMAIN world[env] :
               world[env][n].k = "task" =>
                   Same(world, snapshot, world[env][n], reconstruct_task(world, world[env][n]), 2)
=============================================================================
