------------------------------- MODULE Routing ------------------------------
(***************************************************************************)
(* How the server finds what answers a request: virtual hosts, routes,     *)
(* static files, formats, byte ranges and pages                            *)
(* (synsema-stdlib/src/server.rs).                                         *)
(*                                                                         *)
(* A path is the sequence of its non-empty segments, a segment the         *)
(* sequence of its parts between dots; a pattern is a sequence of          *)
(* [mark, seg] with mark "", ":" or "*"; a host name the sequence of its   *)
(* labels, in lower case.                                                  *)
(***************************************************************************)
EXTENDS Integers, Sequences, FiniteSets, SequencesExt, TLC

CONSTANTS
    Encoded,    \* segments written with %XX -> what they stand for
    DefaultLimit, MaxLimit,  \* items of a page
    Disk        \* [files, dirs : sets of paths, links : path -> path,
                \*  sizes : file -> Nat]

unquote(seg) == IF seg \in DOMAIN Encoded THEN Encoded[seg] ELSE seg
-----------------------------------------------------------------------------
(* Routes.                                                                 *)

Static(s) == [mark |-> "", seg |-> s]
Param(s)  == [mark |-> ":", seg |-> s]
Rest(s)   == [mark |-> "*", seg |-> s]

Rank == [m \in {"", ":", "*"} |-> CASE m = "" -> 0 [] m = ":" -> 1 [] m = "*" -> 2]
specificity(pattern) == [i \in DOMAIN pattern |-> Rank[pattern[i].mark]]

(* The first place where they differ decides; else the shorter one precedes. *)
Precedes(a, b) ==
    \E n \in 0..Len(a) :
        /\ n < Len(b)
        /\ \A i \in 1..n : a[i] = b[i]
        /\ n < Len(a) => a[n + 1] < b[n + 1]

(* The indices 1..n in the order of a relation, a strict total one.        *)
InOrder(n, before) ==
    [k \in 1..n |-> CHOOSE i \in 1..n : Cardinality({j \in 1..n : <<j, i>> \in before}) = k - 1]

(* Fault: the routes keep the order of the program.                        *)
DeclaredOrder(routes) == routes

(* HostRouter::new: a stable sort, the most specific first.                *)
Sooner(routes) ==
    LET rank == [i \in DOMAIN routes |-> specificity(routes[i].path)]
    IN  {p \in (DOMAIN routes) \X (DOMAIN routes) :
           Precedes(rank[p[1]], rank[p[2]]) \/ (rank[p[1]] = rank[p[2]] /\ p[1] < p[2])}
Ordered(routes) ==
    LET order == InOrder(Len(routes), Sooner(routes))
    IN  [i \in DOMAIN routes |-> routes[order[i]]]

(* The first catch-all takes the rest, which is not empty, whatever is     *)
(* written after it.                                                       *)
CatchAll(pattern) ==
    LET stars == {i \in DOMAIN pattern : pattern[i].mark = "*"}
    IN  IF stars = {} THEN 0 ELSE CHOOSE i \in stars : \A j \in stars : i <= j
path_match(pattern, path) ==
    LET star == CatchAll(pattern)
        singles == IF star = 0 THEN DOMAIN pattern ELSE 1..star - 1
    IN  /\ IF star = 0 THEN Len(path) = Len(pattern) ELSE Len(path) >= star
        /\ \A i \in singles : pattern[i].mark = "" => pattern[i].seg = path[i]
captures(pattern, path) ==
    LET star == CatchAll(pattern)
        marked == {i \in DOMAIN pattern : pattern[i].mark = ":" /\ (star = 0 \/ i < star)}
        last == IF star = 0 THEN marked ELSE marked \cup {star}
        named == {pattern[i].seg : i \in last}
        at(n) == CHOOSE i \in last : pattern[i].seg = n /\ \A j \in last : pattern[j].seg = n => j <= i
    IN  [n \in named |->
            IF at(n) = star THEN [k \in 1..Len(path) - star + 1 |-> unquote(path[star + k - 1])]
            ELSE <<unquote(path[at(n)])>>]
param_last_segment(pattern) == pattern # <<>> /\ Last(pattern).mark = ":"

None == 0
match_route(host, method, path) ==
    LET found == {i \in DOMAIN host.routes :
                    /\ host.routes[i].method = method
                    /\ path_match(host.routes[i].path, path)}
    IN  IF found = {} THEN None ELSE CHOOSE i \in found : \A j \in found : i <= j
methods_for_path(host, path) ==
    {host.routes[i].method : i \in {j \in DOMAIN host.routes : path_match(host.routes[j].path, path)}}
-----------------------------------------------------------------------------
(* Formats: a suffix of the path, or what the client accepts.              *)

Formats == {"md", "json", "html"}
HasSuffix(path) ==
    /\ path # <<>> /\ Len(Last(path)) >= 2
    /\ Last(Last(path)) \in Formats /\ Last(path) # <<"", Last(Last(path))>>
split_format_suffix(path) ==
    IF HasSuffix(path)
    THEN [path |-> Append(Front(path), Front(Last(path))), fmt |-> Last(Last(path))]
    ELSE [path |-> path, fmt |-> ""]
negotiate_format(accept) ==
    IF "html" \in accept THEN "html"
    ELSE IF "md" \in accept THEN "md"
    ELSE IF "json" \in accept THEN "json"
    ELSE "html"
-----------------------------------------------------------------------------
(* Virtual hosts and the certificate that is shown for them.               *)

Exact(labels) == [wild |-> FALSE, labels |-> labels]
Wild(labels) == [wild |-> TRUE, labels |-> labels]

matches_host(pattern, h) ==
    IF pattern.wild THEN IsSuffix(pattern.labels, h) ELSE h = pattern.labels
FirstOf(hosts, Ok(_)) ==
    LET found == {i \in DOMAIN hosts : Ok(hosts[i])}
    IN  IF found = {} THEN None ELSE CHOOSE i \in found : \A j \in found : i <= j

(* select_host: exact, then wildcard, then the default (None).             *)
select_host(vhosts, h) ==
    LET exact == FirstOf(vhosts, LAMBDA v : ~v.pattern.wild /\ matches_host(v.pattern, h))
        wild == FirstOf(vhosts, LAMBDA v : v.pattern.wild /\ matches_host(v.pattern, h))
    IN  IF exact # None THEN exact ELSE wild
(* SniResolver: the last certificate of a name, else the first wildcard    *)
(* with a label before its suffix.                                         *)
resolve(vhosts, name) ==
    LET exact == {i \in DOMAIN vhosts : vhosts[i].pattern = Exact(name)}
        wild == FirstOf(vhosts, LAMBDA v : v.pattern.wild /\ IsStrictSuffix(v.pattern.labels, name))
    IN  IF exact # {} THEN CHOOSE i \in exact : \A j \in exact : j <= i ELSE wild
-----------------------------------------------------------------------------
(* Static files.                                                           *)

Up == <<"", "", "">>    \* the segment `..'
Index == <<"index", "html">>

IsDir(p) == p \in Disk.dirs
Exists(p) == p \in Disk.files \cup Disk.dirs
NotThere == [found |-> FALSE, path |-> <<>>]
There(p) == [found |-> TRUE, path |-> p]
canonicalize(base, rel) ==
    FoldLeft(LAMBDA at, seg :
                LET next == IF seg = Up THEN IF at.path = <<>> THEN <<>> ELSE Front(at.path)
                            ELSE IF Append(at.path, seg) \in DOMAIN Disk.links
                            THEN Disk.links[Append(at.path, seg)]
                            ELSE Append(at.path, seg)
                IN  IF at.found /\ IsDir(at.path) /\ Exists(next) THEN There(next) ELSE NotThere,
             There(base), rel)
within(base, target) == target.found /\ IsPrefix(base, target.path)

(* Fault: the place of an index file is not looked at again.               *)
ResolveUnchecked(base, rel) ==
    LET target == canonicalize(base, IF rel = <<>> THEN <<Index>> ELSE [i \in DOMAIN rel |-> unquote(rel[i])])
    IN  IF ~within(base, target) THEN NotThere
        ELSE IF IsDir(target.path) THEN canonicalize(target.path, <<Index>>)
        ELSE target

(* resolve_in: a file of `base', or the index of a directory of it.        *)
resolve_in(base, rel) ==
    LET target == canonicalize(base, IF rel = <<>> THEN <<Index>> ELSE [i \in DOMAIN rel |-> unquote(rel[i])])
        index == canonicalize(target.path, <<Index>>)
        file == IF target.found /\ IsDir(target.path) THEN index ELSE target
    IN  IF within(base, target) /\ within(base, file) /\ ~IsDir(file.path) THEN file ELSE NotThere

(* Mounts, the longest prefix first; a mount without the file is passed.   *)
Longer(mounts) ==
    LET length == [i \in DOMAIN mounts |-> Len(mounts[i].prefix)]
    IN  {p \in (DOMAIN mounts) \X (DOMAIN mounts) :
           length[p[1]] > length[p[2]] \/ (length[p[1]] = length[p[2]] /\ p[1] < p[2])}
ByLength(mounts) ==
    LET order == InOrder(Len(mounts), Longer(mounts))
    IN  [i \in DOMAIN mounts |-> mounts[order[i]]]
in_mount(m, path) ==
    IF IsPrefix(m.prefix, path) THEN resolve_in(m.base, SubSeq(path, Len(m.prefix) + 1, Len(path)))
    ELSE NotThere
static_file(mounts, path) ==
    LET first == FirstOf(ByLength(mounts), LAMBDA m : in_mount(m, path).found)
    IN  IF first = None THEN NotThere ELSE in_mount(ByLength(mounts)[first], path)

(* Fault: a suffix longer than the file starts before it.                  *)
RangeBefore(r, size) ==
    IF r.kind = "suffix" THEN [ok |-> r.n > 0 /\ size > 0, from |-> size - r.n, to |-> size - 1]
    ELSE [ok |-> size > 0 /\ r.from < size /\ (r.kind = "open" \/ r.from <= r.to),
          from |-> r.from, to |-> IF r.kind = "open" \/ r.to >= size THEN size - 1 ELSE r.to]

(* parse_range: [kind |-> "suffix", n], [kind |-> "open", from] or         *)
(* [kind |-> "closed", from, to].                                          *)
parse_range(r, size) ==
    LET least(a, b) == IF a < b THEN a ELSE b
        from == CASE r.kind = "suffix" -> IF r.n > size THEN 0 ELSE size - r.n
                  [] OTHER -> r.from
        to == IF r.kind = "closed" THEN least(r.to, size - 1) ELSE size - 1
    IN  [ok |-> size > 0 /\ from <= to /\ from < size /\ (r.kind = "suffix" => r.n > 0),
         from |-> from, to |-> to]

(* serve_static_full: 304, then a range, then the whole file.              *)
StaticStatus(req, size) ==
    IF req.known THEN 304
    ELSE IF req.range.kind = "none" THEN 200
    ELSE IF parse_range(req.range, size).ok THEN 206 ELSE 416
-----------------------------------------------------------------------------
(* Pages of a list: `limit' and `cursor' (or `offset') of the query.       *)

page_window(query) ==
    [limit  |-> IF query.limit <= 0 THEN DefaultLimit
                ELSE IF query.limit > MaxLimit THEN MaxLimit ELSE query.limit,
     offset |-> IF query.cursor < 0 THEN 0 ELSE query.cursor]
NoCursor == -1

(* Fault: the next page begins one item later.                             *)
PaginateSkipping(items, query) ==
    LET w == page_window(query)
    IN  [items |-> SubSeq(items, w.offset + 1, w.offset + w.limit),
         cursor |-> IF w.offset + w.limit < Len(items) THEN w.offset + w.limit + 1 ELSE NoCursor]

(* paginate with envelope_from_page; sums stay below the width of i64.     *)
paginate(items, query) ==
    LET w == page_window(query)
        least(a, b) == IF a < b THEN a ELSE b
        start == least(w.offset, Len(items))
        end == least(w.offset + w.limit, Len(items))
    IN  [items |-> SubSeq(items, start + 1, end),
         cursor |-> IF w.offset + w.limit < Len(items) THEN w.offset + w.limit ELSE NoCursor]
=============================================================================
