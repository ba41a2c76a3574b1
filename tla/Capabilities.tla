---------------------------- MODULE Capabilities ----------------------------
(***************************************************************************)
(* Capabilities and sets of them: synsema-capabilities/src/model.rs.       *)
(* A capability has a type and a scope: a path, a URL, a name, or nothing, *)
(* which stands for every scope.  Scopes are compared after they are       *)
(* brought to a canonical form and may hold the wildcard `*'; Matches is   *)
(* the relation that fnmatch computes on them.                             *)
(***************************************************************************)
CONSTANTS
    Types,     \* the capability types
    Scopes,    \* canonical scopes
    All,       \* no scope: the capability for every scope
    Matches    \* <<pattern, scope>>: the pattern matches the scope

(* A pattern whose only wildcard is `*' matches itself, and whatever is    *)
(* matched by what it matches.                                             *)
ASSUME ScopeAssumption ==
    /\ All \notin Scopes
    /\ Matches \subseteq Scopes \X Scopes
    /\ \A s \in Scopes : <<s, s>> \in Matches
    /\ \A s, t, u \in Scopes :
           <<s, t>> \in Matches /\ <<t, u>> \in Matches => <<s, u>> \in Matches

Cap == [ty : Types, scope : Scopes \cup {All}]

(* `file' stands for reading and for writing.                              *)
TypeCovers(t, u) == t = u \/ (t = "file" /\ u \in {"file.read", "file.write"})

ScopeCovers(s, t) == s = All \/ (t # All /\ <<s, t>> \in Matches)

Covers(c, d) == TypeCovers(c.ty, d.ty) /\ ScopeCovers(c.scope, d.scope)

Allows(set, c) == \E g \in set : Covers(g, c)

(* A ceiling is a set of capabilities; Cap, which allows all, stands for   *)
(* the absence of one.                                                     *)
Within(ceiling, c) == Allows(ceiling, c)

Grant(granted, ceiling, c) ==
    IF Within(ceiling, c) THEN granted \cup {c} ELSE granted

GrantAll(granted, ceiling, set) ==
    granted \cup {c \in set : Within(ceiling, c)}

Check(granted, ceiling, c) == Within(ceiling, c) /\ Allows(granted, c)
=============================================================================
