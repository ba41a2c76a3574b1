------------------------------- MODULE Deploy -------------------------------
(***************************************************************************)
(* What a program that serves brings up (synsema-runtime/src/serve.rs): the *)
(* flags of the command line are checked, and then every serve block, in   *)
(* its turn, resolves its TLS, binds its port and what helps it on the     *)
(* port of HTTP, and starts.  A block in a `try' may fail and the program  *)
(* goes on; what is bound by then goes unless a thread has it.             *)
(***************************************************************************)
EXTENDS Naturals, Sequences

CONSTANTS
    Programs,     \* sequences of blocks, see below
    CommandLines, \* [tls: "none", "auto", "manual", "half" or "both"; port: 0 or one; domain]
    HttpPort

\* A block: [port, granted, mounts (two at one prefix), auto, manual, domain,
\* hostCert, redirect, tried].
VARIABLES
    flags, blocks,
    at, stage,   \* the block it is at, and how far that is
    sockets,     \* [port, block, use, tls, run: its thread has it]
    failed       \* the blocks that ended with an error
vars == <<flags, blocks, at, stage, sockets, failed>>

Init == /\ flags \in CommandLines /\ blocks \in Programs
        /\ at = 0 /\ stage = "validate" /\ sockets = {} /\ failed = {}

Goes(s) == stage' = s /\ UNCHANGED <<flags, blocks, at, failed>>
Reaches(n) ==
    /\ at' = n
    /\ stage' = IF n <= Len(blocks) THEN "permit"
                ELSE IF sockets' = {} THEN "ended" ELSE "running"
    /\ UNCHANGED <<flags, blocks>>
Fail ==
    /\ failed' = failed \cup {at}
    /\ IF blocks[at].tried
       THEN sockets' = {s \in sockets : s.run} /\ Reaches(at + 1)
       ELSE sockets' = {} /\ stage' = "ended" /\ UNCHANGED <<flags, blocks, at>>
-----------------------------------------------------------------------------
(* serve_inner: with flags, the statements of the program itself have to   *)
(* be one block; what is inside of a try is not looked at.                 *)
is_empty == flags.tls = "none" /\ flags.port = 0 /\ ~flags.domain
validate == flags.tls \notin {"half", "both"}
OneBlock == \E i \in DOMAIN blocks : \A j \in DOMAIN blocks : i = j <=> ~blocks[j].tried
Validate ==
    /\ stage = "validate" /\ UNCHANGED <<sockets, failed>>
    /\ IF is_empty \/ (validate /\ OneBlock) THEN Reaches(1)
       ELSE stage' = "ended" /\ UNCHANGED <<flags, blocks, at>>

(* A port that the command line names is granted by it.                    *)
Port(b) == IF flags.port # 0 THEN flags.port ELSE b.port
Permit ==
    /\ stage = "permit"
    /\ IF flags.port # 0 \/ blocks[at].granted
       THEN Goes("tables") /\ UNCHANGED sockets ELSE Fail

(* build_host_table, of the block and of its hosts                         *)
build_host_table ==
    /\ stage = "tables"
    /\ IF blocks[at].mounts THEN Fail ELSE Goes("tls") /\ UNCHANGED sockets

(* What the command line says of TLS goes before all the file says.        *)
cli_overrides_tls == flags.tls # "none"
host_certs(b) == ~cli_overrides_tls /\ b.hostCert
manual_cert(b) == flags.tls = "manual" \/ (flags.tls # "auto" /\ b.manual)
acme_domains(b) == flags.domain \/ b.domain
(* Fault: a certificate of the command line leaves the file's auto on.     *)
auto_of_either(b) == flags.tls = "auto" \/ b.auto
tls_auto_eff(b) == flags.tls # "manual" /\ (flags.tls = "auto" \/ b.auto)
ResolveTls ==
    LET b == blocks[at]
    IN  /\ stage = "tls"
        /\ \/ /\ host_certs(b) => manual_cert(b)
              /\ tls_auto_eff(b) => acme_domains(b)
              /\ Goes("bind") /\ UNCHANGED sockets
           \* A certificate that cannot be loaded is one more reason.
           \/ /\ manual_cert(b) \/ host_certs(b) \/ (tls_auto_eff(b) /\ ~acme_domains(b))
              /\ Fail

(* A port that this or another process has cannot be bound.                *)
Bind(port, use, tls, run, then) ==
    \/ /\ \A s \in sockets : s.port # port
       /\ sockets' = sockets \cup
              {[port |-> port, block |-> at, use |-> use, tls |-> tls, run |-> run]}
       /\ Goes(then)
    \/ Fail
BindServer ==
    LET b == blocks[at]
        tls == IF tls_auto_eff(b) THEN "auto" ELSE IF manual_cert(b) THEN "manual" ELSE "none"
        then == IF tls = "auto" THEN "challenge"
                ELSE IF b.redirect /\ tls = "manual" THEN "redirect" ELSE "start"
    IN  stage = "bind" /\ Bind(Port(b), "server", tls, FALSE, then)
BindChallenge == stage = "challenge" /\ Bind(HttpPort, "challenge", "none", TRUE, "obtain")
BindRedirect == stage = "redirect" /\ Bind(HttpPort, "redirect", "none", TRUE, "start")

(* load_or_obtain_config, see Certificates; the listener of its challenges *)
(* has its thread by now.                                                  *)
Obtain ==
    /\ stage = "obtain"
    /\ \/ Goes("start") /\ UNCHANGED sockets
       \/ Fail

Start ==
    /\ stage = "start" /\ UNCHANGED failed
    /\ sockets' = {IF s.block = at THEN [s EXCEPT !.run = TRUE] ELSE s : s \in sockets}
    /\ Reaches(at + 1)

Next == \/ Validate \/ Permit \/ build_host_table \/ ResolveTls
        \/ BindServer \/ BindChallenge \/ BindRedirect \/ Obtain \/ Start
Spec == Init /\ [][Next]_vars
-----------------------------------------------------------------------------
Serving(i) == {s \in sockets : s.block = i /\ s.use = "server" /\ s.run}
\* Who asks for TLS, on the command line or in the file, is not served in the
\* clear; what the command line asks is what is served.
TlsAsAsked ==
    \A i \in DOMAIN blocks : \A s \in Serving(i) :
        /\ s.tls = "none" =>
               ~(cli_overrides_tls \/ blocks[i].auto \/ blocks[i].manual \/ blocks[i].hostCert)
        /\ cli_overrides_tls => s.tls = flags.tls

\* A block that failed serves nothing and redirects to nothing, and only the
\* listener of a challenge that was not met stays behind it; what helps a block
\* is there for one that serves or is about to; and a program that ended holds
\* nothing.
NothingLeftBehind ==
    /\ \A s \in sockets :
           /\ s.block \in failed => s.use = "challenge" /\ blocks[s.block].tried
           /\ s.block = at \/ s.block \in failed \/ Serving(s.block) # {}
    /\ stage = "ended" => sockets = {}

DeployedAsAsked == TlsAsAsked /\ NothingLeftBehind
-----------------------------------------------------------------------------
\* Why: a block that is done has its server or has failed, and what the block at
\* work has bound follows from the step it is at.
Block == [port : Nat, granted : BOOLEAN, mounts : BOOLEAN, auto : BOOLEAN, manual : BOOLEAN,
          domain : BOOLEAN, hostCert : BOOLEAN, redirect : BOOLEAN, tried : BOOLEAN]
CommandLine == [tls : {"none", "auto", "manual", "half", "both"}, port : Nat, domain : BOOLEAN]
Socket == [port : Nat, block : Nat \ {0}, use : {"server", "challenge", "redirect"},
           tls : {"none", "auto", "manual"}, run : BOOLEAN]
Early == {"permit", "tables", "tls", "bind"}
Late == {"challenge", "redirect", "obtain", "start"}

TypeOK ==
    /\ flags \in CommandLine /\ blocks \in Seq(Block) /\ at \in Nat
    /\ stage \in Early \cup Late \cup {"validate", "running", "ended"}
    /\ sockets \subseteq Socket /\ failed \subseteq 1..Len(blocks)
AtABlock ==
    /\ stage = "validate" => at = 0
    /\ stage \notin {"validate", "ended"} => at > 0
    /\ stage \in Early \cup Late => at \in DOMAIN blocks /\ at \notin failed
    /\ stage \notin {"validate", "ended"} => flags.tls \notin {"half", "both"}
    /\ stage \in {"validate", "ended"} => sockets = {}
    /\ \A s \in sockets : s.block \in 1..Len(blocks) /\ s.block <= at
    /\ \A i \in failed : i <= at
    /\ stage = "running" => at = Len(blocks) + 1
\* The sockets of the block at work.
OfThis ==
    \A s \in sockets : s.block = at =>
        /\ stage \in Late
        /\ s.run <=> s.use # "server"
        /\ stage = "challenge" => s.use = "server"
        /\ stage = "redirect" => s.use = "server"
        /\ stage = "obtain" => s.use # "redirect"
OfThose ==
    \A s \in sockets : s.block # at =>
        /\ s.run
        /\ IF s.block \in failed THEN s.use = "challenge" /\ blocks[s.block].tried
           ELSE Serving(s.block) # {}
Bound == stage \in Late => \E s \in sockets : s.block = at /\ s.use = "server"
Resolved ==
    /\ stage = "bind" /\ host_certs(blocks[at]) => manual_cert(blocks[at])
    /\ \A s \in sockets : s.use = "server" =>
           LET b == blocks[s.block]
           IN  /\ s.tls = IF tls_auto_eff(b) THEN "auto" ELSE IF manual_cert(b) THEN "manual" ELSE "none"
               /\ host_certs(b) => manual_cert(b)
Inv == TypeOK /\ AtABlock /\ OfThis /\ OfThose /\ Bound /\ Resolved
=============================================================================
