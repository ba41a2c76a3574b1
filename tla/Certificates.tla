---------------------------- MODULE Certificates ----------------------------
(***************************************************************************)
(* The certificate of a server with automatic HTTPS                        *)
(* (synsema-stdlib/src/acme.rs): it is kept in three files, obtained when  *)
(* the server begins without a fresh one, and renewed by a thread that     *)
(* looks twice a day.  The server may be killed between any two writes and *)
(* in the middle of one.                                                   *)
(***************************************************************************)
EXTENDS Integers

CONSTANTS
    Lifetime, RenewBefore,  \* days a certificate lasts, and is renewed before
    MaxDay, MaxOrders       \* bound the clock and the certificates issued

None == [order |-> 0, day |-> 0]    \* no file
Half == [order |-> -1, day |-> 0]   \* a file that was not written to its end

VARIABLES
    today,    \* from 1 on
    orders,   \* certificates issued so far
    files,    \* [cert, key: the order and day they are of; issued: a day, or 0]
    server,   \* "down", "starting" or "serving"
    job,      \* what obtains a certificate: its stage and what it has to save
    live      \* the certificate and key that are served
vars == <<today, orders, files, server, job, live>>

NoJob == [stage |-> "none", pair |-> None]
Init == /\ today = 1 /\ orders = 0
        /\ files = [cert |-> None, key |-> None, issued |-> 0]
        /\ server = "down" /\ job = NoJob /\ live = [cert |-> None, key |-> None]

(* The files are there and the third one says it is not time to renew.     *)
has_fresh_cert ==
    /\ files.cert.order # 0 /\ files.key.order # 0
    /\ files.issued > 0 /\ today - files.issued < Lifetime - RenewBefore

(* build_tls_config: a certificate and the key of another are refused.     *)
Load ==
    IF files.cert = files.key /\ files.cert.order > 0
    THEN /\ server' = "serving" /\ live' = [cert |-> files.cert, key |-> files.key]
    ELSE /\ server' = IF server = "starting" THEN "down" ELSE server
         /\ UNCHANGED live
-----------------------------------------------------------------------------
(* load_or_obtain_config                                                   *)
Start ==
    /\ server = "down" /\ server' = "starting"
    /\ job' = [NoJob EXCEPT !.stage = IF has_fresh_cert THEN "load" ELSE "order"]
    /\ UNCHANGED <<today, orders, files, live>>

(* The renewal thread looks.                                               *)
Renew ==
    /\ server = "serving" /\ job = NoJob /\ ~has_fresh_cert
    /\ job' = [NoJob EXCEPT !.stage = "order"]
    /\ UNCHANGED <<today, orders, files, server, live>>

(* provision_certificate.  Any step of it and any write may fail, and then *)
(* the server does not begin, or keeps what it has until the thread looks  *)
(* again.                                                                  *)
Provision ==
    /\ job.stage = "order" /\ orders < MaxOrders
    /\ orders' = orders + 1
    /\ job' = [stage |-> "cert", pair |-> [order |-> orders + 1, day |-> today]]
    /\ UNCHANGED <<today, files, server, live>>

(* What is being written, if anything, is left as it was, or half.         *)
Interrupted ==
    \/ UNCHANGED files
    \/ job.stage = "cert" /\ files' = [files EXCEPT !.cert = Half]
    \/ job.stage = "key" /\ files' = [files EXCEPT !.key = Half]
    \/ job.stage = "day" /\ files' = [files EXCEPT !.issued = 0]
Fails ==
    /\ job.stage \in {"order", "cert", "key"} /\ job' = NoJob
    /\ server' = IF server = "starting" THEN "down" ELSE server
    /\ Interrupted /\ UNCHANGED <<today, orders, live>>

(* Fault: the day is written before the key.                               *)
DayFirst ==
    \/ /\ job.stage = "cert" /\ files' = [files EXCEPT !.issued = today]
       /\ job' = [job EXCEPT !.stage = "key"]
    \/ /\ job.stage = "key" /\ files' = [files EXCEPT !.cert = job.pair]
       /\ job' = [job EXCEPT !.stage = "day"]
    \/ /\ job.stage = "day" /\ files' = [files EXCEPT !.key = job.pair]
       /\ job' = [job EXCEPT !.stage = "load"]

(* The certificate, the key, and last the day, which is not missed if it   *)
(* cannot be written.                                                      *)
save_cert ==
    \/ /\ job.stage = "cert" /\ files' = [files EXCEPT !.cert = job.pair]
       /\ job' = [job EXCEPT !.stage = "key"]
    \/ /\ job.stage = "key" /\ files' = [files EXCEPT !.key = job.pair]
       /\ job' = [job EXCEPT !.stage = "day"]
    \/ /\ job.stage = "day" /\ \E d \in {files.issued, 0, today} : files' = [files EXCEPT !.issued = d]
       /\ job' = [job EXCEPT !.stage = "load"]
Save == save_cert /\ UNCHANGED <<today, orders, server, live>>

LoadPair == /\ job.stage = "load" /\ Load /\ job' = NoJob
            /\ UNCHANGED <<today, orders, files>>

(* The process is killed, and with it what is being written.               *)
Kill ==
    /\ server # "down" /\ server' = "down" /\ job' = NoJob
    /\ live' = [cert |-> None, key |-> None]
    /\ Interrupted /\ UNCHANGED <<today, orders>>

(* A day does not pass while the three files are written.                  *)
NextDay == /\ today < MaxDay /\ job.stage \in {"none", "order"} /\ today' = today + 1
           /\ UNCHANGED <<orders, files, server, job, live>>

Next == Start \/ Renew \/ Provision \/ Fails \/ Save \/ LoadPair \/ Kill \/ NextDay
Spec == Init /\ [][Next]_vars
-----------------------------------------------------------------------------
\* Wherever the server is killed, what a later start takes for fresh is a
\* certificate with its own key that still lasts as long as it is renewed ahead,
\* and what is served is always such a pair.
CertificateIsWhole ==
    /\ has_fresh_cert =>
        files.cert = files.key /\ files.cert.order > 0
            /\ today - files.cert.day < Lifetime - RenewBefore
    /\ live.cert = live.key /\ (server = "serving" => live.cert.order > 0)
-----------------------------------------------------------------------------
\* Why: the day is written last, and while a certificate is obtained and written
\* there is none, or it is too old.
Pair == [order : Int, day : Int]
Dated == files.issued > 0 /\ today - files.issued < Lifetime - RenewBefore
Saving == job.stage \in {"cert", "key", "day"}

TypeOK ==
    /\ today \in Nat \ {0} /\ orders \in Nat
    /\ files \in [cert : Pair, key : Pair, issued : Nat]
    /\ server \in {"down", "starting", "serving"}
    /\ job \in [stage : {"none", "order", "cert", "key", "day", "load"}, pair : Pair]
    /\ live \in [cert : Pair, key : Pair]
DayIsLast ==
    /\ Dated => files.cert = files.key /\ files.cert.order > 0 /\ files.cert.day = files.issued
    /\ files.issued > 0 => files.cert.order # 0 /\ files.key.order # 0
    /\ Saving \/ job.stage = "order" => ~Dated
    /\ Saving => job.pair.order > 0 /\ job.pair.day = today
    /\ job.stage \in {"key", "day"} => files.cert = job.pair
    /\ job.stage = "day" => files.key = job.pair
Inv == /\ TypeOK /\ DayIsLast
       /\ live.cert = live.key /\ (server = "serving" => live.cert.order > 0)
=============================================================================
