----------------------------- MODULE LinkService -----------------------------
(***************************************************************************)
(* What the Link Control Entity of a fixed part promises to the protocols  *)
(* above it: a link is established, carries messages and is released, and  *)
(* messages may be handed over before it is there.  They are written in    *)
(* the order in which they were handed over, all of them as soon as the    *)
(* link is up.  How a link comes up (a connection, or pages and the link   *)
(* that answers them) and which timers run meanwhile is no part of it.     *)
(*                                                                         *)
(* DataLink implements this module: see ServiceProvided there.             *)
(***************************************************************************)
EXTENDS Naturals, Sequences

CONSTANT Link

VARIABLES
    service,    \* per link: its phase, the number of messages accepted since
                \* it was asked for, and those written
    alive       \* the process runs

vars == <<service, alive>>

Idle == [phase |-> "idle", accepted |-> 0, written |-> <<>>]

Leaving == [Idle EXCEPT !.phase = "leaving"]

UpTo(n) == [i \in 1 .. n |-> i]

Establishing(n) == [phase |-> "establishing", accepted |-> n, written |-> <<>>]

\* A link that is up has written what it accepted.
Up(n) == [phase |-> "up", accepted |-> n, written |-> UpTo(n)]

Init == /\ service = [l \in Link |-> Idle]
        /\ alive = TRUE

Becomes(l, s) ==
    /\ alive
    /\ service' = [service EXCEPT ![l] = s]
    /\ UNCHANGED alive

\* A link is asked for, with or without a first message.
Establish(l) ==
    /\ service[l] = Idle
    /\ \E n \in 0 .. 1 : Becomes(l, Establishing(n))

\* A portable opens a link.
Accept(l) == service[l] = Idle /\ Becomes(l, Up(0))

Send(l) ==
    LET n == service[l].accepted + 1 IN
    \/ service[l].phase = "establishing" /\ Becomes(l, Establishing(n))
    \/ service[l].phase = "up" /\ Becomes(l, Up(n))

Confirm(l) ==
    /\ service[l].phase = "establishing"
    /\ Becomes(l, Up(service[l].accepted))

\* Link l, which a portable opened, takes the place of link r, which was asked
\* for: what waits on r is written after what l carried.
TakeOver(l, r) ==
    /\ alive
    /\ l # r
    /\ service[l].phase = "up"
    /\ service[r].phase = "establishing"
    /\ service' = [service EXCEPT ![l] = Up(service[l].accepted + service[r].accepted),
                                  ![r] = Idle]
    /\ UNCHANGED alive

\* The release begins, which a failed establishment does too, and never turns back.
Release(l) == service[l].phase \in {"establishing", "up"} /\ Becomes(l, Leaving)

Gone(l) == service[l].phase # "idle" /\ Becomes(l, Idle)

\* A failed assertion ends the process in the work on one link.
Die(l) == /\ alive
          /\ alive' = FALSE
          /\ service' = [service EXCEPT ![l] = Idle]

Next == \E l \in Link : \/ Establish(l)
                        \/ Accept(l)
                        \/ Send(l)
                        \/ Confirm(l)
                        \/ \E r \in Link : TakeOver(l, r)
                        \/ Release(l)
                        \/ Gone(l)
                        \/ Die(l)

Spec == Init /\ [][Next]_vars

=============================================================================
