----------------------------- MODULE PunchReplica -----------------------------
(***************************************************************************)
(* What the bridge between an attendance device and the server promises:   *)
(* the server holds punches the device has logged and never loses one, and *)
(* at a site that is fed in order, what it holds is a prefix of the log.   *)
(***************************************************************************)
EXTENDS Naturals, Sequences

VARIABLES
    ordered,    \* no range of dates is ever asked for here
    log,        \* the times of the device's punches
    stored      \* the positions of those the server holds

Init ==
    /\ ordered \in BOOLEAN
    /\ log = << >>
    /\ stored = {}

Punch ==
    /\ Len(log') = Len(log) + 1
    /\ \A i \in 1..Len(log) : log'[i] = log[i]
    /\ UNCHANGED <<ordered, stored>>

Receive ==
    /\ stored \subseteq stored'
    /\ stored' \subseteq 1..Len(log)
    /\ ordered => \A i \in stored' : 1..i \subseteq stored'
    /\ UNCHANGED <<ordered, log>>

Spec == Init /\ [][Punch \/ Receive]_<<ordered, log, stored>>

=============================================================================
