---------------------------- MODULE NodeReports -----------------------------
(***************************************************************************)
(* What the NR+ sink promises to a reader of a gateway's shadow: each      *)
(* value it shows was sent to that gateway and is shown for the node that  *)
(* sent it; or for a node that sent another message, but only if the       *)
(* earlier one of the two, or one before it, was disturbed: a line was     *)
(* missed, came late, or went down with a parser.  NRPlusSink implements   *)
(* it.                                                                     *)
(***************************************************************************)
EXTENDS Naturals, Sequences

CONSTANTS
    Gateway, Node, Section,
    Script      \* per gateway, the messages it receives, in order

VARIABLES
    begun,      \* per gateway, the number of messages it has begun to publish
    shown,      \* the message whose value is shown: by gateway, node, section
    disturbed   \* the messages that were disturbed, with their gateway

vars == <<begun, shown, disturbed>>

Key == Gateway \X Node \X Section

Init ==
    /\ begun = [g \in Gateway |-> 0]
    /\ shown = [k \in Key |-> 0]
    /\ disturbed = {}

Begin(g) ==
    /\ \E n \in 1..Len(Script[g]) : n > begun[g] /\ begun' = [begun EXCEPT ![g] = n]
    /\ UNCHANGED <<shown, disturbed>>

Disturb ==
    /\ disturbed \subseteq disturbed'
    /\ \A d \in disturbed' \ disturbed : d[1] \in Gateway /\ d[2] \in 1..begun[d[1]]
    /\ UNCHANGED <<begun, shown>>

HasValue(g, m) == Script[g][m].section \in Section

Show(g, m, n) ==
    /\ HasValue(g, m)
    /\ shown' = [shown EXCEPT ![<<g, n, Script[g][m].section>>] = m]
    /\ UNCHANGED <<begun, disturbed>>

Report(g) == \E m \in 1..begun[g] : Show(g, m, Script[g][m].node)

Misreport(g) == \E m, k \in 1..begun[g] :
    /\ \E d \in 1..begun[g] : d <= m /\ d <= k /\ <<g, d>> \in disturbed
    /\ Show(g, m, Script[g][k].node)

Next == Disturb \/ \E g \in Gateway : Begin(g) \/ Report(g) \/ Misreport(g)

Spec == Init /\ [][Next]_vars
=============================================================================
