--------------------------- MODULE MCCellLocations ---------------------------
(* Instances of CellLocations for TLC.                                     *)
EXTENDS CellLocations, TLC

CONSTANTS a, b  \* cells

\* A cell; the battery in one form, or in both in one order or the other; and
\* what somebody desires, which has no report.
MCContent ==
    {[roam |-> a, bat |-> FALSE, fg |-> FALSE, later |-> "fg"],
     [roam |-> b, bat |-> TRUE, fg |-> FALSE, later |-> "bat"],
     [roam |-> NoCell, bat |-> TRUE, fg |-> TRUE, later |-> "fg"],
     [roam |-> NoCell, bat |-> TRUE, fg |-> TRUE, later |-> "bat"],
     [roam |-> NoCell, bat |-> FALSE, fg |-> FALSE, later |-> "fg"]}

\* The comment at onCellGeoLocationResolved.ts:73 has "nrfcloud" as a source.
MCSourceOf == (a :> "SCELL" @@ b :> "nrfcloud")

MCNetworkOf == (a :> "LTE-M" @@ b :> "NB-IoT")

=============================================================================
