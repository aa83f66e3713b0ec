---------------------------- MODULE MCNRPlusSink ----------------------------
EXTENDS NRPlusSink

\* The lines of the messages that matter: a PCC's status comes before its
\* transmitter, a PDC's transmitter before its payload.
MCLayout ==
    [PCC |-> [length |-> 2, node |-> 2, value |-> 1],
     PDC |-> [length |-> 2, node |-> 1, value |-> 2],
     log |-> [length |-> 1, node |-> 1, value |-> 1]]

PCC(n) == [kind |-> "PCC", node |-> n, section |-> "pccStatus"]
PDC(n, s) == [kind |-> "PDC", node |-> n, section |-> s]
Log(n) == [kind |-> "log", node |-> n, section |-> "none"]

\* A line the parser does not know, then messages of two nodes; a PCC comes
\* before each PDC (the first one's was before).
MCScript ==
    "g1" :> <<Log("a"), PDC("a", "btn"), PCC("b"), PDC("b", "none"), PCC("a"),
              PDC("a", "btn")>>

MCDefinitions == <<"PCC", "PDC">>
=============================================================================
