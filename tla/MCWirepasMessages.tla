------------------------- MODULE MCWirepasMessages -------------------------
(* Instances of WirepasMessages for TLC: every type of message; a          *)
(* WirepasMessage is never sent but in a GenericMessage.                   *)
EXTENDS WirepasMessages

MCType == DOMAIN Fields \ {"WirepasMessage"}

=============================================================================
