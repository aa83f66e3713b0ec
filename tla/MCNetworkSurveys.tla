-------------------------- MODULE MCNetworkSurveys --------------------------
(* Instances of NetworkSurveys for TLC: the surveys of one device.         *)
EXTENDS NetworkSurveys

MCDeviceOf == [s \in Survey |-> CHOOSE d \in Device : TRUE]

=============================================================================
