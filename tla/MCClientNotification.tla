------------------------ MODULE MCClientNotification ------------------------
(***************************************************************************)
(* Small instances of ClientNotification: connections and containers are   *)
(* interchangeable in the safety runs.                                     *)
(***************************************************************************)
EXTENDS ClientNotification, TLC

ConnSymmetry == Permutations(Conn)
ContainerSymmetry == Permutations(Container)
=============================================================================
