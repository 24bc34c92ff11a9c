------------------------ MODULE MCInterfaceRecovery ------------------------
(***************************************************************************)
(* Two configured interfaces, the first of which counts by its socket;     *)
(* and two of one type, neither of which does, with a third of no type.    *)
(***************************************************************************)
EXTENDS InterfaceRecovery

CONSTANTS tcp, auto, typo, t1, t2, r1, r2

MCLabelOf == <<tcp, auto>>
MCSameLabel == <<tcp, tcp, typo>>
=============================================================================
