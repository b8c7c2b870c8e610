------------------------------ MODULE MCIpcExt ------------------------------
(***************************************************************************)
(* The parts of libnx-ipcext in one finite instance: the content helpers   *)
(* of ncm, the client of ams:su and the commands of ns and acc.  They      *)
(* share no state, and no property here speaks of two of them, so that the *)
(* behaviors in which one of them runs and the others rest stand for their *)
(* interleavings; part is the one that runs.                               *)
(***************************************************************************)
EXTENDS NcmExt, AmsSu, NsExt

VARIABLE part

IpcInit ==
    /\ part \in {"ncm", "amssu", "ns"}
    /\ Init /\ AmsSuInit /\ NsInit
    /\ part # "ns" => \A v \in Versions : version <= v

IpcNext ==
    /\ part' = part
    /\ \/ part = "ncm" /\ Next /\ UNCHANGED <<amssuVars, nsVars>>
       \/ part = "amssu" /\ AmsSuNext /\ UNCHANGED <<vars, nsVars>>
       \/ part = "ns" /\ NsNext /\ UNCHANGED <<vars, amssuVars>>

IpcSpec ==
    /\ IpcInit /\ [][IpcNext]_<<part, vars, amssuVars, nsVars>>
    /\ WF_vars(Step)
=============================================================================
