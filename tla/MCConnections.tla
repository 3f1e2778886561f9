--------------------------- MODULE MCConnections ---------------------------
(***************************************************************************)
(* A small instance each of the SSH session registry, of the SFTP          *)
(* transfers and of a terminal's ingress queue.  They share no state, so a *)
(* behaviour of this instance is one of one of them, "focus", with the     *)
(* others at rest.                                                         *)
(***************************************************************************)
EXTENDS SshSessionRegistry, SftpTransfers, TerminalIngress

CONSTANTS t1, t2, t3, sftp

MCTransfer == {t1, t2, t3}
MCConnection == {sftp}
MCConnectionOf == [t \in MCTransfer |-> sftp]
MCUpload == {t1}

VARIABLE focus

connectionsVars == <<focus, registryVars, sftpVars, ingressVars>>

ConnectionsInit ==
    /\ focus \in {"registry", "sftp", "ingress"}
    /\ RegistryInit /\ SftpInit /\ IngressInit
    /\ focus # "ingress" => size = [c \in Chunk |-> 1]

ConnectionsNext ==
    /\ UNCHANGED focus
    /\ \/ focus = "registry" /\ RegistryNext /\ UNCHANGED <<sftpVars, ingressVars>>
       \/ focus = "sftp" /\ SftpNext /\ UNCHANGED <<registryVars, ingressVars>>
       \/ focus = "ingress" /\ IngressNext /\ UNCHANGED <<registryVars, sftpVars>>

\* At rest a service enables none of the steps its fairness speaks of.
ConnectionsSpec ==
    /\ ConnectionsInit /\ [][ConnectionsNext]_connectionsVars
    /\ RegistryFairness /\ SftpFairness /\ IngressFairness

\* The values the services' variables may have.
ConnectionsTypeOK == RegistryTypeOK /\ SftpTypeOK /\ IngressTypeOK
=============================================================================
