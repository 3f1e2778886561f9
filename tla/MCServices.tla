----------------------------- MODULE MCServices -----------------------------
(***************************************************************************)
(* A small instance each of the WebDAV store, the git store and the        *)
(* supervised commands of a terminal.  They share no state, so a behaviour *)
(* of this instance is one of one of them, "focus", with the others at     *)
(* rest.                                                                   *)
(***************************************************************************)
EXTENDS TLC, WebDavStore, GitStore, TerminalExec

VARIABLE focus

servicesVars == <<focus, davVars, gitVars, execVars>>

ServicesInit ==
    /\ focus \in {"webdav", "git", "exec"}
    /\ DavInit /\ GitInit /\ ExecInit
    /\ focus # "exec" => ~buffered

ServicesNext ==
    /\ UNCHANGED focus
    /\ \/ focus = "webdav" /\ DavNext /\ UNCHANGED <<gitVars, execVars>>
       \/ focus = "git" /\ GitNext /\ UNCHANGED <<davVars, execVars>>
       \/ focus = "exec" /\ ExecNext /\ UNCHANGED <<davVars, gitVars>>

ServicesSpec == ServicesInit /\ [][ServicesNext]_servicesVars

\* No action tells one request of an agent from another.
RequestsAlike == Permutations(Exec)

\* The values the services' variables may have.
ServicesTypeOK == DavTypeOK /\ GitTypeOK /\ ExecTypeOK
=============================================================================
