--------------------------- MODULE SessionLeases ---------------------------
(***************************************************************************)
(* What the SSH session registry promises the code that asks it for a      *)
(* session: a key has at most one current generation, a client uses a      *)
(* generation it checked out while that generation was current (or was     *)
(* given by another user of it), and a generation nobody withdrew is shut  *)
(* only when nobody uses it.  How uses are counted, how creation is shared *)
(* and how the reaper finds idle generations is left to the registry.      *)
(***************************************************************************)
CONSTANTS Client, Key, Generation, NoGeneration

VARIABLES
    current,  \* the generation a key stands for, or NoGeneration
    uses,     \* the generation a client uses, or NoGeneration
    shut,     \* generations disconnected by the registry
    open      \* whether the registry still admits clients

leasesVars == <<current, uses, shut, open>>

LeasesTypeOK ==
    /\ current \in [Key -> Generation \cup {NoGeneration}]
    /\ uses \in [Client -> Generation \cup {NoGeneration}]
    /\ shut \subseteq Generation
    /\ open \in BOOLEAN

LeasesInit ==
    /\ current = [k \in Key |-> NoGeneration]
    /\ uses = [c \in Client |-> NoGeneration]
    /\ shut = {}
    /\ open = TRUE

InUse(g) == \E c \in Client : uses[c] = g

\* A generation that is neither shut, nor current, nor used becomes current.
Establish(k, g) ==
    /\ open
    /\ current[k] = NoGeneration
    /\ g \notin shut
    /\ ~InUse(g)
    /\ \A other \in Key : current[other] # g
    /\ current' = [current EXCEPT ![k] = g]
    /\ UNCHANGED <<uses, shut, open>>

Use(c, k) ==
    /\ open
    /\ uses[c] = NoGeneration
    /\ current[k] # NoGeneration
    /\ uses' = [uses EXCEPT ![c] = current[k]]
    /\ UNCHANGED <<current, shut, open>>

\* A user hands its generation on, even after it was withdrawn.
Share(c, d) ==
    /\ uses[c] # NoGeneration
    /\ uses[d] = NoGeneration
    /\ uses' = [uses EXCEPT ![d] = uses[c]]
    /\ UNCHANGED <<current, shut, open>>

EndUse(c) ==
    /\ uses[c] # NoGeneration
    /\ uses' = [uses EXCEPT ![c] = NoGeneration]
    /\ UNCHANGED <<current, shut, open>>

\* Withdrawing a generation leaves it to those who use it.
Withdraw(k) ==
    /\ current[k] # NoGeneration
    /\ current' = [current EXCEPT ![k] = NoGeneration]
    /\ UNCHANGED <<uses, shut, open>>

\* An unused generation is disconnected.
Expire(k) ==
    /\ current[k] # NoGeneration
    /\ ~InUse(current[k])
    /\ shut' = shut \cup {current[k]}
    /\ current' = [current EXCEPT ![k] = NoGeneration]
    /\ UNCHANGED <<uses, open>>

\* Closing shuts whatever is current, used or not, and admits nobody after.
CloseDown ==
    /\ open
    /\ open' = FALSE
    /\ shut' = shut \cup ({current[k] : k \in Key} \ {NoGeneration})
    /\ current' = [k \in Key |-> NoGeneration]
    /\ UNCHANGED uses

LeasesNext ==
    \/ \E k \in Key :
        \/ \E g \in Generation : Establish(k, g)
        \/ \E c \in Client : Use(c, k)
        \/ Withdraw(k)
        \/ Expire(k)
    \/ \E c \in Client : EndUse(c) \/ \E d \in Client : Share(c, d)
    \/ CloseDown

LeasesSpec == LeasesInit /\ [][LeasesNext]_leasesVars
=============================================================================
