----------------------------- MODULE ContextLeases -----------------------------
(***************************************************************************)
(* What TrtContextPool promises to its callers, with no mutex, no queue of *)
(* contexts and no condition variable: contexts are leased.  A context is  *)
(* pooled, leased to one client, or freed for good; a client has at most   *)
(* one lease; once closed, the manager leases nothing and frees what comes *)
(* back.                                                                   *)
(***************************************************************************)
CONSTANTS Clients,   \* who leases
          Contexts   \* what is leased

VARIABLES open,     \* leases are given
          pooled,   \* the contexts to be leased
          lent,     \* per client, its lease as a set
          freed     \* the contexts that are gone

vars == <<open, pooled, lent, freed>>

Leased == UNION {lent[c] : c \in Clients}

Init ==
  /\ open = TRUE
  /\ pooled = {} /\ freed = {}
  /\ lent = [c \in Clients |-> {}]

\* A context enters when it is new.
Create ==
  /\ \E x \in Contexts \ (pooled \cup Leased \cup freed) : pooled' = pooled \cup {x}
  /\ UNCHANGED <<open, lent, freed>>

\* Which pooled context a client gets is not promised.
Lease(c) ==
  /\ open /\ lent[c] = {}
  /\ \E x \in pooled : /\ pooled' = pooled \ {x}
                       /\ lent' = [lent EXCEPT ![c] = {x}]
  /\ UNCHANGED <<open, freed>>

Return(c) ==
  /\ lent[c] # {}
  /\ lent' = [lent EXCEPT ![c] = {}]
  /\ \/ open /\ pooled' = pooled \cup lent[c] /\ UNCHANGED freed
     \/ ~open /\ freed' = freed \cup lent[c] /\ UNCHANGED pooled
  /\ UNCHANGED open

Close ==
  /\ open /\ open' = FALSE
  /\ freed' = freed \cup pooled
  /\ pooled' = {}
  /\ UNCHANGED lent

Next ==
  \/ Create
  \/ \E c \in Clients : Lease(c) \/ Return(c)
  \/ Close

SafeSpec == Init /\ [][Next]_vars
================================================================================
