--------------------------- MODULE ConnectionLease ---------------------------
(***************************************************************************)
(* What the PostgreSQL connection pool promises its users, with no pool in *)
(* sight: an open connection is leased to at most one shared_ptr owner at  *)
(* a time, it stays open for as long as it is leased, and it comes back    *)
(* only from the owner that had it.                                        *)
(***************************************************************************)
CONSTANTS Thread,  \* threads that call the pool
          Conn     \* connection objects

VARIABLES lease,   \* lease[t]: the connections thread t owns a shared_ptr to
          open     \* the connections that exist

leaseVars == <<lease, open>>

LeaseInit == /\ lease = [t \in Thread |-> {}]
             /\ open = {}

Leased == UNION {lease[t] : t \in Thread}

\* Idle connections may be opened and closed at any time; those of S may not.
KeepsOpen(S) == S \subseteq open' /\ open' \subseteq Conn

Lend(t, c) == /\ c \notin Leased
              /\ lease' = [lease EXCEPT ![t] = @ \cup {c}]
              /\ KeepsOpen(Leased \cup {c})

GiveBack(t, c) == /\ c \in lease[t]
                  /\ lease' = [lease EXCEPT ![t] = @ \ {c}]
                  /\ KeepsOpen(Leased \ {c})

Resize == lease' = lease /\ KeepsOpen(Leased)

LeaseNext == \/ \E t \in Thread, c \in Conn : Lend(t, c) \/ GiveBack(t, c)
             \/ Resize

LeaseSpec == LeaseInit /\ [][LeaseNext]_leaseVars
==============================================================================
