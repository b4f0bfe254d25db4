--------------------------- MODULE ConnectionProofs ---------------------------
(***************************************************************************)
(* Proofs about ConnectionPool and ConnectionUse for any finite sets of    *)
(* threads and connections and any limits.  The pool: the inductive        *)
(* invariant PoolInv, the safety properties it implies, and the refinement *)
(* of ConnectionLease.  The data layer only takes steps of the pool, so    *)
(* what holds of the pool holds under it; and when no operation is called  *)
(* with a null pointer, connections are used by one thread at a time,      *)
(* exist while they are used and come back with no open transaction.       *)
(***************************************************************************)
EXTENDS ConnectionUse, FiniteSetTheorems, TLAPS

\* Before init has opened a connection there is nothing to wait for.
NothingBeforeInit ==
    ~initialized => /\ Open = {}
                    /\ \A t \in Thread : ~Waiting(t)

\* The inductive invariant.  LimitRespected alone is not inductive: it needs the
\* counter to be exact and the queue to be disjoint from the lent connections.
PoolInv ==
    /\ TypeOK
    /\ Accounting
    /\ Ownership
    /\ maxConnections <= MaxLimit
    /\ LimitRespected
    /\ NothingBeforeInit
    /\ NoLostWakeup

USE PoolAssumption

-------------------------------------------------------------------------------
\* The sets whose sizes matter are finite, in this state.
LEMMA FiniteSets ==
    ASSUME TypeOK
    PROVE  /\ IsFiniteSet(availableConnections) /\ IsFiniteSet(managedConnections)
           /\ IsFiniteSet(Open) /\ IsFiniteSet(Asleep) /\ IsFiniteSet(Notified)
           /\ Cardinality(availableConnections) \in Nat
           /\ Cardinality(managedConnections) \in Nat
           /\ Cardinality(Notified) \in Nat
<1>1. /\ availableConnections \in SUBSET Conn /\ managedConnections \in SUBSET Conn
      /\ Open \in SUBSET Conn
  BY DEF TypeOK, Open
<1>2. Asleep \in SUBSET Thread /\ Notified \in SUBSET Thread
  BY DEF Asleep, Notified
<1>3. /\ IsFiniteSet(availableConnections) /\ IsFiniteSet(managedConnections)
      /\ IsFiniteSet(Open)
  BY <1>1, FS_Subset
<1>4. IsFiniteSet(Asleep) /\ IsFiniteSet(Notified)
  BY <1>2, FS_Subset
<1>. QED
  BY <1>3, <1>4, FS_CardinalityType

\* The open connections are the idle ones and the counted ones.
LEMMA OpenCount ==
    ASSUME TypeOK, Accounting, Ownership
    PROVE  Cardinality(Open) = Cardinality(availableConnections) + activeConnections
<1>1. Cardinality(availableConnections \cap managedConnections) = 0
  BY FS_EmptySet DEF Ownership
<1>2. /\ IsFiniteSet(availableConnections) /\ IsFiniteSet(managedConnections)
      /\ Cardinality(availableConnections) \in Nat
      /\ Cardinality(managedConnections) \in Nat
  BY FiniteSets
<1>3. Cardinality(availableConnections \cup managedConnections) =
        Cardinality(availableConnections) + Cardinality(managedConnections)
        - Cardinality(availableConnections \cap managedConnections)
  BY <1>2, FS_Union
<1>. QED
  BY <1>1, <1>2, <1>3 DEF Open, Accounting

-------------------------------------------------------------------------------
\* A step that moves no connection preserves the invariant, if it leaves the
\* waiting threads alone or the queue is empty.
LEMMA QuietStep ==
    ASSUME PoolInv, TypeOK', NothingBeforeInit', maxConnections' <= MaxLimit,
           UNCHANGED <<availableConnections, managedConnections, activeConnections, held>>,
           \/ availableConnections = {}
           \/ Asleep' = Asleep /\ Notified' = Notified
    PROVE  PoolInv'
<1>1. Accounting' /\ Ownership' /\ LimitRespected'
  BY DEF PoolInv, Accounting, Ownership, LimitRespected, Open
<1>2. NoLostWakeup'
  <2>1. CASE availableConnections = {}
    <3>1. Cardinality(availableConnections') = 0
      BY <2>1, FS_EmptySet
    <3>2. IsFiniteSet(Notified')
      <4>1. Notified' \in SUBSET Thread
        BY DEF Notified
      <4>. QED BY <4>1, FS_Subset
    <3>3. Cardinality(Notified') \in Nat
      BY <3>2, FS_CardinalityType
    <3>. QED BY <3>1, <3>3 DEF NoLostWakeup
  <2>2. CASE Asleep' = Asleep /\ Notified' = Notified
    BY <2>2 DEF PoolInv, NoLostWakeup
  <2>. QED BY <2>1, <2>2
<1>. QED BY <1>1, <1>2 DEF PoolInv

\* What Returns(t, c) does to the places, the waiting sets and the owners.
LEMMA ReturnsEffect ==
    ASSUME TypeOK, NEW t \in Thread, NEW c \in Conn, Returns(t, c)
    PROVE  /\ pc' \in [Thread -> Places] /\ mode' \in [Thread -> Modes]
           /\ held' \in [Thread -> SUBSET Conn] /\ probe' \in [Thread -> SUBSET Conn]
           /\ Asleep' = Asleep \ {t} /\ Notified' = Notified \ {t}
           /\ \A u \in Thread : Waiting(u)' => Waiting(u)
<1>1. PICK p \in {"idle", "probing", "dropping"} : pc' = [pc EXCEPT ![t] = p]
  BY DEF TypeOK, Returns, Modes, Continuation
<1>2. pc' \in [Thread -> Places]
  BY <1>1 DEF TypeOK, Places
<1>3. mode' \in [Thread -> Modes]
  BY DEF TypeOK, Returns, Modes
<1>4. held' \in [Thread -> SUBSET Conn] /\ probe' \in [Thread -> SUBSET Conn]
  BY DEF TypeOK, Returns
<1>5. Asleep' = Asleep \ {t} /\ Notified' = Notified \ {t}
  BY <1>1 DEF TypeOK, Asleep, Notified
<1>6. \A u \in Thread : Waiting(u)' => Waiting(u)
  BY <1>1 DEF TypeOK, Waiting
<1>. QED BY <1>2, <1>3, <1>4, <1>5, <1>6

\* Lending c, which nobody owns, keeps counter, owners and queue consistent.
LEMMA LendConsistent ==
    ASSUME PoolInv, NEW t \in Thread, NEW c \in Conn, Returns(t, c),
           c \notin managedConnections,
           availableConnections' = availableConnections \ {c}
    PROVE  /\ Accounting' /\ Ownership' /\ activeConnections' \in Nat
           /\ Open' = Open \cup {c}
<1>1. IsFiniteSet(managedConnections) /\ Cardinality(managedConnections) \in Nat
  BY FiniteSets DEF PoolInv
<1>2. Cardinality(managedConnections \cup {c}) = Cardinality(managedConnections) + 1
  BY <1>1, FS_AddElement
<1>3. Accounting' /\ activeConnections' \in Nat
  BY <1>1, <1>2 DEF PoolInv, Accounting, Returns
<1>4. Open' = Open \cup {c}
  BY DEF Open, Returns
<1>5. /\ managedConnections' = managedConnections \cup {c}
      /\ held' = [held EXCEPT ![t] = held[t] \cup {c}]
      /\ held \in [Thread -> SUBSET Conn]
  BY DEF Returns, PoolInv, TypeOK
<1>6. \A u \in Thread : c \notin held[u]
  BY DEF PoolInv, Ownership
<1>7. managedConnections' = UNION {held'[u] : u \in Thread}
  <2>1. ASSUME NEW x PROVE x \in managedConnections' <=> \E u \in Thread : x \in held'[u]
    <3>1. x \in managedConnections <=> \E u \in Thread : x \in held[u]
      BY DEF PoolInv, Ownership
    <3>2. \A u \in Thread : held'[u] = IF u = t THEN held[u] \cup {c} ELSE held[u]
      BY <1>5
    <3>. QED BY <1>5, <3>1, <3>2
  <2>. QED BY <2>1
<1>8. \A u, v \in Thread : u # v => held'[u] \cap held'[v] = {}
  BY <1>5, <1>6 DEF PoolInv, Ownership
<1>9. availableConnections' \cap managedConnections' = {}
  BY <1>5 DEF PoolInv, Ownership
<1>. QED BY <1>3, <1>4, <1>7, <1>8, <1>9 DEF Ownership

\* A connection taken from the queue preserves the invariant.
LEMMA TakeStep ==
    ASSUME PoolInv, NEW t \in Thread, NEW c \in Conn, Returns(t, c),
           c \in availableConnections,
           availableConnections' = availableConnections \ {c},
           UNCHANGED initialized
    PROVE  PoolInv'
<1>1. c \notin managedConnections
  BY DEF PoolInv, Ownership
<1>2. /\ Accounting' /\ Ownership' /\ activeConnections' \in Nat
      /\ Open' = Open \cup {c}
  BY <1>1, LendConsistent
<1>3. TypeOK'
  BY <1>2, ReturnsEffect DEF PoolInv, TypeOK, Returns, shutdownVars
<1>4. LimitRespected' /\ maxConnections' <= MaxLimit
  <2>1. Open' = Open
    BY <1>2 DEF Open
  <2>. QED BY <2>1 DEF PoolInv, LimitRespected, Returns
<1>5. NothingBeforeInit'
  BY DEF PoolInv, NothingBeforeInit, Open
<1>6. NoLostWakeup'
  <2>1. /\ IsFiniteSet(availableConnections) /\ IsFiniteSet(Notified)
        /\ Cardinality(availableConnections) \in Nat /\ Cardinality(Notified) \in Nat
    BY FiniteSets DEF PoolInv
  <2>2. Cardinality(availableConnections') = Cardinality(availableConnections) - 1
    BY <2>1, FS_RemoveElement
  <2>3. Asleep' = Asleep \ {t} /\ Notified' = Notified \ {t}
    BY ReturnsEffect DEF PoolInv
  <2>4. /\ Cardinality(Notified') \in Nat
        /\ Cardinality(Notified') >= Cardinality(Notified) - 1
    <3>1. /\ IsFiniteSet(Notified \ {t})
          /\ Cardinality(Notified \ {t}) =
               IF t \in Notified THEN Cardinality(Notified) - 1 ELSE Cardinality(Notified)
      BY <2>1, FS_RemoveElement
    <3>2. Cardinality(Notified \ {t}) \in Nat
      BY <3>1, FS_CardinalityType
    <3>. QED BY <2>1, <2>3, <3>1, <3>2
  <2>. QED BY <2>1, <2>2, <2>3, <2>4 DEF PoolInv, NoLostWakeup
<1>. QED BY <1>2, <1>3, <1>4, <1>5, <1>6 DEF PoolInv

\* A connection opened for a caller below the limit preserves the invariant.
LEMMA CreateStep ==
    ASSUME PoolInv, NEW t \in Thread, NEW c \in Conn, GetCreates(t, c)
    PROVE  PoolInv'
<1>1. /\ c \notin managedConnections /\ Returns(t, c)
      /\ availableConnections = {} /\ availableConnections' = {}
      /\ activeConnections < maxConnections
      /\ initialized /\ UNCHANGED initialized
  BY DEF GetCreates, Admitted, Open
<1>2. /\ Accounting' /\ Ownership' /\ activeConnections' \in Nat
      /\ Open' = Open \cup {c}
  <2>1. availableConnections' = availableConnections \ {c}
    BY <1>1
  <2>. QED BY <1>1, <2>1, LendConsistent
<1>3. TypeOK'
  BY <1>1, <1>2, ReturnsEffect DEF PoolInv, TypeOK, Returns, shutdownVars
<1>4. maxConnections' <= MaxLimit
  BY <1>1 DEF PoolInv, Returns
<1>5. LimitRespected'
  <2>2. Cardinality(Open') = activeConnections'
    <3>1. Open' = managedConnections'
      BY <1>1 DEF Open
    <3>. QED BY <1>2, <3>1 DEF Accounting
  <2>. QED BY <1>1, <2>2 DEF PoolInv, TypeOK, LimitRespected, Returns
<1>6. NothingBeforeInit'
  BY <1>1 DEF NothingBeforeInit
<1>7. NoLostWakeup'
  <2>1. Notified' \in SUBSET Thread
    BY DEF Notified
  <2>2. Cardinality(Notified') \in Nat
    BY <2>1, FS_Subset, FS_CardinalityType
  <2>3. Cardinality(availableConnections') = 0
    BY <1>1, FS_EmptySet
  <2>. QED BY <2>2, <2>3 DEF NoLostWakeup
<1>. QED BY <1>2, <1>3, <1>4, <1>5, <1>6, <1>7 DEF PoolInv

-------------------------------------------------------------------------------
\* What leaving through notify_one does to the places and the waiting sets.
LEMMA NotifyEffect ==
    ASSUME TypeOK, NEW t \in Thread, pc[t] \in {"idle", "dropping"}, NotifyOne(t, "idle")
    PROVE  /\ pc' \in [Thread -> Places]
           /\ \A u \in Thread : Waiting(u)' => Waiting(u)
           /\ \/ Asleep = {} /\ Asleep' = {} /\ Notified' = Notified
              \/ \E w \in Asleep : /\ w \notin Notified
                                   /\ Asleep' = Asleep \ {w}
                                   /\ Notified' = Notified \cup {w}
<1>1. CASE Asleep = {}
  <2>1. pc' = [pc EXCEPT ![t] = "idle"]
    BY <1>1 DEF NotifyOne
  <2>2. Asleep' = {} /\ Notified' = Notified
    BY <1>1, <2>1 DEF TypeOK, Asleep, Notified
  <2>. QED BY <1>1, <2>1, <2>2 DEF TypeOK, Places, Waiting
<1>2. CASE Asleep # {}
  <2>1. PICK w \in Asleep : pc' = [pc EXCEPT ![t] = "idle", ![w] = "notified"]
    BY <1>2 DEF NotifyOne
  <2>2. w \in Thread /\ pc[w] = "asleep" /\ w # t /\ w \notin Notified
    BY <2>1 DEF Asleep, Notified
  <2>3. \A u \in Thread : pc'[u] = IF u = w THEN "notified"
                                   ELSE IF u = t THEN "idle" ELSE pc[u]
    BY <2>1, <2>2 DEF TypeOK
  <2>4. Asleep' = Asleep \ {w} /\ Notified' = Notified \cup {w}
    BY <2>2, <2>3 DEF Asleep, Notified
  <2>5. pc' \in [Thread -> Places]
    BY <2>1, <2>2 DEF TypeOK, Places
  <2>6. \A u \in Thread : Waiting(u)' => Waiting(u)
    BY <2>2, <2>3 DEF Waiting
  <2>. QED BY <2>2, <2>4, <2>5, <2>6
<1>. QED BY <1>1, <1>2

\* Every outcome of returnConnection adds at most one new connection to the queue.
LEMMA GoesBackEffect ==
    ASSUME PoolInv, NEW c \in managedConnections, GoesBack(c)
    PROVE  \/ availableConnections' = availableConnections
           \/ \E n \in Conn : /\ n \notin availableConnections
                              /\ n \notin managedConnections \ {c}
                              /\ availableConnections' = availableConnections \cup {n}
<1>1. c \in Conn /\ c \notin availableConnections
  BY DEF PoolInv, TypeOK, Ownership
<1>. QED BY <1>1 DEF GoesBack, Open

\* Taking c back keeps counter, owners and queue consistent.
LEMMA ReturnConsistent ==
    ASSUME PoolInv, NEW t \in Thread, NEW c \in Conn, ReturnConnection(t, c)
    PROVE  Accounting' /\ Ownership' /\ activeConnections' \in Nat
<1>1. /\ c \in managedConnections
      /\ managedConnections' = managedConnections \ {c}
      /\ activeConnections' = activeConnections - 1
      /\ held' = [held EXCEPT ![t] = held[t] \ {c}]
      /\ held \in [Thread -> SUBSET Conn]
      /\ c \in held[t]
  BY DEF ReturnConnection, PoolInv, TypeOK
<1>2. Accounting' /\ activeConnections' \in Nat
  <2>1. IsFiniteSet(managedConnections)
    BY FiniteSets DEF PoolInv
  <2>2. /\ IsFiniteSet(managedConnections \ {c})
        /\ Cardinality(managedConnections \ {c}) = Cardinality(managedConnections) - 1
    BY <1>1, <2>1, FS_RemoveElement
  <2>3. Cardinality(managedConnections \ {c}) \in Nat
    BY <2>2, FS_CardinalityType
  <2>. QED BY <1>1, <2>2, <2>3 DEF PoolInv, Accounting
<1>3. \A u, v \in Thread : u # v => held'[u] \cap held'[v] = {}
  BY <1>1 DEF PoolInv, Ownership
<1>4. managedConnections' = UNION {held'[u] : u \in Thread}
  <2>1. \A u \in Thread : u # t => c \notin held[u]
    BY <1>1 DEF PoolInv, Ownership
  <2>2. \A u \in Thread : held'[u] = held[u] \ {c}
    BY <1>1, <2>1
  <2>3. ASSUME NEW x PROVE x \in managedConnections' <=> \E u \in Thread : x \in held'[u]
    <3>1. x \in managedConnections <=> \E u \in Thread : x \in held[u]
      BY DEF PoolInv, Ownership
    <3>. QED BY <1>1, <2>2, <3>1
  <2>. QED BY <2>3
<1>5. availableConnections' \cap managedConnections' = {}
  <2>1. GoesBack(c)
    BY DEF ReturnConnection
  <2>. QED BY <1>1, <2>1, GoesBackEffect DEF PoolInv, Ownership
<1>. QED BY <1>2, <1>3, <1>4, <1>5 DEF Ownership

\* A returned connection preserves the invariant, kept, replaced or dropped.
LEMMA ReturnStep ==
    ASSUME PoolInv, NEW t \in Thread, NEW c \in Conn, ReturnConnection(t, c),
           pc[t] \in {"idle", "dropping"},
           probe' \in [Thread -> SUBSET Conn], mode' = mode
    PROVE  PoolInv'
<1>1. Accounting' /\ Ownership' /\ activeConnections' \in Nat
  BY ReturnConsistent
<1>2. /\ c \in managedConnections /\ GoesBack(c) /\ NotifyOne(t, "idle")
      /\ managedConnections' = managedConnections \ {c}
      /\ activeConnections' = activeConnections - 1
  BY DEF ReturnConnection
<1>3. availableConnections' \in SUBSET Conn
  BY <1>2, GoesBackEffect DEF PoolInv, TypeOK
<1>4. /\ pc' \in [Thread -> Places]
      /\ \A u \in Thread : Waiting(u)' => Waiting(u)
  BY <1>2, NotifyEffect DEF PoolInv
<1>5. held' \in [Thread -> SUBSET Conn] /\ dead' \in SUBSET Conn
  BY DEF PoolInv, TypeOK, ReturnConnection
<1>6. TypeOK'
  BY <1>1, <1>2, <1>3, <1>4, <1>5 DEF PoolInv, TypeOK, ReturnConnection
<1>7. maxConnections' <= MaxLimit
  BY DEF PoolInv, ReturnConnection
<1>8. /\ IsFiniteSet(availableConnections) /\ Cardinality(availableConnections) \in Nat
      /\ IsFiniteSet(Notified) /\ Cardinality(Notified) \in Nat
  BY FiniteSets DEF PoolInv
<1>9. /\ Cardinality(availableConnections') \in Nat
      /\ Cardinality(availableConnections') <= Cardinality(availableConnections) + 1
      /\ IsFiniteSet(availableConnections')
  <2>1. CASE availableConnections' = availableConnections
    BY <1>8, <2>1
  <2>2. ASSUME NEW n \in Conn, n \notin availableConnections,
               availableConnections' = availableConnections \cup {n}
        PROVE  /\ Cardinality(availableConnections') \in Nat
               /\ Cardinality(availableConnections') <= Cardinality(availableConnections) + 1
               /\ IsFiniteSet(availableConnections')
    <3>1. /\ IsFiniteSet(availableConnections \cup {n})
          /\ Cardinality(availableConnections \cup {n}) = Cardinality(availableConnections) + 1
      BY <1>8, <2>2, FS_AddElement
    <3>. QED BY <1>8, <2>2, <3>1
  <2>. QED BY <1>2, <2>1, <2>2, GoesBackEffect
<1>10. LimitRespected'
  <2>1. Cardinality(availableConnections) + activeConnections <= MaxLimit
    BY OpenCount DEF PoolInv, LimitRespected
  <2>2. Cardinality(managedConnections') = activeConnections'
    BY <1>1 DEF Accounting
  <2>3. IsFiniteSet(managedConnections')
    BY <1>6, FS_Subset DEF TypeOK
  <2>4. Cardinality(availableConnections' \cap managedConnections') = 0
    BY <1>1, FS_EmptySet DEF Ownership
  <2>5. Cardinality(availableConnections' \cup managedConnections') =
          Cardinality(availableConnections') + Cardinality(managedConnections')
          - Cardinality(availableConnections' \cap managedConnections')
    BY <1>9, <2>3, FS_Union
  <2>. QED BY <1>1, <1>2, <1>8, <1>9, <2>1, <2>2, <2>4, <2>5 DEF LimitRespected, Open, PoolInv, TypeOK
<1>11. NothingBeforeInit'
  BY <1>2 DEF PoolInv, NothingBeforeInit, Open, ReturnConnection
<1>12. NoLostWakeup'
  <2>1. CASE Asleep' = {}
    BY <2>1 DEF NoLostWakeup
  <2>2. ASSUME NEW w \in Asleep, w \notin Notified, Notified' = Notified \cup {w}
        PROVE  NoLostWakeup'
    <3>1. Cardinality(Notified \cup {w}) = Cardinality(Notified) + 1
      BY <1>8, <2>2, FS_AddElement
    <3>. QED BY <1>8, <1>9, <2>2, <3>1 DEF PoolInv, NoLostWakeup
  <2>. QED BY <1>2, <2>1, <2>2, NotifyEffect DEF PoolInv
<1>. QED BY <1>1, <1>6, <1>7, <1>10, <1>11, <1>12 DEF PoolInv

-------------------------------------------------------------------------------
\* A thread that leaves place p for place q without a connection.
LEMMA MoveStep ==
    ASSUME PoolInv, NEW t \in Thread, NEW q \in Places, pc' = [pc EXCEPT ![t] = q],
           UNCHANGED <<poolVars, held>>, TypeOK',
           Waiting(t) \/ q \in {"asleep", "notified"} => availableConnections = {},
           q \in {"asleep", "notified"} => initialized
    PROVE  PoolInv'
<1>1. NothingBeforeInit'
  BY DEF PoolInv, TypeOK, NothingBeforeInit, Waiting, Open, poolVars
<1>2. maxConnections' <= MaxLimit
  BY DEF PoolInv, poolVars
<1>3. availableConnections = {} \/ (Asleep' = Asleep /\ Notified' = Notified)
  BY DEF PoolInv, TypeOK, Waiting, Asleep, Notified
<1>. QED BY <1>1, <1>2, <1>3, QuietStep DEF poolVars

LEMMA ThreadStepInv ==
    ASSUME PoolInv, NEW t \in Thread, ThreadStep(t)
    PROVE  PoolInv'
<1>1. CASE Call(t)
  <2>1. TypeOK'
    BY <1>1 DEF PoolInv, TypeOK, Call, Places, Modes, poolVars, shutdownVars
  <2>. QED BY <1>1, <2>1, MoveStep DEF Call, Places, Waiting
<1>2. CASE GetRejected(t) \/ GetCreateFails(t) \/ TimesOut(t)
  <2>1. PICK q \in {"dropping", "idle"} : pc' = [pc EXCEPT ![t] = q]
    BY <1>2 DEF GetRejected, GetCreateFails, TimesOut, Throws
  <2>2. UNCHANGED <<poolVars, held>>
    BY <1>2 DEF GetRejected, GetCreateFails, TimesOut, Throws
  <2>3. TypeOK'
    BY <1>2 DEF PoolInv, TypeOK, GetRejected, GetCreateFails, TimesOut, Throws,
                Places, Modes, poolVars, shutdownVars
  <2>4. Waiting(t) => availableConnections = {}
    BY <1>2 DEF GetRejected, GetCreateFails, TimesOut, Admitted, Waiting
  <2>. QED BY <2>1, <2>2, <2>3, <2>4, MoveStep DEF Places
<1>3. CASE GetSleeps(t)
  <2>1. TypeOK'
    BY <1>3 DEF PoolInv, TypeOK, GetSleeps, Places, poolVars, shutdownVars
  <2>. QED BY <1>3, <2>1, MoveStep DEF GetSleeps, Admitted, Places
<1>4. CASE WakeSleeps(t)
  <2>1. TypeOK'
    BY <1>4 DEF PoolInv, TypeOK, WakeSleeps, Places, poolVars, shutdownVars
  <2>2. initialized
    BY <1>4 DEF PoolInv, TypeOK, NothingBeforeInit, WakeSleeps, Waiting
  <2>. QED BY <1>4, <2>1, <2>2, MoveStep DEF WakeSleeps, Places
<1>5. ASSUME NEW c \in Conn, GetAvailable(t, c) \/ WakeTakes(t, c)
      PROVE  PoolInv'
  BY <1>5, TakeStep DEF GetAvailable, WakeTakes
<1>6. ASSUME NEW c \in Conn, GetCreates(t, c)
      PROVE  PoolInv'
  BY <1>6, CreateStep
<1>7. ASSUME NEW c \in Conn, pc[t] \in {"idle", "dropping"}, ReturnConnection(t, c),
             probe' \in [Thread -> SUBSET Conn], mode' = mode
      PROVE  PoolInv'
  BY <1>7, ReturnStep
<1>8. ASSUME NEW c \in Conn, ReplacementFails(c)
      PROVE  PoolInv'
  <2>1. TypeOK'
    BY <1>8 DEF PoolInv, TypeOK, ReplacementFails, poolVars, threadVars, shutdownVars
  <2>2. NothingBeforeInit' /\ maxConnections' <= MaxLimit
    BY <1>8 DEF PoolInv, NothingBeforeInit, Open, Waiting, ReplacementFails, poolVars, threadVars
  <2>3. Asleep' = Asleep /\ Notified' = Notified
    BY <1>8 DEF Asleep, Notified, ReplacementFails, threadVars
  <2>. QED BY <1>8, <2>1, <2>2, <2>3, QuietStep DEF ReplacementFails, poolVars, threadVars
<1>9. ASSUME NEW c \in Conn, Release(t, c)
      PROVE  PoolInv'
  <2>1. CASE ReturnConnection(t, c) /\ UNCHANGED <<mode, probe>>
    BY <1>9, <1>7, <2>1 DEF Release, PoolInv, TypeOK
  <2>. QED BY <1>9, <2>1, <1>8 DEF Release
<1>10. CASE Drop(t)
  <2>1. PICK c \in probe[t] :
             \/ ReturnConnection(t, c) /\ probe' = [probe EXCEPT ![t] = {}] /\ UNCHANGED mode
             \/ ReplacementFails(c)
    BY <1>10 DEF Drop
  <2>2. c \in Conn
    BY <2>1 DEF PoolInv, TypeOK
  <2>3. CASE ReturnConnection(t, c) /\ probe' = [probe EXCEPT ![t] = {}] /\ UNCHANGED mode
    <3>1. probe' \in [Thread -> SUBSET Conn]
      BY <2>3 DEF PoolInv, TypeOK
    <3>. QED BY <1>10, <1>7, <2>2, <2>3, <3>1 DEF Drop
  <2>. QED BY <2>1, <2>2, <2>3, <1>8
<1>11. CASE ProbeAlive(t) \/ ProbeDead(t)
  <2>1. PICK q \in {"idle", "calling"} : pc' = [pc EXCEPT ![t] = q]
    BY <1>11 DEF ProbeAlive, ProbeDead
  <2>2. TypeOK'
    BY <1>11 DEF PoolInv, TypeOK, ProbeAlive, ProbeDead, Places, Modes, poolVars, shutdownVars
  <2>3. UNCHANGED <<poolVars, held>> /\ ~Waiting(t)
    BY <1>11 DEF ProbeAlive, ProbeDead, Waiting
  <2>. QED BY <2>1, <2>2, <2>3, MoveStep DEF Places
<1>12. CASE Shutdown(t) \/ Launch(t) \/ ShutdownReturns(t)
  <2>1. PICK q \in {"awaiting", "launching", "idle"} : pc' = [pc EXCEPT ![t] = q]
    BY <1>12 DEF Shutdown, Launch, ShutdownReturns
  <2>2. TypeOK'
    BY <1>12 DEF PoolInv, TypeOK, Shutdown, Launch, ShutdownReturns, Places, Phases, poolVars,
                 shutdownVars
  <2>3. UNCHANGED <<poolVars, held>> /\ ~Waiting(t)
    BY <1>12 DEF Shutdown, Launch, ShutdownReturns, Waiting
  <2>. QED BY <2>1, <2>2, <2>3, MoveStep DEF Places
<1>. QED
  BY <1>1, <1>2, <1>3, <1>4, <1>5, <1>6, <1>9, <1>10, <1>11, <1>12
  DEF ThreadStep, Get, Leave

LEMMA NextInv ==
    ASSUME PoolInv, [Next]_vars
    PROVE  PoolInv'
<1>1. CASE InitPool
  <2>1. PICK S \in SUBSET Conn : Cardinality(S) <= PoolSize /\ availableConnections' = S
    BY <1>1 DEF InitPool
  <2>2. /\ availableConnections = {} /\ managedConnections = {} /\ managedConnections' = {}
        /\ \A t \in Thread : ~Waiting(t)
    BY <1>1 DEF InitPool, PoolInv, NothingBeforeInit, Open
  <2>3. TypeOK'
    BY <1>1, <2>1 DEF InitPool, PoolInv, TypeOK, threadVars, shutdownVars
  <2>4. Accounting' /\ maxConnections' <= MaxLimit
    BY <1>1, <2>2 DEF InitPool, PoolInv, Accounting
  <2>8. Ownership'
    <3>1. held' = held /\ managedConnections' = managedConnections
      BY <1>1 DEF InitPool, threadVars
    <3>. QED BY <2>2, <3>1 DEF PoolInv, Ownership
  <2>5. LimitRespected'
    <3>1. Open' = S
      BY <2>1, <2>2 DEF Open
    <3>2. Cardinality(S) \in Nat
      BY FS_Subset, FS_CardinalityType
    <3>. QED BY <2>1, <3>1, <3>2 DEF LimitRespected
  <2>6. NothingBeforeInit'
    BY <1>1 DEF InitPool, NothingBeforeInit
  <2>7. Asleep' = {}
    BY <1>1, <2>2 DEF InitPool, Asleep, Waiting, threadVars
  <2>. QED BY <2>3, <2>4, <2>5, <2>6, <2>7, <2>8 DEF PoolInv, NoLostWakeup
<1>2. ASSUME NEW c \in Conn, Die(c)
      PROVE  PoolInv'
  <2>1. TypeOK' /\ maxConnections' <= MaxLimit /\ NothingBeforeInit'
    BY <1>2 DEF PoolInv, TypeOK, NothingBeforeInit, Waiting, Die, Open, poolVars, threadVars,
                shutdownVars
  <2>2. Asleep' = Asleep /\ Notified' = Notified
    BY <1>2 DEF Die, Asleep, Notified, threadVars
  <2>. QED BY <1>2, <2>1, <2>2, QuietStep DEF Die, poolVars, threadVars
<1>3. CASE UNCHANGED vars
  <2>1. TypeOK' /\ maxConnections' <= MaxLimit /\ NothingBeforeInit'
    BY <1>3 DEF PoolInv, TypeOK, NothingBeforeInit, Open, Waiting, vars, poolVars, threadVars,
                shutdownVars
  <2>2. Asleep' = Asleep /\ Notified' = Notified
    BY <1>3 DEF Asleep, Notified, vars, threadVars
  <2>. QED BY <1>3, <2>1, <2>2, QuietStep DEF vars, poolVars, threadVars
<1>4. ASSUME NEW t \in Thread, ThreadStep(t) PROVE PoolInv'
  BY <1>4, ThreadStepInv
<1>5. CASE SetMaxConnections \/ Signal \/ SignalLaunch \/ ShutdownWorker
  <2>1. TypeOK' /\ maxConnections' <= MaxLimit
    BY <1>5 DEF PoolInv, TypeOK, SetMaxConnections, Signal, SignalLaunch, ShutdownWorker,
                RunHooks, DrainSleeps, DrainEnds, RunCompletionHooks, Phases,
                poolVars, threadVars, shutdownVars
  <2>2. UNCHANGED <<availableConnections, managedConnections, activeConnections, held,
                    initialized, pc>>
    BY <1>5 DEF SetMaxConnections, Signal, SignalLaunch, ShutdownWorker,
                RunHooks, DrainSleeps, DrainEnds, RunCompletionHooks,
                poolVars, threadVars, shutdownVars
  <2>3. Asleep' = Asleep /\ Notified' = Notified /\ NothingBeforeInit'
    BY <2>2 DEF Asleep, Notified, PoolInv, NothingBeforeInit, Open, Waiting
  <2>. QED BY <2>1, <2>2, <2>3, QuietStep
<1>. QED BY <1>1, <1>2, <1>3, <1>4, <1>5 DEF Next

LEMMA InitInv == Init => PoolInv
<1>. SUFFICES ASSUME Init PROVE PoolInv
  OBVIOUS
<1>1. TypeOK
  BY DEF Init, TypeOK, Places, Modes, Phases
<1>2. Open = {} /\ Cardinality({}) = 0
  BY FS_EmptySet DEF Init, Open
<1>3. Asleep = {}
  BY DEF Init, Asleep
<1>. QED
  BY <1>1, <1>2, <1>3 DEF Init, PoolInv, Accounting, Ownership, LimitRespected,
     NothingBeforeInit, Waiting, NoLostWakeup

THEOREM PoolInvariant == Spec => []PoolInv
BY InitInv, NextInv, PTL DEF Spec

-------------------------------------------------------------------------------
\* The counter, the owners and the queue agree in every reachable state, for any
\* number of threads and connections.
THEOREM PoolConsistent == Spec => []Consistent
<1>1. PoolInv => Consistent
  BY DEF PoolInv, Consistent
<1>. QED BY <1>1, PoolInvariant, PTL

\* The pool stays within the largest limit ever in force, replacements included.
THEOREM PoolLimit == Spec => []LimitRespected
<1>1. PoolInv => LimitRespected
  BY DEF PoolInv
<1>. QED BY <1>1, PoolInvariant, PTL

\* No notification of connectionAvailable_ is lost, whatever the interleaving.
THEOREM PoolWakeups == Spec => []NoLostWakeup
<1>1. PoolInv => NoLostWakeup
  BY DEF PoolInv
<1>. QED BY <1>1, PoolInvariant, PTL

-------------------------------------------------------------------------------
\* The steps that change who owns a connection, and what they do to the others.
LEMMA HeldSteps ==
    ASSUME PoolInv, [Next]_vars
    PROVE  \/ held' = held
           \/ \E t \in Thread, c \in Conn :
                /\ Returns(t, c) /\ c \notin managedConnections
                /\ Waiting(t) \/ (~isShuttingDown /\ pc[t] = "calling")
           \/ \E t \in Thread, c \in Conn : ReturnConnection(t, c)
<1>1. CASE UNCHANGED vars
  BY <1>1 DEF vars, threadVars
<1>2. CASE InitPool \/ SetMaxConnections \/ (\E c \in Conn : Die(c)) \/ Signal
           \/ SignalLaunch \/ ShutdownWorker
  BY <1>2 DEF InitPool, SetMaxConnections, Die, Signal, SignalLaunch, ShutdownWorker,
              RunHooks, DrainSleeps, DrainEnds, RunCompletionHooks, threadVars
<1>3. ASSUME NEW t \in Thread,
             \/ Call(t) \/ GetRejected(t) \/ GetCreateFails(t) \/ GetSleeps(t)
             \/ TimesOut(t) \/ WakeSleeps(t) \/ ProbeAlive(t) \/ ProbeDead(t)
             \/ Shutdown(t) \/ Launch(t) \/ ShutdownReturns(t)
      PROVE  held' = held
  BY <1>3 DEF Call, GetRejected, GetCreateFails, GetSleeps, TimesOut, Throws, WakeSleeps,
              ProbeAlive, ProbeDead, Shutdown, Launch, ShutdownReturns
<1>4. ASSUME NEW t \in Thread, NEW c \in Conn,
             GetAvailable(t, c) \/ GetCreates(t, c) \/ WakeTakes(t, c)
      PROVE  /\ Returns(t, c) /\ c \notin managedConnections
             /\ Waiting(t) \/ (~isShuttingDown /\ pc[t] = "calling")
  BY <1>4 DEF GetAvailable, GetCreates, WakeTakes, Admitted, Open, PoolInv, Ownership
<1>5. ASSUME NEW t \in Thread, NEW c \in Conn, Release(t, c)
      PROVE  held' = held \/ ReturnConnection(t, c)
  BY <1>5 DEF Release, ReplacementFails, threadVars
<1>6. ASSUME NEW t \in Thread, Drop(t)
      PROVE  held' = held \/ \E c \in Conn : ReturnConnection(t, c)
  BY <1>6 DEF Drop, ReplacementFails, threadVars, PoolInv, TypeOK
<1>. QED
  BY <1>1, <1>2, <1>3, <1>4, <1>5, <1>6 DEF Next, ThreadStep, Get, Leave

\* The pool implements exclusive leases of open connections.
THEOREM PoolRefinesLease == Spec => LeasesExclusive
<1>1. Init => Lease!LeaseInit
  BY DEF Init, Lease!LeaseInit, Open
<1>2. ASSUME PoolInv, PoolInv', [Next]_vars
      PROVE  [Lease!LeaseNext]_<<held, Open>>
  <2>1. /\ Lease!Leased = managedConnections
        /\ UNION {held'[t] : t \in Thread} = managedConnections'
    BY <1>2 DEF PoolInv, Ownership, Lease!Leased
  <2>2. managedConnections' \subseteq Open' /\ Open' \subseteq Conn
    BY <1>2 DEF PoolInv, TypeOK, Open
  <2>3. CASE held' = held
    <3>1. managedConnections' = managedConnections
      BY <2>1, <2>3 DEF Lease!Leased
    <3>. QED BY <2>1, <2>2, <2>3, <3>1 DEF Lease!LeaseNext, Lease!Resize, Lease!KeepsOpen
  <2>4. ASSUME NEW t \in Thread, NEW c \in Conn, Returns(t, c), c \notin managedConnections
        PROVE  Lease!Lend(t, c)
    BY <2>1, <2>2, <2>4 DEF Returns, Lease!Lend, Lease!KeepsOpen
  <2>5. ASSUME NEW t \in Thread, NEW c \in Conn, ReturnConnection(t, c)
        PROVE  Lease!GiveBack(t, c)
    BY <2>1, <2>2, <2>5 DEF ReturnConnection, Lease!GiveBack, Lease!KeepsOpen
  <2>. QED BY <1>2, <2>3, <2>4, <2>5, HeldSteps DEF Lease!LeaseNext
<1>. QED
  BY <1>1, <1>2, PoolInvariant, PTL DEF Spec, LeasesExclusive, Lease!LeaseSpec, Lease!leaseVars

\* Once the shutdown is claimed nobody starts to wait and only threads that were
\* waiting by then can still obtain a connection.
THEOREM ShutdownClosesAdmission == Spec => AdmissionClosed
<1>1. ASSUME PoolInv, [Next]_vars, isShuttingDown, NEW t \in Thread,
             Waiting(t)' \/ ~(held'[t] \subseteq held[t])
      PROVE  Waiting(t)
  <2>1. CASE ~(held'[t] \subseteq held[t])
    <3>1. ASSUME NEW u \in Thread, NEW c \in Conn, Returns(u, c)
          PROVE  u = t
      BY <2>1, <3>1 DEF Returns, PoolInv, TypeOK
    <3>2. ASSUME NEW u \in Thread, NEW c \in Conn, ReturnConnection(u, c)
          PROVE  FALSE
      BY <1>1, <2>1, <3>2 DEF ReturnConnection, PoolInv, TypeOK
    <3>. QED BY <1>1, <2>1, <3>1, <3>2, HeldSteps
  <2>2. CASE Waiting(t)' /\ ~Waiting(t)
    <3>1. ASSUME NEW u \in Thread, u # t, ThreadStep(u)
          PROVE  FALSE
      <4>1. CASE pc'[t] = pc[t]
        BY <2>2, <4>1 DEF Waiting
      <4>2. CASE pc'[t] # pc[t]
        <5>1. PICK w \in Asleep : pc' = [pc EXCEPT ![u] = "idle", ![w] = "notified"]
          BY <1>1, <3>1, <4>2 DEF PoolInv, TypeOK, ThreadStep, Call, Get, GetRejected,
             GetCreateFails, GetSleeps, GetAvailable, GetCreates, Leave, TimesOut, WakeTakes,
             WakeSleeps, Release, Drop, ReplacementFails, ProbeAlive, ProbeDead, Shutdown,
             Launch, ShutdownReturns, Throws, Returns, ReturnConnection, NotifyOne, threadVars
        <5>. QED BY <1>1, <2>2, <3>1, <5>1 DEF PoolInv, TypeOK, Asleep, Waiting
      <4>. QED BY <4>1, <4>2
    <3>2. CASE ThreadStep(t)
      <4>1. pc'[t] \notin {"asleep", "notified"}
        BY <1>1, <2>2, <3>2 DEF PoolInv, TypeOK, ThreadStep, Call, Get, GetRejected,
           GetCreateFails, GetSleeps, GetAvailable, GetCreates, Leave, TimesOut, WakeTakes,
           WakeSleeps, Release, Drop, ReplacementFails, ProbeAlive, ProbeDead, Shutdown,
           Launch, ShutdownReturns, Throws, Returns, ReturnConnection, NotifyOne, threadVars,
           Admitted, Continuation, Asleep, Waiting
      <4>. QED BY <2>2, <4>1 DEF Waiting
    <3>3. CASE UNCHANGED pc
      BY <2>2, <3>3 DEF Waiting
    <3>. QED
      BY <1>1, <3>1, <3>2, <3>3
      DEF Next, InitPool, SetMaxConnections, Die, Signal, SignalLaunch, ShutdownWorker, RunHooks,
          DrainSleeps, DrainEnds, RunCompletionHooks, vars, threadVars
  <2>. QED BY <1>1, <2>1, <2>2
<1>2. PoolInv /\ [Next]_vars =>
        [isShuttingDown =>
           \A t \in Thread : Waiting(t)' \/ ~(held'[t] \subseteq held[t]) => Waiting(t)]_vars
  BY <1>1
<1>. QED BY <1>2, PoolInvariant, PTL DEF Spec, AdmissionClosed

-------------------------------------------------------------------------------
(* One shutdown                                                             *)

\* Whoever is between the compare-exchange and the launch of the worker is
\* alone, and the shutdown is still only claimed.
OneLauncher ==
    /\ phase # "claimed" => signal = "none" /\ \A t \in Thread : pc[t] # "launching"
    /\ \A t, u \in Thread : pc[t] = "launching" /\ pc[u] = "launching" => t = u
    /\ signal = "launching" => \A t \in Thread : pc[t] # "launching"

LaunchInv == TypeOK /\ OneLauncher

\* A step of the shutdown, as ShutdownOnce allows it.
Advances == \E i \in 1..5 : phase = PhaseOrder[i] /\ phase' = PhaseOrder[i + 1]

\* Inside the pool nobody claims or launches a shutdown.
LEMMA PoolStepLaunchesNothing ==
    ASSUME TypeOK, NEW t \in Thread,
           \/ Call(t) \/ Get(t) \/ Leave(t) \/ WakeSleeps(t)
           \/ \E c \in Conn : Release(t, c)
           \/ ProbeAlive(t) \/ ProbeDead(t) \/ Drop(t)
    PROVE  /\ UNCHANGED <<phase, signal>>
           /\ \A u \in Thread : pc'[u] = "launching" => pc[u] = "launching"
<1> DEFINE Goal == /\ UNCHANGED <<phase, signal>>
                   /\ \A u \in Thread : pc'[u] = "launching" => pc[u] = "launching"
<1>1. ASSUME NEW c \in Conn, Returns(t, c) PROVE Goal
  BY <1>1 DEF Returns, Continuation, TypeOK, shutdownVars
<1>2. ASSUME Throws(t) PROVE Goal
  BY <1>2 DEF Throws, TypeOK, shutdownVars
<1>3. CASE Call(t) \/ GetSleeps(t) \/ WakeSleeps(t) \/ ProbeAlive(t) \/ ProbeDead(t)
  <2>1. PICK q \in Places \ {"launching"} : pc' = [pc EXCEPT ![t] = q]
    BY <1>3 DEF Call, GetSleeps, WakeSleeps, ProbeAlive, ProbeDead, Places
  <2>2. UNCHANGED <<phase, signal>>
    BY <1>3 DEF Call, GetSleeps, WakeSleeps, ProbeAlive, ProbeDead, shutdownVars
  <2> QED BY <2>1, <2>2 DEF TypeOK
<1>4. ASSUME NEW c \in Conn, ReturnConnection(t, c) PROVE Goal
  <2>1. UNCHANGED <<phase, signal>> /\ NotifyOne(t, "idle")
    BY <1>4 DEF ReturnConnection
  <2>2. CASE pc' = [pc EXCEPT ![t] = "idle"]
    BY <2>1, <2>2 DEF TypeOK
  <2>3. ASSUME NEW w \in Asleep, pc' = [pc EXCEPT ![t] = "idle", ![w] = "notified"]
        PROVE  Goal
    BY <2>1, <2>3 DEF TypeOK, Asleep
  <2> QED BY <2>1, <2>2, <2>3 DEF NotifyOne
<1>5. ASSUME NEW c, ReplacementFails(c) PROVE Goal
  BY <1>5 DEF ReplacementFails, threadVars, shutdownVars
<1>6. CASE Drop(t)
  <2>1. probe[t] \subseteq Conn
    BY DEF TypeOK
  <2> QED BY <1>4, <1>5, <1>6, <2>1 DEF Drop
<1>7. ASSUME NEW c \in Conn, Release(t, c) PROVE Goal
  BY <1>4, <1>5, <1>7 DEF Release
<1>8. CASE Get(t)
  BY <1>1, <1>2, <1>3, <1>8 DEF Get, GetRejected, GetCreateFails, GetAvailable, GetCreates
<1>9. CASE Leave(t)
  BY <1>1, <1>2, <1>9 DEF Leave, TimesOut, WakeTakes
<1> QED
  BY <1>3, <1>6, <1>7, <1>8, <1>9

LEMMA LaunchNext ==
    ASSUME LaunchInv, TypeOK', [Next]_vars
    PROVE  LaunchInv' /\ (phase' # phase => Advances)
<1>1. ASSUME UNCHANGED <<phase, signal>>,
             \A u \in Thread : pc'[u] = "launching" => pc[u] = "launching"
      PROVE  LaunchInv' /\ phase' = phase
  BY <1>1 DEF LaunchInv, OneLauncher
<1>2. ASSUME NEW t \in Thread, Shutdown(t)
      PROVE  LaunchInv' /\ (phase' # phase => Advances)
  <2>1. CASE isShuttingDown
    BY <1>1, <1>2, <2>1 DEF Shutdown, LaunchInv, TypeOK
  <2>2. CASE ~isShuttingDown
    <3>1. /\ phase = PhaseOrder[1] /\ phase' = PhaseOrder[1 + 1] /\ signal' = signal
          /\ pc' = [pc EXCEPT ![t] = "launching"]
      BY <1>2, <2>2 DEF Shutdown, isShuttingDown, PhaseOrder
    <3>2. phase = "running" /\ phase' = "claimed"
      BY <1>2, <2>2 DEF Shutdown, isShuttingDown
    <3>3. OneLauncher'
      BY <3>1, <3>2 DEF LaunchInv, OneLauncher, TypeOK
    <3>4. Advances
      BY <3>1 DEF Advances
    <3> QED BY <3>3, <3>4 DEF LaunchInv
  <2> QED BY <2>1, <2>2
<1>3. ASSUME NEW t \in Thread, Launch(t)
      PROVE  LaunchInv' /\ (phase' # phase => Advances)
  <2>1. phase = "claimed" /\ phase' = "hooks" /\ signal' = signal /\ signal = "none"
    BY <1>3 DEF Launch, LaunchInv, OneLauncher, TypeOK
  <2>2. \A u \in Thread : pc'[u] # "launching"
    BY <1>3 DEF Launch, LaunchInv, OneLauncher, TypeOK
  <2>3. Advances
    <3>1. phase = PhaseOrder[2] /\ phase' = PhaseOrder[2 + 1]
      BY <2>1 DEF PhaseOrder
    <3> QED BY <3>1 DEF Advances
  <2> QED BY <2>1, <2>2, <2>3 DEF LaunchInv, OneLauncher
<1>4. CASE Signal
  <2>1. phase = "running" /\ phase' = "claimed" /\ pc' = pc
    BY <1>4 DEF Signal, isShuttingDown, threadVars
  <2>2. Advances
    <3>1. phase = PhaseOrder[1] /\ phase' = PhaseOrder[1 + 1]
      BY <2>1 DEF PhaseOrder
    <3> QED BY <3>1 DEF Advances
  <2> QED BY <2>1, <2>2 DEF LaunchInv, OneLauncher
<1>5. CASE SignalLaunch
  <2>1. phase = "claimed" /\ phase' = "hooks" /\ pc' = pc /\ signal' = "none"
        /\ signal = "launching"
    BY <1>5 DEF SignalLaunch, threadVars, LaunchInv, OneLauncher
  <2>2. Advances
    <3>1. phase = PhaseOrder[2] /\ phase' = PhaseOrder[2 + 1]
      BY <2>1 DEF PhaseOrder
    <3> QED BY <3>1 DEF Advances
  <2> QED BY <2>1, <2>2 DEF LaunchInv, OneLauncher
<1>6. CASE ShutdownWorker
  <2>1. pc' = pc /\ signal' = signal
    BY <1>6 DEF ShutdownWorker, RunHooks, DrainSleeps, DrainEnds, RunCompletionHooks, threadVars
  <2>2. CASE phase' = phase
    BY <1>1, <2>1, <2>2
  <2>3. CASE phase' # phase
    <3>1. PICK i \in 3..5 : phase = PhaseOrder[i] /\ phase' = PhaseOrder[i + 1]
      BY <1>6, <2>3 DEF ShutdownWorker, RunHooks, DrainSleeps, DrainEnds, RunCompletionHooks,
                        PhaseOrder
    <3>2. phase # "claimed"
      BY <3>1 DEF PhaseOrder
    <3>3. Advances
      BY <3>1 DEF Advances
    <3> QED BY <2>1, <3>2, <3>3 DEF LaunchInv, OneLauncher
  <2> QED BY <2>2, <2>3
<1>7. CASE InitPool \/ SetMaxConnections \/ (\E c \in Conn : Die(c)) \/ UNCHANGED vars
  <2>1. UNCHANGED <<phase, signal, pc>>
    BY <1>7 DEF InitPool, SetMaxConnections, Die, threadVars, shutdownVars, vars
  <2> QED BY <1>1, <2>1
<1>8. ASSUME NEW t \in Thread, ThreadStep(t)
      PROVE  LaunchInv' /\ (phase' # phase => Advances)
  <2>1. CASE ShutdownReturns(t)
    <3>1. UNCHANGED <<phase, signal>> /\ pc' = [pc EXCEPT ![t] = "idle"]
      BY <2>1 DEF ShutdownReturns, shutdownVars
    <3> QED BY <1>1, <3>1 DEF LaunchInv, TypeOK
  <2>2. CASE Shutdown(t) \/ Launch(t)
    BY <1>2, <1>3, <2>2
  <2> QED
    BY <1>1, <1>8, <2>1, <2>2, PoolStepLaunchesNothing DEF ThreadStep, LaunchInv
<1> QED
  BY <1>4, <1>5, <1>6, <1>7, <1>8 DEF Next

\* However many threads and signals ask for it, the shutdown runs once and its
\* phases follow each other.
THEOREM ShutdownRunsOnce == Spec => ShutdownOnce
<1>1. Init => LaunchInv
  <2>1. Init => TypeOK
    BY InitInv DEF PoolInv
  <2> QED BY <2>1 DEF Init, LaunchInv, OneLauncher
<1>2. PoolInv /\ LaunchInv /\ PoolInv' /\ [Next]_vars => LaunchInv'
  BY LaunchNext DEF PoolInv
<1>3. PoolInv /\ LaunchInv /\ PoolInv' /\ [Next]_vars
         => [phase' # phase =>
                \E i \in 1..5 : phase = PhaseOrder[i] /\ phase' = PhaseOrder[i + 1]]_vars
  BY LaunchNext DEF PoolInv, Advances
<1>4. Spec => []PoolInv
  BY PoolInvariant
<1> QED
  BY <1>1, <1>2, <1>3, <1>4, PTL DEF Spec, ShutdownOnce

-------------------------------------------------------------------------------
(* The data layer.                                                          *)

\* Inside a guard or while statements run, a thread is in no pool function.
OutsidePool ==
    \A t \in Thread :
        using[t] # {} \/ stage[t] \in {"open", "closing", "borrowed"} => pc[t] = "idle"

\* A thread runs statements on what it holds, or on what a null-pointer call left it.
UsesStaged ==
    \A t \in Thread :
        using[t] # {} => \/ stage[t] \in {"borrowing", "open"} /\ using[t] \subseteq held[t]
                        \/ stage[t] = "borrowed"

\* An open transaction belongs to a guard that still owns its connection, or
\* survives the guard on a connection that is dead and will not be put back.
TxOwned ==
    \A c \in tx : \E t \in Thread :
        /\ c \in held[t]
        /\ stage[t] = "open" \/ (stage[t] = "closing" /\ c \in dead)

AtMostOne(S) == \A c, d \in S : c = d

\* The connections of a thread whose getConnection, with or without the health
\* check, is in progress or has just returned.
Lending(t) ==
    \/ pc[t] \in {"calling", "asleep", "notified"} /\ mode[t] # "replace" /\ held[t] = {}
    \/ /\ pc[t] = "probing" \/ (pc[t] \in {"calling", "asleep", "notified"} /\ mode[t] = "replace")
       /\ held[t] = probe[t] /\ AtMostOne(probe[t])
    \/ pc[t] = "dropping" /\ AtMostOne(probe[t]) /\ AtMostOne(held[t] \ probe[t])
    \/ pc[t] = "idle" /\ AtMostOne(held[t])

\* An operation ends with the connections it started with, and a guard has one.
HoldsOne(t) ==
    /\ stage[t] = "out" => held[t] = {} /\ pc[t] \in {"idle", "launching", "awaiting"}
    /\ stage[t] = "borrowed" => held[t] = {}
    /\ stage[t] \in {"open", "closing"} => AtMostOne(held[t])
    /\ stage[t] \in {"guarding", "borrowing", "fetching"} => Lending(t)
    /\ stage[t] \in {"guarding", "fetching"} =>
           mode[t] = "plain" /\ pc[t] \notin {"probing", "dropping"}

OneEach == \A t \in Thread : HoldsOne(t)

UseInv == PoolInv /\ UseTypeOK /\ OutsidePool /\ UsesStaged /\ OneEach /\ TxOwned

-------------------------------------------------------------------------------
LEMMA UsePoolStep ==
    ASSUME [UseNext]_allVars
    PROVE  [Next]_vars
<1>1. CASE UNCHANGED allVars
  BY <1>1 DEF allVars
<1>2. CASE ~terminated /\ Environment
  BY <1>2 DEF Environment, Next
<1>3. ASSUME NEW t \in Thread, ~terminated, Operation(t)
      PROVE  [Next]_vars
  <2>1. Call(t) \/ (\E c \in Conn : Release(t, c)) \/ UNCHANGED vars
    BY <1>3 DEF Operation, Borrow, BorrowFails, GiveUp, Guard, GuardRefused, Begin, Commit,
                Rollback, End, CloseGuard, Fetch, FetchFails, Fetched, Use, UseEnds, Returned
  <2>. QED BY <1>3, <2>1 DEF Next, ThreadStep
<1>4. ASSUME NEW t \in Thread, ~terminated, DropProbe(t) \/ Stop(t) \/ InPool(t)
      PROVE  [Next]_vars
  BY <1>4 DEF DropProbe, Stop, InPool, Next, ThreadStep
<1>. QED BY <1>1, <1>2, <1>3, <1>4 DEF UseNext

\* Every behaviour of the data layer is a behaviour of the pool, so every theorem
\* about the pool holds under it.
THEOREM UseImplementsPool == UseSpec => Spec
<1>1. UseInit => Init
  BY DEF UseInit
<1>2. [UseNext]_allVars => [Next]_vars
  BY UsePoolStep
<1>. QED BY <1>1, <1>2, PTL DEF UseSpec, Spec

-------------------------------------------------------------------------------
\* What a step of the pool by t leaves alone in the other threads.
Undisturbed(u) ==
    /\ held'[u] = held[u] /\ mode'[u] = mode[u] /\ probe'[u] = probe[u]
    /\ pc'[u] = pc[u] \/ (pc[u] = "asleep" /\ pc'[u] = "notified")

LEMMA OthersUndisturbed ==
    ASSUME TypeOK, NEW t \in Thread, ThreadStep(t), NEW u \in Thread \ {t}
    PROVE  Undisturbed(u)
BY DEF Undisturbed, TypeOK, ThreadStep, Call, Get, GetRejected, GetCreateFails, GetSleeps,
   GetAvailable, GetCreates, Leave, TimesOut, WakeTakes, WakeSleeps, Release, Drop,
   ReplacementFails, ProbeAlive, ProbeDead, Shutdown, Launch, ShutdownReturns, Throws, Returns,
   ReturnConnection, NotifyOne, Asleep, threadVars

\* The step is t's: what the others hold and do is as before.
LEMMA OthersHold ==
    ASSUME UseInv, NEW u \in Thread, Undisturbed(u), stage'[u] = stage[u]
    PROVE  HoldsOne(u)'
BY DEF UseInv, OneEach, HoldsOne, Lending, AtMostOne, Undisturbed

\* A dead connection does not survive its return.
LEMMA DestroyedWhenDead ==
    ASSUME PoolInv, NEW t \in Thread, NEW c \in Conn, ReturnConnection(t, c), c \in dead
    PROVE  c \notin Open'
BY DEF PoolInv, Ownership, ReturnConnection, GoesBack, Open

\* The conjuncts of UseInv that speak of the data layer.
LayerInv == UseTypeOK /\ OutsidePool /\ UsesStaged /\ OneEach /\ TxOwned

\* Steps that take no connection away from its owner: what remains to be shown of
\* them is what the thread holds.
LEMMA KeepsLayer ==
    ASSUME UseInv, TypeOK', UNCHANGED useVars,
           \A u \in Thread : held[u] \subseteq held'[u] /\ (pc[u] = "idle" => pc'[u] = "idle"),
           dead \subseteq dead'
    PROVE  UseTypeOK' /\ OutsidePool' /\ UsesStaged' /\ TxOwned'
<1>1. UseTypeOK' /\ OutsidePool'
  BY DEF UseInv, UseTypeOK, OutsidePool, useVars
<1>2. UsesStaged'
  BY DEF UseInv, UsesStaged, useVars
<1>3. TxOwned'
  BY DEF UseInv, TxOwned, useVars
<1>. QED BY <1>1, <1>2, <1>3

LEMMA ReleaseLayer ==
    ASSUME UseInv, TypeOK', NEW t \in Thread, NEW c \in Conn, ~terminated,
           NEW s \in {"out", "borrowed"}, stage[t] \in {"borrowing", "closing", "fetching"},
           Quiet(t), Returned(t, c, s),
           using' = IF s = "out" \/ terminated' THEN using ELSE [using EXCEPT ![t] = {c}]
    PROVE  LayerInv'
<1>1. CASE ReplacementFails(c)
  <2>1. stage' = stage /\ using' = using /\ UNCHANGED <<threadVars, dead, Open>>
    BY <1>1 DEF Returned, ReplacementFails, poolVars, Open
  <2>2. tx \subseteq Open
    BY DEF UseInv, TxOwned, PoolInv, Ownership, Open, UseTypeOK
  <2>3. tx' = tx
    BY <2>1, <2>2 DEF Returned
  <2>4. OneEach'
    BY <2>1, OthersHold DEF OneEach, Undisturbed, threadVars
  <2>. QED BY <2>1, <2>3, <2>4, KeepsLayer DEF useVars, LayerInv, threadVars
<1>2. CASE ReturnConnection(t, c)
  <2>1. /\ stage' = [stage EXCEPT ![t] = s] /\ tx' = tx \cap Open'
        /\ \A u \in Thread \ {t} : using'[u] = using[u]
        /\ using' \in [Thread -> SUBSET Conn] /\ (using'[t] # {} => s = "borrowed")
        /\ held' = [held EXCEPT ![t] = @ \ {c}] /\ dead' = dead \ {c}
        /\ pc'[t] = "idle" /\ c \in held[t] /\ held[t] \subseteq {c}
    <3>1. AtMostOne(held[t])
      BY DEF UseInv, OneEach, HoldsOne, Lending, Quiet
    <3>2. pc'[t] = "idle"
      BY <1>2 DEF ReturnConnection, NotifyOne, Asleep, Quiet, UseInv, PoolInv, TypeOK
    <3>3. /\ \A u \in Thread \ {t} : using'[u] = using[u]
          /\ using' \in [Thread -> SUBSET Conn] /\ (using'[t] # {} => s = "borrowed")
      BY DEF UseInv, UseTypeOK, Quiet
    <3>. QED BY <1>2, <3>1, <3>2, <3>3 DEF Returned, ReturnConnection, AtMostOne
  <2>2. ASSUME NEW u \in Thread \ {t} PROVE Undisturbed(u)
    BY OthersUndisturbed DEF Returned, ThreadStep, UseInv, PoolInv
  <2>3. UseTypeOK'
    BY <2>1 DEF UseInv, UseTypeOK, Stages
  <2>4. OutsidePool'
    BY <2>1, <2>2, TypeOK' DEF UseInv, UseTypeOK, OutsidePool, Quiet, Undisturbed
  <2>5. UsesStaged'
    BY <2>1, <2>2 DEF UseInv, UseTypeOK, UsesStaged, Quiet, Undisturbed
  <2>6. OneEach'
    <3>1. HoldsOne(t)'
      BY <2>1 DEF HoldsOne, UseInv, UseTypeOK, PoolInv, TypeOK
    <3>. QED BY <2>1, <2>2, <3>1, OthersHold DEF OneEach, UseInv, UseTypeOK
  <2>7. ASSUME NEW d \in tx'
        PROVE  \E u \in Thread : /\ d \in held'[u]
                                 /\ stage'[u] = "open" \/ (stage'[u] = "closing" /\ d \in dead')
    <3>1. PICK u \in Thread : /\ d \in held[u]
                              /\ stage[u] = "open" \/ (stage[u] = "closing" /\ d \in dead)
      BY <2>1, <2>7 DEF UseInv, TxOwned
    <3>2. u # t
      BY <1>2, <2>1, <2>7, <3>1, DestroyedWhenDead DEF UseInv
    <3>3. c \notin held[u]
      BY <2>1, <3>2 DEF UseInv, PoolInv, Ownership
    <3>. QED BY <2>1, <2>2, <3>1, <3>2, <3>3 DEF UseInv, UseTypeOK, Undisturbed
  <2>8. TxOwned'
    BY <2>7 DEF TxOwned
  <2>. QED BY <2>3, <2>4, <2>5, <2>6, <2>8 DEF LayerInv
<1>. QED BY <1>1, <1>2 DEF Returned, Release

\* The health check lets go of the connection it found dead.
LEMMA DropLayer ==
    ASSUME UseInv, TypeOK', NEW t \in Thread, DropProbe(t)
    PROVE  LayerInv'
<1>1. ThreadStep(t) /\ Drop(t) /\ UNCHANGED <<stage, using>> /\ tx' = tx \cap Open'
  BY DEF DropProbe, ThreadStep
<1>2. ASSUME NEW u \in Thread \ {t} PROVE Undisturbed(u)
  BY <1>1, OthersUndisturbed DEF UseInv, PoolInv
<1>3. stage[t] \notin {"out", "open", "closing", "borrowed"} /\ using[t] = {}
  BY <1>1 DEF Drop, UseInv, OneEach, HoldsOne, OutsidePool, UseTypeOK
<1>4. HoldsOne(t)'
  <2>1. CASE UNCHANGED <<threadVars>>
    BY <1>1, <2>1 DEF threadVars, UseInv, OneEach, HoldsOne, Lending, AtMostOne
  <2>2. ASSUME NEW c \in probe[t], ReturnConnection(t, c)
        PROVE  HoldsOne(t)'
    <3>1. pc'[t] = "idle" /\ held'[t] = held[t] \ {c}
      BY <1>1, <2>2 DEF Drop, ReturnConnection, NotifyOne, Asleep, UseInv, PoolInv, TypeOK
    <3>2. pc[t] = "dropping" /\ stage[t] \notin {"guarding", "fetching"}
      BY <1>1 DEF Drop, UseInv, OneEach, HoldsOne
    <3>3. AtMostOne(held'[t])
      BY <3>1, <3>2, <2>2, <1>3 DEF UseInv, OneEach, HoldsOne, Lending, AtMostOne, UseTypeOK,
                                    Stages
    <3>. QED BY <1>1, <1>3, <3>1, <3>2, <3>3 DEF HoldsOne, Lending
  <2>. QED BY <1>1, <2>1, <2>2 DEF Drop, ReplacementFails
<1>5. OneEach'
  BY <1>1, <1>2, <1>4, OthersHold DEF OneEach
<1>6. UseTypeOK' /\ OutsidePool' /\ UsesStaged'
  BY <1>1, <1>2, <1>3, TypeOK' DEF UseInv, UseTypeOK, OutsidePool, UsesStaged, Undisturbed
<1>7. ASSUME NEW d \in tx'
      PROVE  \E u \in Thread : /\ d \in held'[u]
                               /\ stage'[u] = "open" \/ (stage'[u] = "closing" /\ d \in dead')
  <2>1. PICK u \in Thread : /\ d \in held[u]
                            /\ stage[u] = "open" \/ (stage[u] = "closing" /\ d \in dead)
    BY <1>1, <1>7 DEF UseInv, TxOwned
  <2>2. u # t
    BY <1>3, <2>1
  <2>3. dead' = dead \/ \E c \in held[t] : dead' = dead \ {c}
    BY <1>1 DEF Drop, ReturnConnection, ReplacementFails
  <2>4. d \notin held[t]
    BY <2>1, <2>2 DEF UseInv, PoolInv, Ownership
  <2>. QED BY <1>1, <1>2, <2>1, <2>2, <2>3, <2>4 DEF Undisturbed
<1>8. TxOwned'
  BY <1>7 DEF TxOwned
<1>. QED BY <1>5, <1>6, <1>8 DEF LayerInv

\* getConnection makes progress inside the pool.
LEMMA InPoolLayer ==
    ASSUME UseInv, TypeOK', NEW t \in Thread, InPool(t), UNCHANGED useVars
    PROVE  LayerInv'
<1>1. ThreadStep(t)
  BY DEF InPool, ThreadStep
<1>2. ASSUME NEW u \in Thread \ {t} PROVE Undisturbed(u)
  BY <1>1, OthersUndisturbed DEF UseInv, PoolInv
<1>3. pc[t] \in {"calling", "asleep", "notified", "probing"} /\ held[t] \subseteq held'[t]
  BY DEF InPool, Get, GetRejected, GetCreateFails, GetSleeps, GetAvailable, GetCreates, Admitted,
         Leave, TimesOut, WakeTakes, WakeSleeps, Waiting, Throws, Returns, ProbeAlive, ProbeDead,
         UseInv, PoolInv, TypeOK
<1>4. stage[t] \in {"guarding", "borrowing", "fetching"} /\ Lending(t)
  BY <1>3 DEF UseInv, OneEach, HoldsOne, OutsidePool, UseTypeOK, Stages
<1>5. Lending(t)' /\ (mode[t] = "plain" /\ pc[t] # "probing" =>
                       mode'[t] = "plain" /\ pc'[t] \notin {"probing", "dropping"})
  <2>1. ASSUME NEW c \in Conn, Returns(t, c), pc[t] # "probing", pc[t] # "dropping", pc[t] # "idle"
        PROVE  Lending(t)' /\ (mode[t] = "plain" => mode'[t] = "plain"
                                /\ pc'[t] \notin {"probing", "dropping"})
    BY <1>4, <2>1 DEF Returns, Continuation, Lending, AtMostOne, UseInv, PoolInv, TypeOK, Modes
  <2>2. ASSUME Throws(t), pc[t] # "probing", pc[t] # "dropping", pc[t] # "idle"
        PROVE  Lending(t)' /\ (mode[t] = "plain" => mode'[t] = "plain"
                                /\ pc'[t] \notin {"probing", "dropping"})
    BY <1>4, <2>2 DEF Throws, Lending, AtMostOne, UseInv, PoolInv, TypeOK, Modes
  <2>3. CASE GetSleeps(t) \/ WakeSleeps(t)
    BY <1>4, <2>3 DEF GetSleeps, WakeSleeps, Admitted, Lending, AtMostOne, UseInv, PoolInv, TypeOK
  <2>4. CASE ProbeAlive(t) \/ ProbeDead(t)
    BY <1>4, <2>4 DEF ProbeAlive, ProbeDead, Lending, AtMostOne, UseInv, PoolInv, TypeOK
  <2>. QED BY <2>1, <2>2, <2>3, <2>4 DEF InPool, Get, GetRejected, GetCreateFails, GetAvailable,
              GetCreates, Admitted, Leave, TimesOut, WakeTakes, Waiting
<1>6. HoldsOne(t)'
  BY <1>3, <1>4, <1>5 DEF HoldsOne, useVars, UseInv, OneEach
<1>7. OneEach'
  BY <1>2, <1>6, OthersHold DEF OneEach, useVars
<1>8. dead' = dead
  BY DEF InPool, Get, GetRejected, GetCreateFails, GetSleeps, GetAvailable, GetCreates, Leave,
         TimesOut, WakeTakes, WakeSleeps, Throws, Returns, ProbeAlive, ProbeDead
<1>. QED
  BY <1>2, <1>3, <1>7, <1>8, KeepsLayer DEF Undisturbed, LayerInv

\* Entering getConnection.
LEMMA CallLayer ==
    ASSUME UseInv, TypeOK', NEW t \in Thread, NEW s \in {"borrowing", "guarding", "fetching"},
           stage[t] = "out", Quiet(t), Call(t), s # "borrowing" => mode'[t] = "plain",
           Moves(t, s), UNCHANGED <<using, tx>>
    PROVE  LayerInv'
<1>1. ASSUME NEW u \in Thread \ {t} PROVE Undisturbed(u)
  BY OthersUndisturbed DEF ThreadStep, UseInv, PoolInv
<1>2. /\ held' = held /\ dead' = dead /\ held[t] = {} /\ pc'[t] = "calling"
      /\ mode'[t] \in {"plain", "check"} /\ stage' = [stage EXCEPT ![t] = s]
  BY DEF Call, Moves, UseInv, OneEach, HoldsOne, PoolInv, TypeOK
<1>3. UseTypeOK' /\ OutsidePool' /\ UsesStaged'
  BY <1>1, <1>2, TypeOK' DEF UseInv, UseTypeOK, Stages, OutsidePool, UsesStaged, Quiet,
                             Undisturbed
<1>4. HoldsOne(t)'
  BY <1>2 DEF HoldsOne, Lending, UseInv, UseTypeOK
<1>5. OneEach'
  BY <1>1, <1>2, <1>4, OthersHold DEF OneEach, UseInv, UseTypeOK
<1>6. TxOwned'
  BY <1>2 DEF TxOwned, UseInv, UseTypeOK
<1>. QED BY <1>3, <1>5, <1>6 DEF LayerInv

\* The steps of an operation that the pool does not see.
LEMMA LocalLayer ==
    ASSUME UseInv, NEW t \in Thread, UNCHANGED vars,
           \/ BorrowFails(t) \/ GuardRefused(t) \/ FetchFails(t) \/ Begin(t) \/ Commit(t)
           \/ Rollback(t) \/ End(t) \/ UseEnds(t) \/ \E c \in Conn : Use(t, c)
    PROVE  LayerInv'
<1>. USE DEF UseInv
<1>1. UNCHANGED <<threadVars, dead>> /\ TypeOK'
  BY DEF vars, threadVars, shutdownVars, poolVars, UseTypeOK, TypeOK
<1>2. /\ \A u \in Thread \ {t} : stage'[u] = stage[u] /\ using'[u] = using[u]
      /\ stage' \in [Thread -> Stages] /\ using' \in [Thread -> SUBSET Conn] /\ tx' \in SUBSET Conn
  BY <1>1 DEF BorrowFails, GuardRefused, FetchFails, Begin, Commit, Rollback, End, UseEnds, Use,
              Moves, UseTypeOK, TypeOK, PoolInv, Stages, threadVars
<1>3. /\ HoldsOne(t)'
      /\ using'[t] # {} \/ stage'[t] \in {"open", "closing", "borrowed"} => pc'[t] = "idle"
      /\ using'[t] # {} => \/ stage'[t] \in {"borrowing", "open"} /\ using'[t] \subseteq held'[t]
                           \/ stage'[t] = "borrowed"
  <2>1. CASE BorrowFails(t) \/ GuardRefused(t) \/ FetchFails(t)
    BY <1>1, <2>1 DEF BorrowFails, GuardRefused, FetchFails, Moves, UseTypeOK, OutsidePool,
                      UsesStaged, OneEach, HoldsOne, threadVars
  <2>2. CASE Begin(t) \/ End(t)
    <3>1. pc[t] = "idle" /\ using[t] = {} /\ AtMostOne(held[t])
      BY <2>2 DEF Begin, End, Quiet, OneEach, HoldsOne, Lending
    <3>2. stage'[t] \in {"open", "closing"} /\ using'[t] = {}
      BY <2>2, <3>1 DEF Begin, End, Moves, UseTypeOK
    <3>. QED BY <1>1, <3>1, <3>2 DEF HoldsOne, AtMostOne, threadVars
  <2>3. CASE Commit(t) \/ Rollback(t)
    BY <1>1, <2>3 DEF Commit, Rollback, Quiet, OneEach, HoldsOne, Lending, threadVars
  <2>5. ASSUME NEW c \in Conn, Use(t, c)
        PROVE  /\ HoldsOne(t)' /\ pc'[t] = "idle"
               /\ stage'[t] \in {"borrowing", "open"} /\ using'[t] \subseteq held'[t]
    BY <1>1, <2>5 DEF Use, Quiet, UseTypeOK, OneEach, HoldsOne, Lending, threadVars
  <2>4. CASE UseEnds(t)
    <3>1. pc[t] = "idle" /\ stage[t] \in {"borrowing", "open", "borrowed"}
      BY <2>4 DEF UseEnds, OutsidePool, UsesStaged
    <3>. QED BY <1>1, <2>4, <3>1 DEF UseEnds, Moves, UseTypeOK, OneEach, HoldsOne, Lending,
                                     threadVars
  <2>. QED BY <2>1, <2>2, <2>3, <2>4, <2>5
<1>5. UseTypeOK' /\ OutsidePool' /\ UsesStaged' /\ OneEach'
  <2>1. ASSUME NEW u \in Thread \ {t} PROVE HoldsOne(u)'
    BY <1>1, <1>2, OthersHold DEF Undisturbed, threadVars
  <2>. QED BY <1>1, <1>2, <1>3, <2>1 DEF UseTypeOK, OutsidePool, UsesStaged, OneEach, threadVars
<1>4. TxOwned'
  <2>1. CASE Begin(t)
    BY <1>1, <2>1 DEF Begin, Moves, UseTypeOK, TxOwned, threadVars
  <2>2. CASE \/ BorrowFails(t) \/ GuardRefused(t) \/ FetchFails(t) \/ UseEnds(t)
             \/ \E c \in Conn : Use(t, c)
    BY <1>1, <2>2 DEF BorrowFails, GuardRefused, FetchFails, UseEnds, Use, Moves, UseTypeOK, TxOwned,
                      threadVars
  <2>3. CASE Commit(t) \/ Rollback(t) \/ End(t)
    BY <1>1, <2>3 DEF Commit, Rollback, End, Moves, UseTypeOK, TxOwned, threadVars
  <2>. QED BY <2>1, <2>2, <2>3
<1>. QED BY <1>4, <1>5 DEF LayerInv

LEMMA UseNextInv ==
    ASSUME UseInv, [UseNext]_allVars
    PROVE  UseInv'
<1>1. PoolInv' /\ TypeOK'
  BY UsePoolStep, NextInv DEF UseInv, PoolInv
<1>2. CASE UNCHANGED allVars
  BY <1>1, <1>2, KeepsLayer, OthersHold
  DEF allVars, vars, threadVars, Undisturbed, OneEach, useVars, UseInv
<1>3. CASE Environment
  <2>1. UNCHANGED <<threadVars, useVars>> /\ dead \subseteq dead'
    BY <1>3 DEF Environment, InitPool, SetMaxConnections, Die, Signal, SignalLaunch,
       ShutdownWorker, RunHooks, DrainSleeps, DrainEnds, RunCompletionHooks
  <2>. QED BY <1>1, <2>1, KeepsLayer, OthersHold
           DEF threadVars, Undisturbed, OneEach, useVars, UseInv
<1>4. ASSUME NEW t \in Thread, ~terminated, Operation(t)
      PROVE  UseInv'
  <2>1. CASE Borrow(t)
    BY <1>1, <2>1, CallLayer DEF Borrow, LayerInv, UseInv
  <2>2. CASE Guard(t)
    BY <1>1, <2>2, CallLayer DEF Guard, LayerInv, UseInv
  <2>3. ASSUME NEW c \in Conn, GiveUp(t, c) PROVE UseInv'
    BY <1>1, <1>4, <2>3, ReleaseLayer DEF GiveUp, LayerInv, UseInv
  <2>4. ASSUME NEW c \in Conn, CloseGuard(t, c) PROVE UseInv'
    <3>1. Quiet(t)
      BY <2>4 DEF CloseGuard, Quiet, UseInv, OutsidePool, UsesStaged
    <3>. QED BY <1>1, <1>4, <2>4, <3>1, ReleaseLayer DEF CloseGuard, LayerInv, UseInv
  <2>5. CASE \/ BorrowFails(t) \/ GuardRefused(t) \/ FetchFails(t) \/ Begin(t) \/ Commit(t)
             \/ Rollback(t) \/ End(t) \/ UseEnds(t) \/ \E c \in Conn : Use(t, c)
    <3>1. UNCHANGED vars
      BY <2>5 DEF BorrowFails, GuardRefused, FetchFails, Begin, Commit, Rollback, End, UseEnds, Use
    <3>. QED BY <1>1, <2>5, <3>1, LocalLayer DEF LayerInv, UseInv
  <2>6. CASE Fetch(t)
    BY <1>1, <2>6, CallLayer DEF Fetch, LayerInv, UseInv
  <2>7. ASSUME NEW c \in Conn, Fetched(t, c) PROVE UseInv'
    <3>1. Quiet(t)
      BY <2>7 DEF Fetched, Returned, Release, ReplacementFails, Quiet, UseInv, UsesStaged
    <3>. QED BY <1>1, <1>4, <2>7, <3>1, ReleaseLayer DEF Fetched, LayerInv, UseInv
  <2>. QED BY <1>4, <2>1, <2>2, <2>3, <2>4, <2>5, <2>6, <2>7 DEF Operation
<1>5. ASSUME NEW t \in Thread, DropProbe(t) PROVE UseInv'
  BY <1>1, <1>5, DropLayer DEF LayerInv, UseInv
<1>6. ASSUME NEW t \in Thread, InPool(t), UNCHANGED useVars PROVE UseInv'
  BY <1>1, <1>6, InPoolLayer DEF LayerInv, UseInv
<1>7. ASSUME NEW t \in Thread, Stop(t) PROVE UseInv'
  <2>1. /\ UNCHANGED <<held, mode, probe, dead, useVars>>
        /\ pc[t] = "idle" => stage[t] = "out" /\ using[t] = {}
        /\ pc[t] \in {"idle", "launching", "awaiting"}
        /\ pc'[t] \in {"idle", "launching", "awaiting"}
    BY <1>7 DEF Stop, Shutdown, Launch, ShutdownReturns, Quiet, UseInv, PoolInv, TypeOK
  <2>2. \A u \in Thread \ {t} : Undisturbed(u)
    BY <1>7, OthersUndisturbed DEF Stop, ThreadStep, UseInv, PoolInv
  <2>3. stage[t] = "out" /\ using[t] = {}
    BY <2>1 DEF UseInv, OneEach, HoldsOne, Lending, OutsidePool, UseTypeOK, Stages
  <2>4. OneEach'
    BY <2>1, <2>2, <2>3, OthersHold DEF OneEach, HoldsOne, UseInv, useVars
  <2>5. UseTypeOK' /\ OutsidePool' /\ UsesStaged' /\ TxOwned'
    BY <1>1, <2>1, <2>2, <2>3 DEF Undisturbed, UseInv, UseTypeOK, OutsidePool, UsesStaged,
                                 TxOwned, useVars
  <2>. QED BY <1>1, <2>4, <2>5 DEF UseInv
<1>. QED BY <1>2, <1>3, <1>4, <1>5, <1>6, <1>7 DEF UseNext

THEOREM UseInvariant == UseSpec => []UseInv
<1>1. UseInit => UseInv
  BY InitInv DEF UseInit, UseInv, UseTypeOK, Stages, OutsidePool, UsesStaged, OneEach, HoldsOne,
     TxOwned, PoolInv, Init
<1>2. UseInv /\ [UseNext]_allVars => UseInv'
  BY UseNextInv
<1>. QED BY <1>1, <1>2, PTL DEF UseSpec

-------------------------------------------------------------------------------
\* For any number of threads and connections, and operations of every kind, called
\* with and without a connection: none waits in the queue with a transaction open.
THEOREM ReturnsClean == UseSpec => []CleanReturn
<1>1. UseInv => CleanReturn
  BY DEF UseInv, TxOwned, PoolInv, Ownership, CleanReturn
<1>2. UseSpec => []UseInv
  BY UseInvariant
<1>. QED BY <1>1, <1>2, PTL
===============================================================================
