----------------------------- MODULE AccessProofs ----------------------------
(***************************************************************************)
(* Proofs about Access, for any set of users, any number of goroutines,    *)
(* orders, failed reads and restarts.                                      *)
(*                                                                         *)
(* A statement's effect on a row is settled once, in EffectType and the    *)
(* lemmas after it; that decisions survive then needs nothing beside the   *)
(* types: each writer of a row either makes the decision, or keeps what    *)
(* the decision is about, or has the user among the overtaken.             *)
(***************************************************************************)
EXTENDS Access, SequenceTheorems, TLAPS

\* What one user's row says of the decision about him.
Survives(u) ==
    IF decided[u] = None
    THEN row[u] = None \/ row[u].role = "user" \/ Privileged(u)
    ELSE /\ row[u] # None /\ row[u].limit = decided[u].limit
         /\ ~Privileged(u) /\ decided[u].role \in {"user", "authorized"} =>
              row[u].role = decided[u].role

\* A goroutine that handles an update knows whose it is; one that obeys has an order.
Addressed ==
    \A h \in Handlers :
      /\ job[h].pc # "idle" => job[h].from \in Users
      /\ job[h].pc = "obey" => job[h].cmd \in Orders

Types == TypeOK /\ Addressed

-----------------------------------------------------------------------------
\* What an upsert leaves is a row.
LEMMA UpsertType ==
  ASSUME NEW old \in Row \cup {None}, NEW s, s.op = "upsert",
         s.role \in Roles, s.limit \in Limits, s.expiry \in Expiries
  PROVE  Effect(old, s) = Upsert(old, s) /\ Upsert(old, s) \in Row
<1>1. (old # None /\ old.key) \in BOOLEAN
  BY DEF Row
<1>2. Upsert(old, s) \in Row
  BY <1>1 DEF Upsert, Roles, Row
<1> QED
  BY <1>2 DEF Effect

\* A statement leaves a row or none.
LEMMA EffectType ==
  ASSUME NEW old \in Row \cup {None}, NEW s \in Statements
  PROVE  Effect(old, s) \in Row \cup {None}
<1>1. CASE s.op = "upsert"
  BY <1>1, UpsertType DEF Statements
<1>2. CASE s.op = "language"
  <2>1. [role |-> "user", limit |-> "zero", expiry |-> "never", key |-> FALSE] \in Row
    BY DEF Row, Roles, Limits, Expiries
  <2> QED
    BY <1>2, <2>1 DEF Effect
<1>3. CASE s.op = "delete"
  BY <1>3 DEF Effect
<1>4. CASE s.op \in {"role", "limit", "expiry", "key"} /\ old = None
  BY <1>4 DEF Effect
<1>5. CASE s.op \in {"role", "limit", "expiry", "key"} /\ old # None
  <2>1. old \in Row /\ Effect(old, s) = Update(old, s)
    BY <1>5 DEF Effect
  <2>2. CASE s.op = "role"
    <3>1. s.role \in Roles
      BY <2>2 DEF Statements
    <3> QED
      BY <2>1, <2>2, <3>1 DEF Update, Row
  <2>3. CASE s.op = "limit"
    BY <2>1, <2>3 DEF Update, Row, Limits
  <2>4. CASE s.op = "expiry"
    BY <2>1, <2>4 DEF Update, Row, Expiries
  <2>5. CASE s.op = "key"
    BY <2>1, <2>5 DEF Update, Row
  <2> QED
    BY <1>5, <2>2, <2>3, <2>4, <2>5
<1> QED
  BY <1>1, <1>2, <1>3, <1>4, <1>5 DEF Statements

\* Every order is a statement.
LEMMA OrdersAreStatements == Orders \subseteq Statements /\ Orders \subseteq Commands
<1>1. {Grant(u) : u \in Users} \subseteq Statements
  BY DEF Grant, Statements, Roles, Limits, Expiries
<1>2. Revoke \subseteq Statements /\ SetRole \subseteq Statements
  BY DEF Revoke, SetRole, Statements, Roles
<1>3. RemoveUser \cup SetLimit \cup SetExpire \subseteq Statements
  BY DEF RemoveUser, SetLimit, SetExpire, Statements
<1> QED
  BY <1>1, <1>2, <1>3 DEF Orders, OwnersOrders, AdminsOrders, Commands

LEMMA IdleType == Idle \in Jobs
  BY DEF Idle, Jobs, Start, Commands

\* SyncUser writes an upsert of proper values.
LEMMA SyncedType ==
  ASSUME NEW u \in Users, NEW seen \in Row \cup {None}
  PROVE  Synced(u, seen) \in Statements
<1>1. SyncedRole(u, seen) \in Roles
  BY DEF SyncedRole, Roles
<1>2. (IF seen # None THEN seen.limit ELSE "default") \in Limits
  BY DEF Row, Limits
<1> QED
  BY <1>1, <1>2 DEF Synced, Statements, Expiries

\* What the dashboard's requests consist of.
LEMMA CreateUserType ==
  ASSUME NEW u \in Users, NEW r \in {"authorized", "admin"}, NEW e \in {"never", "ahead"}
  PROVE  CreateUser(u, r, e) \in Seq(Statements)
<1>1. [op |-> "upsert", user |-> u, role |-> r, limit |-> "own", expiry |-> e] \in Statements
  BY DEF Statements, Roles, Limits, Expiries
<1>2. [op |-> "key", user |-> u] \in Statements
  BY DEF Statements
<1> QED
  BY <1>1, <1>2 DEF CreateUser

LEMMA UpdateUserType ==
  ASSUME NEW u \in Users, NEW r \in {None, "user", "authorized", "admin"},
         NEW e \in {"never", "ahead"}, NEW rotate \in BOOLEAN
  PROVE  UpdateUser(u, r, e, rotate) \in Seq(Statements)
<1>1. /\ [op |-> "limit", user |-> u] \in Statements
      /\ [op |-> "expiry", user |-> u] \in Statements
      /\ [op |-> "key", user |-> u] \in Statements
  BY DEF Statements
<1>2. r # None => [op |-> "role", user |-> u, role |-> r] \in Statements
  BY DEF Statements, Roles
<1> DEFINE A == IF r = None THEN <<>> ELSE <<[op |-> "role", user |-> u, role |-> r]>>
           B == <<[op |-> "limit", user |-> u]>>
           C == IF e = "never" THEN <<>> ELSE <<[op |-> "expiry", user |-> u]>>
           D == IF rotate THEN <<[op |-> "key", user |-> u]>> ELSE <<>>
<1>3. A \in Seq(Statements)
  BY <1>2
<1>4. B \in Seq(Statements) /\ C \in Seq(Statements) /\ D \in Seq(Statements)
  BY <1>1
<1> HIDE DEF A, B, C, D
<1>5. A \o B \in Seq(Statements)
  BY <1>3, <1>4, ConcatProperties
<1>6. A \o B \o C \in Seq(Statements)
  BY <1>4, <1>5, ConcatProperties
<1>7. A \o B \o C \o D \in Seq(Statements)
  BY <1>4, <1>6, ConcatProperties
<1> QED
  BY <1>7 DEF A, B, C, D, UpdateUser

LEMMA DeleteUserType ==
  ASSUME NEW u \in Users
  PROVE  DeleteUser(u) \in Seq(Statements)
<1>1. [op |-> "delete", user |-> u] \in Statements
  BY DEF Statements
<1> QED
  BY <1>1 DEF DeleteUser

\* An order keeps the types.
LEMMA DecideType ==
  ASSUME TypeOK, NEW s \in Statements, Decide(s)
  PROVE  /\ row' \in [Users -> Row \cup {None}]
         /\ decided' \in [Users -> Row \cup {None}]
         /\ overtaken' \subseteq Users
<1>1. s.user \in Users
  BY DEF Statements
<1>2. Effect(row[s.user], s) \in Row \cup {None}
  BY <1>1, EffectType DEF TypeOK
<1> QED
  BY <1>1, <1>2 DEF TypeOK, Decide

-----------------------------------------------------------------------------
(***************************************************************************)
(* Types.                                                                  *)
(***************************************************************************)
LEMMA InitType == Init => Types
<1> SUFFICES ASSUME Init PROVE Types
  OBVIOUS
<1>1. \A r \in {"owner", "authorized"} :
        [role |-> r, limit |-> "default", expiry |-> "never", key |-> FALSE] \in Row
  BY DEF Row, Roles, Limits, Expiries
<1>2. row \in [Users -> Row \cup {None}]
  BY <1>1 DEF Init
<1>3. Addressed
  BY DEF Init, Addressed, Idle
<1> QED
  BY <1>2, <1>3, IdleType, AccessConstants DEF Init, Types, TypeOK

LEMMA StepType == Types /\ [Next]_vars => Types'
<1> SUFFICES ASSUME Types, [Next]_vars PROVE Types'
  OBVIOUS
<1> USE AccessConstants
<1>0. TypeOK /\ Addressed
  BY DEF Types
<1>1. ASSUME NEW h \in Handlers, NEW u \in Users, NEW c \in Commands, Admit(h, u, c),
             UNCHANGED listed
      PROVE  Types'
  <2>1. [pc |-> "sync", from |-> u, cmd |-> c, seen |-> None] \in Jobs
    BY DEF Jobs
  <2>2. TypeOK'
    BY <1>0, <1>1, <2>1 DEF TypeOK, Admit
  <2>3. Addressed'
    BY <1>0, <1>1 DEF TypeOK, Addressed, Admit
  <2> QED
    BY <2>2, <2>3 DEF Types
<1>2. ASSUME NEW h \in Handlers, NEW seen \in Row \cup {None}, job[h].pc = "sync",
             job' = [job EXCEPT ![h].pc = "write", ![h].seen = seen],
             faults' \in 0..MaxFaults,
             UNCHANGED <<row, web, decided, overtaken, orders, boots, listed>>
      PROVE  Types'
  <2>1. job[h] \in Jobs /\ job[h].from \in Users
    BY <1>0, <1>2 DEF TypeOK, Addressed
  <2>2. job' \in [Handlers -> Jobs]
    BY <1>0, <1>2, <2>1 DEF TypeOK, Jobs
  <2>3. Addressed'
    BY <1>0, <1>2, <2>1 DEF TypeOK, Addressed, Jobs
  <2> QED
    BY <1>0, <1>2, <2>2, <2>3 DEF TypeOK, Types
<1>3. ASSUME NEW h \in Handlers, SyncWrite(h), UNCHANGED listed
      PROVE  Types'
  <2>1. job[h] \in Jobs /\ job[h].from \in Users
    BY <1>0, <1>3 DEF TypeOK, Addressed, SyncWrite
  <2> DEFINE u == job[h].from
             s == Synced(u, job[h].seen)
  <2>2. s \in Statements /\ row[u] \in Row \cup {None}
    BY <1>0, <2>1, SyncedType DEF Jobs, TypeOK
  <2>3. Effect(row[u], s) \in Row \cup {None}
    BY <2>2, EffectType
  <2>4. row' \in [Users -> Row \cup {None}] /\ overtaken' \subseteq Users
    BY <1>0, <1>3, <2>1, <2>3 DEF TypeOK, SyncWrite
  <2>5. job' \in [Handlers -> Jobs]
    BY <1>0, <1>3, <2>1 DEF TypeOK, SyncWrite, Jobs
  <2>6. Addressed'
    BY <1>0, <1>3, <2>1 DEF TypeOK, Addressed, SyncWrite, Jobs
  <2> QED
    BY <1>0, <1>3, <2>4, <2>5, <2>6 DEF TypeOK, Types, SyncWrite
<1>4. ASSUME NEW h \in Handlers, Serve(h), UNCHANGED listed
      PROVE  Types'
  <2>1. job[h].from \in Users
    BY <1>0, <1>4 DEF Addressed, Serve
  <2>2. [op |-> "language", user |-> job[h].from] \in Statements
    BY <2>1 DEF Statements
  <2>3. row' \in [Users -> Row \cup {None}]
    BY <1>0, <1>4, <2>1, <2>2, EffectType DEF TypeOK, Serve
  <2>4. Addressed'
    BY <1>0, <1>4 DEF TypeOK, Addressed, Serve, Idle
  <2> QED
    BY <1>0, <1>4, <2>3, <2>4, IdleType DEF TypeOK, Types, Serve
<1>5. ASSUME NEW h \in Handlers, CheckRank(h), UNCHANGED listed
      PROVE  Types'
  <2>1. job[h] \in Jobs /\ job[h].from \in Users /\ job[h].cmd \in Orders
    BY <1>0, <1>5 DEF TypeOK, Addressed, CheckRank
  <2>2. \/ job' = [job EXCEPT ![h].pc = "obey"]
        \/ job' = [job EXCEPT ![h] = Idle]
    BY <1>5 DEF CheckRank
  <2>3. job' \in [Handlers -> Jobs]
    BY <1>0, <2>1, <2>2, IdleType DEF TypeOK, Jobs
  <2>4. Addressed'
    <3>1. CASE job' = [job EXCEPT ![h].pc = "obey"]
      BY <1>0, <2>1, <3>1 DEF TypeOK, Addressed, Jobs
    <3>2. CASE job' = [job EXCEPT ![h] = Idle]
      BY <1>0, <3>2 DEF TypeOK, Addressed, Idle
    <3> QED
      BY <2>2, <3>1, <3>2
  <2> QED
    BY <1>0, <1>5, <2>3, <2>4 DEF TypeOK, Types, CheckRank
<1>6. ASSUME NEW h \in Handlers, Obey(h), UNCHANGED listed
      PROVE  Types'
  <2>1. job[h].cmd \in Statements
    BY <1>0, <1>6, OrdersAreStatements DEF Addressed, Obey
  <2>2. /\ row' \in [Users -> Row \cup {None}]
        /\ decided' \in [Users -> Row \cup {None}]
        /\ overtaken' \subseteq Users
    BY <1>0, <1>6, <2>1, DecideType DEF Obey
  <2>3. Addressed'
    BY <1>0, <1>6 DEF TypeOK, Addressed, Obey, Idle
  <2> QED
    BY <1>0, <1>6, <2>2, <2>3, IdleType DEF TypeOK, Types, Obey
<1>7. ASSUME WebRequest, UNCHANGED listed
      PROVE  Types'
  <2>1. web' \in Seq(Statements)
    BY <1>7, CreateUserType, UpdateUserType, DeleteUserType DEF WebRequest
  <2>2. Addressed'
    BY <1>0, <1>7 DEF Addressed, WebRequest
  <2> QED
    BY <1>0, <1>7, <2>1, <2>2 DEF TypeOK, Types, WebRequest
<1>8. ASSUME WebStatement, UNCHANGED listed
      PROVE  Types'
  <2>1. Head(web) \in Statements /\ Tail(web) \in Seq(Statements)
    BY <1>0, <1>8, HeadTailProperties DEF TypeOK, WebStatement
  <2>2. /\ row' \in [Users -> Row \cup {None}]
        /\ decided' \in [Users -> Row \cup {None}]
        /\ overtaken' \subseteq Users
    BY <1>0, <1>8, <2>1, DecideType DEF WebStatement
  <2>3. Addressed'
    BY <1>0, <1>8 DEF Addressed, WebStatement
  <2> QED
    BY <1>0, <1>8, <2>1, <2>2, <2>3 DEF TypeOK, Types, WebStatement
<1>9. ASSUME NEW u \in Users, TimePasses(u), UNCHANGED listed
      PROVE  Types'
  <2>1. row[u] \in Row
    BY <1>0, <1>9 DEF TypeOK, TimePasses
  <2>2. [row[u] EXCEPT !.expiry = "passed"] \in Row
    BY <2>1 DEF Row, Expiries
  <2>3. row' \in [Users -> Row \cup {None}]
    BY <1>0, <1>9, <2>2 DEF TypeOK, TimePasses
  <2>4. decided' \in [Users -> Row \cup {None}]
    <3>1. CASE decided[u] # None /\ decided[u].expiry = "ahead"
      <4>1. decided[u] \in Row
        BY <1>0, <3>1 DEF TypeOK
      <4>2. [decided[u] EXCEPT !.expiry = "passed"] \in Row
        BY <4>1 DEF Row, Expiries
      <4> QED
        BY <1>0, <1>9, <3>1, <4>2 DEF TypeOK, TimePasses
    <3>2. CASE ~(decided[u] # None /\ decided[u].expiry = "ahead")
      BY <1>0, <1>9, <3>2 DEF TypeOK, TimePasses
    <3> QED
      BY <3>1, <3>2
  <2>5. Addressed'
    BY <1>0, <1>9 DEF Addressed, TimePasses
  <2> QED
    BY <1>0, <1>9, <2>3, <2>4, <2>5 DEF TypeOK, Types, TimePasses
<1>10. ASSUME Reboot, UNCHANGED listed
      PROVE  Types'
  <2>1. \A u \in Users, r \in {"owner", "authorized"} :
          [op |-> "upsert", user |-> u, limit |-> "default", role |-> r,
           expiry |-> "never"] \in Statements
    BY DEF Statements, Roles, Limits, Expiries
  <2>2. \A u \in Users : row'[u] \in Row \cup {None}
    BY <1>0, <1>10, <2>1, EffectType DEF TypeOK, Reboot
  <2>3. row' \in [Users -> Row \cup {None}]
    BY <1>10, <2>2 DEF Reboot
  <2>4. Addressed'
    BY <1>10 DEF Addressed, Reboot, Idle
  <2>5. web' \in Seq(Statements) /\ job' \in [Handlers -> Jobs] /\ overtaken' \subseteq Users
    BY <1>0, <1>10, IdleType DEF Reboot, TypeOK
  <2> QED
    BY <1>0, <1>10, <2>3, <2>4, <2>5 DEF TypeOK, Types, Reboot
<1>11. ASSUME UNCHANGED vars
      PROVE  Types'
  BY <1>0, <1>11 DEF vars, Types, TypeOK, Addressed
<1>12. ASSUME NEW h \in Handlers, SyncRead(h) \/ SyncReadFails(h), UNCHANGED listed
      PROVE  Types'
  <2>1. CASE SyncRead(h)
    <3>1. job[h].from \in Users
      BY <1>0, <2>1 DEF Addressed, SyncRead
    <3>2. row[job[h].from] \in Row \cup {None}
      BY <1>0, <3>1 DEF TypeOK
    <3> QED
      BY <1>0, <1>2, <1>12, <2>1, <3>2 DEF SyncRead, TypeOK
  <2>2. CASE SyncReadFails(h)
    <3>1. faults' \in 0..MaxFaults
      BY <1>0, <2>2 DEF SyncReadFails, TypeOK
    <3>2. job' = [job EXCEPT ![h].pc = "write", ![h].seen = None]
      BY <2>2 DEF SyncReadFails
    <3> QED
      BY <1>2, <1>12, <2>2, <3>1, <3>2 DEF SyncReadFails
  <2> QED
    BY <1>12, <2>1, <2>2
<1> QED
  BY <1>1, <1>3, <1>4, <1>5, <1>6, <1>7, <1>8, <1>9, <1>10, <1>11, <1>12 DEF Next, Step

\* Types, for any set of users and any number of goroutines: a restart, a failed read or
\* a deleted row leaves no table, request or goroutine in a state the code has none for.
THEOREM TypeCorrect == Spec => []TypeOK
<1>1. Types => TypeOK
  BY DEF Types
<1> QED
  BY <1>1, InitType, StepType, PTL DEF Spec

-----------------------------------------------------------------------------
(***************************************************************************)
(* Decisions.                                                              *)
(***************************************************************************)
\* A sender's row written from a reading that is still true says of the decision what it
\* said before.
LEMMA SyncKeeps ==
  ASSUME TypeOK, NEW u \in Users, Survives(u),
         NEW r, r = Effect(row[u], Synced(u, row[u]))
  PROVE  IF decided[u] = None
         THEN r = None \/ r.role = "user" \/ Privileged(u)
         ELSE /\ r # None /\ r.limit = decided[u].limit
              /\ ~Privileged(u) /\ decided[u].role \in {"user", "authorized"} =>
                   r.role = decided[u].role
<1> USE AccessConstants
<1> DEFINE s == Synced(u, row[u])
<1>1. row[u] \in Row \cup {None} /\ s \in Statements /\ s.op = "upsert"
  BY SyncedType DEF TypeOK, Synced
<1>2. s.role \in Roles /\ s.limit \in Limits /\ s.expiry \in Expiries
  <2>1. SyncedRole(u, row[u]) \in Roles
    BY DEF SyncedRole, Roles
  <2> QED
    BY <1>1, <2>1 DEF Synced, Row, Limits, Expiries
<1>3. r = Upsert(row[u], s) /\ r \in Row
  BY <1>1, <1>2, UpsertType
<1>4. /\ r.limit = IF row[u] # None THEN row[u].limit ELSE "default"
      /\ r.role = IF row[u] # None /\ row[u].role = "owner" THEN "owner"
                  ELSE SyncedRole(u, row[u])
  BY <1>3 DEF Upsert, Synced
<1> QED
  BY <1>1, <1>3, <1>4 DEF Survives, SyncedRole, Privileged

\* Every step leaves decisions in force, or has the user among the overtaken.
LEMMA StepSurvives == Types /\ DecisionsSurvive /\ [Next]_vars => DecisionsSurvive'
<1> SUFFICES ASSUME Types, DecisionsSurvive, [Next]_vars,
                    NEW u \in Users, u \notin overtaken'
             PROVE  Survives(u)'
  BY DEF DecisionsSurvive, Survives
<1> USE AccessConstants
<1>0. TypeOK /\ Addressed
  BY DEF Types
<1>1. ASSUME UNCHANGED <<row, decided, overtaken, listed>>
      PROVE  Survives(u)'
  BY <1>1 DEF DecisionsSurvive, Survives, Privileged
<1>2. ASSUME NEW s \in Statements, Decide(s), UNCHANGED listed
      PROVE  Survives(u)'
  <2>1. CASE u = s.user
    BY <1>0, <1>2, <2>1 DEF Decide, Survives, TypeOK
  <2>2. CASE u # s.user
    <3>1. row'[u] = row[u] /\ decided'[u] = decided[u] /\ u \notin overtaken
      BY <1>0, <1>2, <2>2 DEF Decide, TypeOK
    <3> QED
      BY <1>2, <3>1 DEF DecisionsSurvive, Survives, Privileged
  <2> QED
    BY <2>1, <2>2
<1>3. ASSUME NEW h \in Handlers, SyncWrite(h), UNCHANGED listed
      PROVE  Survives(u)'
  <2>1. u \notin overtaken /\ Survives(u)
    BY <1>3 DEF SyncWrite, DecisionsSurvive, Survives
  <2>2. CASE u = job[h].from
    <3>1. job[h].seen = row[u]
      BY <1>3, <2>2 DEF SyncWrite
    <3>2. row'[u] = Effect(row[u], Synced(u, row[u]))
      BY <1>0, <1>3, <2>2, <3>1 DEF SyncWrite, TypeOK
    <3>3. decided' = decided /\ listed' = listed
      BY <1>3 DEF SyncWrite
    <3> QED
      BY <1>0, <2>1, <3>2, <3>3, SyncKeeps DEF Survives, Privileged
  <2>3. CASE u # job[h].from
    <3>1. row'[u] = row[u] /\ decided' = decided
      BY <1>0, <1>3, <2>3 DEF SyncWrite, TypeOK
    <3> QED
      BY <1>3, <2>1, <3>1 DEF Survives, Privileged
  <2> QED
    BY <2>2, <2>3
<1>4. ASSUME NEW h \in Handlers, Serve(h), UNCHANGED listed
      PROVE  Survives(u)'
  <2>1. u \notin overtaken /\ Survives(u) /\ decided' = decided
    BY <1>4 DEF Serve, DecisionsSurvive, Survives
  <2>2. CASE row'[u] = row[u]
    BY <1>4, <2>1, <2>2 DEF Survives, Privileged
  <2>3. CASE row'[u] # row[u]
    <3> DEFINE s == [op |-> "language", user |-> job[h].from]
    <3>1. u = job[h].from /\ row'[u] = Effect(row[u], s)
      BY <1>0, <1>4, <2>3 DEF Serve, TypeOK
    <3>2. row[u] = None /\ row'[u].role = "user"
      BY <2>3, <3>1 DEF Effect
    <3> QED
      BY <2>1, <3>2 DEF Survives
  <2> QED
    BY <2>2, <2>3
<1>5. ASSUME NEW v \in Users, TimePasses(v), UNCHANGED listed
      PROVE  Survives(u)'
  <2>1. u \notin overtaken /\ Survives(u)
    BY <1>5 DEF TimePasses, DecisionsSurvive, Survives
  <2>2. row[v] \in Row /\ (decided[v] # None => decided[v] \in Row)
    BY <1>0, <1>5 DEF TimePasses, TypeOK
  <2>3. \/ row'[u] = row[u]
        \/ row[u] \in Row /\ row'[u] = [row[u] EXCEPT !.expiry = "passed"]
    BY <1>0, <1>5, <2>2 DEF TimePasses, TypeOK
  <2>4. \/ decided'[u] = decided[u]
        \/ decided[u] \in Row /\ decided'[u] = [decided[u] EXCEPT !.expiry = "passed"]
    BY <1>0, <1>5, <2>2 DEF TimePasses, TypeOK
  <2>5. \A r \in Row : /\ [r EXCEPT !.expiry = "passed"] \in Row
                       /\ [r EXCEPT !.expiry = "passed"].role = r.role
                       /\ [r EXCEPT !.expiry = "passed"].limit = r.limit
    BY DEF Row, Expiries
  <2> QED
    BY <1>5, <2>1, <2>3, <2>4, <2>5 DEF Survives, Privileged
<1>6. ASSUME Reboot, UNCHANGED listed
      PROVE  Survives(u)'
  <2>1. u \notin overtaken /\ ~Privileged(u) /\ row'[u] = row[u] /\ decided' = decided
    BY <1>6 DEF Reboot
  <2> QED
    BY <1>6, <2>1 DEF DecisionsSurvive, Survives, Privileged
<1>7. ASSUME NEW h \in Handlers, Obey(h), UNCHANGED listed
      PROVE  Survives(u)'
  <2>1. job[h].cmd \in Statements
    BY <1>0, <1>7, OrdersAreStatements DEF Addressed, Obey
  <2> QED
    BY <1>2, <1>7, <2>1 DEF Obey
<1>8. ASSUME WebStatement, UNCHANGED listed
      PROVE  Survives(u)'
  <2>1. Head(web) \in Statements
    BY <1>0, <1>8, HeadTailProperties DEF TypeOK, WebStatement
  <2> QED
    BY <1>2, <1>8, <2>1 DEF WebStatement
<1> QED
  BY <1>1, <1>3, <1>4, <1>5, <1>6, <1>7, <1>8
     DEF Next, Step, vars, Admit, SyncRead, SyncReadFails, CheckRank, WebRequest

LEMMA InitSurvives == Init => DecisionsSurvive
  BY AccessConstants DEF Init, DecisionsSurvive, Privileged

\* Decisions outlast messages: whoever sends, and however orders, failed reads and
\* restarts fall between the statements of SyncUser, limits stay, and so do the role
\* authorized and access withdrawn, except for users whose row was written from a reading
\* no longer true.
THEOREM DecisionsStand == Spec => []DecisionsSurvive
<1> QED
  BY InitType, StepType, InitSurvives, StepSurvives, PTL DEF Spec
=============================================================================
