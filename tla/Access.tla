------------------------------- MODULE Access -------------------------------
(***************************************************************************)
(* Who may use the bot: the rows of the table users, the synchronisation   *)
(* of a sender's row that precedes every command and button, the orders of *)
(* the owner and of administrators, the dashboard's user page, and the     *)
(* rows the process writes when it starts (polling.go, webhook.go,         *)
(* router.go, bot_service.go, auth_service.go, admin/auth.go, users.go).   *)
(*                                                                         *)
(* A row is read in one statement and written back whole in another, by    *)
(* goroutines of which each handles one update: an order that comes in     *)
(* between is lost.  Names, dates and numbers are reduced to what the      *)
(* checks tell apart.                                                      *)
(***************************************************************************)
EXTENDS Naturals, Sequences

CONSTANTS
    Users,      \* Telegram accounts
    Owner,      \* OWNER_ID
    Handlers,   \* goroutines that handle updates
    MaxOrders,  \* orders given by people
    MaxFaults,  \* reads of the database that fail
    MaxBoots,   \* restarts of the process
    None

Roles == {"user", "authorized", "admin", "owner"}

\* "default" is what the configuration says, "own" what an order set, "zero" what
\* SetLanguage writes into a row it has to create.
Limits == {"default", "own", "zero"}

\* No date; a date to come; a date that has passed.
Expiries == {"never", "ahead", "passed"}

Row == [role : Roles, limit : Limits, expiry : Expiries, key : BOOLEAN]

ASSUME AccessConstants ==
    /\ Owner \in Users
    /\ MaxOrders \in Nat /\ MaxFaults \in Nat /\ MaxBoots \in Nat
    /\ None \notin Users \cup Row \cup Roles

\* The statements that change a row.
Statements ==
    [op : {"upsert"}, user : Users, role : Roles, limit : Limits, expiry : Expiries]
      \cup [op : {"role"}, user : Users, role : Roles]
      \cup [op : {"limit", "expiry", "delete", "key", "language"}, user : Users]

\* What a person can ask for in a message: each order is one statement.
Grant(u) == [op |-> "upsert", user |-> u, role |-> "authorized", limit |-> "default",
             expiry |-> "never"]
Revoke == [op : {"role"}, user : Users, role : {"user"}]
RemoveUser == [op : {"delete"}, user : Users \ {Owner}]
SetRole == [op : {"role"}, user : Users \ {Owner}, role : {"user", "authorized", "admin"}]
SetLimit == [op : {"limit"}, user : Users]
SetExpire == [op : {"expiry"}, user : Users]

OwnersOrders == {Grant(u) : u \in Users} \cup Revoke
AdminsOrders == RemoveUser \cup SetRole \cup SetLimit \cup SetExpire
Orders == OwnersOrders \cup AdminsOrders
Start == [op |-> "start"]
Commands == [op : {"start", "lang", "other"}] \cup Orders

VARIABLES
    listed,     \* AUTHORIZED_USERS, as the operator has configured it
    row,        \* the table users
    job,        \* per goroutine: the update it handles and how far it is
    web,        \* statements the dashboard's request has still to execute
    decided,    \* per user: the last decision of a person, None if there is none in force
    overtaken,  \* users whose row was written from a reading that was no longer true
    orders, faults, boots

vars == <<listed, row, job, web, decided, overtaken, orders, faults, boots>>

Idle == [pc |-> "idle", from |-> None, cmd |-> Start, seen |-> None]
Jobs ==
    [pc : {"idle", "sync", "write", "handle", "obey"}, from : Users \cup {None},
     cmd : Commands, seen : Row \cup {None}]

Privileged(u) == u = Owner \/ u \in listed

(***************************************************************************)
(* What the checks read.                                                   *)
(***************************************************************************)
IsActive(u) == row[u] # None /\ row[u].expiry # "passed"
IsAuthorized(u) == u = Owner \/ (IsActive(u) /\ row[u].role # "user")
IsAdmin(u) == u = Owner \/ (IsActive(u) /\ row[u].role \in {"admin", "owner"})

(***************************************************************************)
(* Statements.  An upsert leaves the role of an 'owner' and the API key    *)
(* alone; an update of a row that is not there changes nothing.            *)
(***************************************************************************)
Upsert(old, s) ==
    [role |-> IF old # None /\ old.role = "owner" THEN "owner" ELSE s.role,
     limit |-> s.limit, expiry |-> s.expiry, key |-> old # None /\ old.key]

Update(old, s) ==
    CASE s.op = "role" -> [old EXCEPT !.role = s.role]
      [] s.op = "limit" -> [old EXCEPT !.limit = "own"]
      [] s.op = "expiry" -> [old EXCEPT !.expiry = "ahead"]
      [] s.op = "key" -> [old EXCEPT !.key = TRUE]

Effect(old, s) ==
    CASE s.op = "upsert" -> Upsert(old, s)
      [] s.op = "language" ->
           IF old = None THEN [role |-> "user", limit |-> "zero", expiry |-> "never",
                               key |-> FALSE]
                         ELSE old
      [] s.op = "delete" -> None
      [] s.op \in {"role", "limit", "expiry", "key"} ->
           IF old = None THEN None ELSE Update(old, s)

\* The statement as a person's decision: from now on the row is to say what it
\* says now.  An update of a missing row decides nothing.
Decide(s) ==
    /\ row' = [row EXCEPT ![s.user] = Effect(@, s)]
    /\ decided' = [decided EXCEPT ![s.user] = row'[s.user]]
    /\ overtaken' = overtaken \ {s.user}

Init ==
    /\ listed \in SUBSET (Users \ {Owner})
    /\ row = [u \in Users |->
                IF u = Owner
                THEN [role |-> "owner", limit |-> "default", expiry |-> "never", key |-> FALSE]
                ELSE IF u \in listed
                THEN [role |-> "authorized", limit |-> "default", expiry |-> "never",
                      key |-> FALSE]
                ELSE None]
    /\ job = [h \in Handlers |-> Idle]
    /\ web = <<>>
    /\ decided = row
    /\ overtaken = {}
    /\ orders = 0 /\ faults = 0 /\ boots = 0

-----------------------------------------------------------------------------
(***************************************************************************)
(* An update of a sender.                                                  *)
(***************************************************************************)
\* The poller, or the webhook's goroutine, lets an update through.  /start and the
\* help buttons need no authorization.
Admit(h, u, c) ==
    /\ job[h].pc = "idle"
    /\ IsAuthorized(u) \/ c = Start
    /\ c \in Orders => orders < MaxOrders
    /\ orders' = IF c \in Orders THEN orders + 1 ELSE orders
    /\ job' = [job EXCEPT ![h] = [pc |-> "sync", from |-> u, cmd |-> c, seen |-> None]]
    /\ UNCHANGED <<row, web, decided, overtaken, faults, boots>>

\* SyncUser reads the sender's row.
SyncRead(h) ==
    /\ job[h].pc = "sync"
    /\ job' = [job EXCEPT ![h].pc = "write", ![h].seen = row[job[h].from]]
    /\ UNCHANGED <<row, web, decided, overtaken, orders, faults, boots>>

\* The read fails (a busy database): SyncUser goes on as if there were no row.
SyncReadFails(h) ==
    /\ job[h].pc = "sync"
    /\ faults < MaxFaults
    /\ faults' = faults + 1
    /\ job' = [job EXCEPT ![h].pc = "write", ![h].seen = None]
    /\ UNCHANGED <<row, web, decided, overtaken, orders, boots>>

\* SyncUser's new row: the role is computed anew and only "owner" and
\* "authorized" are kept, limits are kept, the date of expiry is not.
SyncedRole(u, seen) ==
    IF seen # None /\ seen.role \in {"owner", "authorized"} THEN seen.role
    ELSE IF u = Owner THEN "owner"
    ELSE IF u \in listed THEN "authorized"
    ELSE "user"

\* A row with the configuration's limits each time.
SyncedForgetsLimit(u, seen) ==
    [op |-> "upsert", user |-> u, role |-> SyncedRole(u, seen), limit |-> "default",
     expiry |-> "never"]

Synced(u, seen) ==
    [op |-> "upsert", user |-> u, role |-> SyncedRole(u, seen),
     limit |-> IF seen # None THEN seen.limit ELSE "default", expiry |-> "never"]

SyncWrite(h) ==
    /\ job[h].pc = "write"
    /\ LET u == job[h].from IN
         /\ row' = [row EXCEPT ![u] = Effect(@, Synced(u, job[h].seen))]
         /\ overtaken' = IF job[h].seen = row[u] THEN overtaken ELSE overtaken \cup {u}
    /\ job' = [job EXCEPT ![h].pc = "handle", ![h].seen = None]
    /\ UNCHANGED <<web, decided, orders, faults, boots>>

\* Commands that change nobody's rights; /language stores the choice.
Serve(h) ==
    /\ job[h].pc = "handle"
    /\ job[h].cmd \notin Orders
    /\ LET s == [op |-> "language", user |-> job[h].from] IN
         row' = IF job[h].cmd.op = "lang" THEN [row EXCEPT ![s.user] = Effect(@, s)] ELSE row
    /\ job' = [job EXCEPT ![h] = Idle]
    /\ UNCHANGED <<web, decided, overtaken, orders, faults, boots>>

\* /authorize and /unauth are the owner's, the other orders an administrator's;
\* IsAdmin reads the sender's row once more.
CheckRank(h) ==
    /\ job[h].pc = "handle"
    /\ job[h].cmd \in Orders
    /\ LET ok == \/ job[h].cmd \in OwnersOrders /\ job[h].from = Owner
                 \/ job[h].cmd \in AdminsOrders /\ IsAdmin(job[h].from)
       IN job' = [job EXCEPT ![h] = IF ok THEN [@ EXCEPT !.pc = "obey"] ELSE Idle]
    /\ UNCHANGED <<row, web, decided, overtaken, orders, faults, boots>>

Obey(h) ==
    /\ job[h].pc = "obey"
    /\ Decide(job[h].cmd)
    /\ job' = [job EXCEPT ![h] = Idle]
    /\ UNCHANGED <<web, orders, faults, boots>>

-----------------------------------------------------------------------------
(***************************************************************************)
(* The dashboard's user page: a request is several statements, one after   *)
(* the other, without a transaction.                                       *)
(***************************************************************************)
\* A page that leaves the role out, and a handler that puts none in its place.
CreateUserWithoutRole(u, r, e) ==
    <<[op |-> "upsert", user |-> u, role |-> "", limit |-> "own", expiry |-> e],
      [op |-> "key", user |-> u]>>

CreateUser(u, r, e) ==
    <<[op |-> "upsert", user |-> u, role |-> r, limit |-> "own", expiry |-> e],
      [op |-> "key", user |-> u]>>

\* Role, date and key are in the request or not; the limits always are.
UpdateUser(u, r, e, rotate) ==
    (IF r = None THEN <<>> ELSE <<[op |-> "role", user |-> u, role |-> r]>>)
      \o <<[op |-> "limit", user |-> u]>>
      \o (IF e = "never" THEN <<>> ELSE <<[op |-> "expiry", user |-> u]>>)
      \o (IF rotate THEN <<[op |-> "key", user |-> u]>> ELSE <<>>)

\* Only a deletion of the owner is refused.
DeleteUser(u) == IF u = Owner THEN <<>> ELSE <<[op |-> "delete", user |-> u]>>

WebRequest ==
    /\ web = <<>>
    /\ orders < MaxOrders
    /\ \E u \in Users :
         \/ \E r \in {"authorized", "admin"}, e \in {"never", "ahead"} : web' = CreateUser(u, r, e)
         \/ \E r \in {None, "user", "authorized", "admin"}, e \in {"never", "ahead"}, rotate \in BOOLEAN :
              web' = UpdateUser(u, r, e, rotate)
         \/ web' = DeleteUser(u)
    /\ orders' = orders + 1
    /\ UNCHANGED <<row, job, decided, overtaken, faults, boots>>

WebStatement ==
    /\ web # <<>>
    /\ Decide(Head(web))
    /\ web' = Tail(web)
    /\ UNCHANGED <<job, orders, faults, boots>>

-----------------------------------------------------------------------------
TimePasses(u) ==
    /\ row[u] # None /\ row[u].expiry = "ahead"
    /\ row' = [row EXCEPT ![u].expiry = "passed"]
    /\ decided' = IF decided[u] # None /\ decided[u].expiry = "ahead"
                  THEN [decided EXCEPT ![u].expiry = "passed"] ELSE decided
    /\ UNCHANGED <<job, web, overtaken, orders, faults, boots>>

\* The process dies and starts again; NewBotService writes the rows of the owner
\* and of AUTHORIZED_USERS with the configuration's limits.
Reboot ==
    /\ boots < MaxBoots
    /\ boots' = boots + 1
    /\ row' = [u \in Users |->
                IF Privileged(u)
                THEN Effect(row[u], [op |-> "upsert", user |-> u, limit |-> "default",
                                     role |-> IF u = Owner THEN "owner" ELSE "authorized",
                                     expiry |-> "never"])
                ELSE row[u]]
    /\ overtaken' = overtaken \cup {u \in Users : Privileged(u)}
    /\ job' = [h \in Handlers |-> Idle]
    /\ web' = <<>>
    /\ UNCHANGED <<decided, orders, faults>>

Step ==
    \/ \E h \in Handlers :
         \/ \E u \in Users, c \in Commands : Admit(h, u, c)
         \/ SyncRead(h) \/ SyncReadFails(h) \/ SyncWrite(h)
         \/ Serve(h) \/ CheckRank(h) \/ Obey(h)
    \/ WebRequest \/ WebStatement
    \/ \E u \in Users : TimePasses(u)
    \/ Reboot

Next == Step /\ UNCHANGED listed

Spec == Init /\ [][Next]_vars

-----------------------------------------------------------------------------
(***************************************************************************)
(* Properties.                                                             *)
(***************************************************************************)
TypeOK ==
    /\ listed \subseteq Users \ {Owner}
    /\ row \in [Users -> Row \cup {None}]
    /\ job \in [Handlers -> Jobs]
    /\ web \in Seq(Statements)
    /\ decided \in [Users -> Row \cup {None}]
    /\ overtaken \subseteq Users
    /\ orders \in 0..MaxOrders /\ faults \in 0..MaxFaults /\ boots \in 0..MaxBoots

\* The user's own messages, and anybody else's, leave a decision about the user in
\* force: limits stay, a user given the role authorized keeps it, a user put out (by
\* /unauth or by removal) stays out, unless the row was written from a reading the
\* decision had overtaken or that had failed.  The role admin (AdminsStay) and the date
\* of expiry are not in it: the user's own next message undoes both.  (The owner and
\* AUTHORIZED_USERS come back in.)
DecisionsSurvive ==
    \A u \in Users \ overtaken :
      LET d == decided[u]
          r == row[u]
      IN IF d = None
         THEN r = None \/ r.role = "user" \/ Privileged(u)
         ELSE /\ r # None /\ r.limit = d.limit
              /\ ~Privileged(u) /\ d.role \in {"user", "authorized"} => r.role = d.role

\* README.md:660: a user given the role admin "can manage users", that is, has the
\* role when the next command comes.
AdminsStay ==
    \A u \in Users \ overtaken :
      ~Privileged(u) /\ decided[u] # None /\ decided[u].role = "admin" => row[u] # None /\ row[u].role = "admin"
=============================================================================
