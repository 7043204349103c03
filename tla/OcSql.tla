------------------------------- MODULE OcSql -------------------------------
(***************************************************************************)
(* The ocsql runtime (esql/ocsql/ocsql2.cpp) as the programs that esqlOC   *)
(* generates call it: connections, the cache of prepared statements, the   *)
(* SQL-PREP flag of every EXEC SQL statement, and cursors.                 *)
(*                                                                         *)
(* The runtime keeps one sConn per connection (number 0 is MConn, the one  *)
(* of an EXEC SQL without AT), one mysql per EXEC SQL statement, which the *)
(* COBOL program points to (SQL-IPTR), and in it one prepared ODBC handle  *)
(* per database name (DBL).  Handles live on the server's side: they die   *)
(* with the ODBC connection (DBC) they were allocated on.                  *)
(***************************************************************************)
EXTENDS Integers, FiniteSets

CONSTANTS
    Stmts,      \* the EXEC SQL statements of the program
    Kind,       \* "static", "indicator" (host variables with an indicator) or "dynamic"
    Cursors,    \* those of them that are cursors
    At,         \* the connection variable each one names, or Main
    Names,      \* the connection variables
    Main,       \* no AT: the connection is MConn
    DBs,        \* database or schema names
    Texts,      \* what a dynamic statement may say
    MaxDbc,     \* bound: ODBC connections ever allocated
    MaxConn,    \* bound: sConn ever allocated for connection variables
    MaxDbs,     \* what OCSQLMAX may have been told; -1 is the default
    NULL

ASSUME OcSqlAssumption ==
    /\ Main \notin Names /\ NULL \notin DBs /\ NULL \notin Texts
    /\ NULL \notin Stmts /\ Texts # {}
    /\ Kind \in [Stmts -> {"static", "indicator", "dynamic"}]
    /\ Cursors \subseteq Stmts
    /\ At \in [Stmts -> Names \cup {Main}]
    /\ MaxDbc \in Nat \ {0} /\ MaxConn \in Nat
    \* so that the table of handles never has to grow past MaxDBCount
    /\ MaxDbs \subseteq {-1} \cup {n \in Nat : n >= Cardinality(DBs)}

VARIABLES
    hEnv,     \* the environment the runtime knows, 0 for none
    envs,     \* external: the environments that are allocated
    dbc,      \* external: the ODBC connections, [st, env, db] (db: of the session)
    conn,     \* the sConn: [used, closed, hDBC, cur] (cur: DBN.dbcurr, by name)
    hConn,    \* the connection variables of the program
    nConn,    \* number of open connections, as the runtime counts
    maxdb,    \* MConn.DBN.maxdb
    prep,     \* SQL-PREP of each statement
    iptr,     \* SQL-IPTR: NULL or [dbn, h], h the handle per database
    text,     \* what each statement says now
    pc,       \* the statement the program is about to execute, or NULL
    ran,      \* the last call's SQLExecute or SQLFetch: [stmt, h]
    orderly   \* history: no CONNECT with a connection open, no name not found

odbc    == <<hEnv, envs, dbc>>
connvar == <<conn, hConn, nConn>>
stmtvar == <<prep, iptr, text>>
vars    == <<odbc, connvar, maxdb, stmtvar, pc, ran, orderly>>

Dbcs  == 1 .. MaxDbc
Conns == 0 .. MaxConn
NoHandle == [dbc |-> 0, db |-> NULL, text |-> NULL]
NoRun    == [stmt |-> NULL, h |-> NoHandle]

Init ==
    /\ hEnv = 0 /\ envs = {}
    /\ dbc = [d \in Dbcs |-> [st |-> "none", env |-> 0, db |-> NULL]]
    /\ conn = [c \in Conns |-> [used |-> c = 0, closed |-> TRUE, hDBC |-> 0, cur |-> NULL]]
    /\ hConn = [n \in Names |-> NULL] /\ nConn = 0
    /\ maxdb \in MaxDbs
    /\ prep = [s \in Stmts |-> "N"] /\ iptr = [s \in Stmts |-> NULL]
    /\ text \in [Stmts -> {CHOOSE t \in Texts : TRUE}]
    /\ pc = NULL /\ ran = NoRun /\ orderly = TRUE

ConnOf(n) == IF n = Main THEN 0 ELSE hConn[n]
Known(n) == ConnOf(n) # NULL   \* the variable was used in a CONNECT
IsOpen(d) == d # 0 /\ dbc[d].st = "open"
OpenDbcs == {d \in Dbcs : dbc[d].st = "open"}

(* Mutation: the environment is forgotten, not freed. *)
FreedEnvNever(known, e, open) == known

(* SQLFreeEnv: refused while a connection of the environment is open. *)
FreedEnv(known, e, open) == IF e \in open THEN known ELSE known \ {e}
EnvsInUse(except) == {dbc[d].env : d \in OpenDbcs \ {except}}

-----------------------------------------------------------------------------
(* OCSQL: CONNECT.  A connection variable gets a new sConn at once; what   *)
(* it named before is lost.  That MConn is open already is told in the     *)
(* SQLCA and then overwritten: the call connects again.                    *)

Connect(n, how) ==
    LET c == IF n = Main THEN 0 ELSE CHOOSE i \in Conns : ~conn[i].used
        d == CHOOSE i \in Dbcs : dbc[i].st = "none"
        e == IF hEnv # 0 THEN hEnv ELSE CHOOSE i \in 1 .. MaxDbc + 1 : i \notin envs
    IN  /\ pc = NULL
        /\ n # Main => \E i \in Conns : ~conn[i].used
        /\ \E i \in Dbcs : dbc[i].st = "none"
        /\ hConn' = IF n = Main THEN hConn ELSE [hConn EXCEPT ![n] = c]
        /\ orderly' = (orderly /\ nConn = 0)
        /\ \/ /\ how = "noenv" /\ hEnv = 0
              /\ conn' = [conn EXCEPT ![c].used = TRUE]
              /\ UNCHANGED <<odbc, nConn>>
           \/ /\ how = "nodbc"
              /\ hEnv' = e /\ envs' = envs \cup {e}
              /\ conn' = [conn EXCEPT ![c].used = TRUE, ![c].hDBC = 0]
              /\ UNCHANGED <<dbc, nConn>>
           \/ /\ how = "refused"
              /\ dbc' = [dbc EXCEPT ![d].st = "freed"]
              /\ conn' = [conn EXCEPT ![c].used = TRUE, ![c].hDBC = d]
              /\ hEnv' = IF n = Main THEN 0 ELSE e
              /\ envs' = IF n = Main THEN FreedEnv(envs \cup {e}, e, EnvsInUse(d))
                         ELSE envs \cup {e}
              /\ UNCHANGED nConn
           \/ /\ how = "ok"
              /\ \E db \in DBs :
                    /\ dbc' = [dbc EXCEPT ![d] = [st |-> "open", env |-> e, db |-> db]]
                    /\ conn' = [conn EXCEPT ![c] = [used |-> TRUE, closed |-> FALSE,
                                                    hDBC |-> d, cur |-> db]]
              /\ hEnv' = e /\ envs' = envs \cup {e}
              /\ nConn' = nConn + 1
        /\ ran' = NoRun
        /\ UNCHANGED <<maxdb, stmtvar, pc>>

(* stmtcache::clear: every mysql is deleted, its handles are freed, and    *)
(* the program's SQL-IPTR and SQL-PREP are reset through COBREF.           *)
Cleared(s) == IF iptr[s] = NULL THEN prep[s] ELSE "N"

(* Mutation: clear without the reference to COBOL memory (before the      *)
(* ChangeLog's 2021-11-14): SQL-PREP and SQL-IPTR are left as they were.   *)
ForgottenKept == iptr
Forgotten == [s \in Stmts |-> NULL]

(* OCSQLDIS: DISCONNECT, and the RELEASE of COMMIT and ROLLBACK. *)
Disconnect(n) ==
    LET c == ConnOf(n)
        d == conn[c].hDBC
        last == nConn = 1
    IN  /\ pc = NULL /\ Known(n) /\ ~conn[c].closed
        /\ nConn' = nConn - 1
        /\ IF last
           THEN /\ prep' = [s \in Stmts |-> Cleared(s)]
                /\ iptr' = Forgotten
                /\ hEnv' = 0 /\ envs' = FreedEnv(envs, hEnv, EnvsInUse(d))
           ELSE UNCHANGED <<prep, iptr, hEnv, envs>>
        /\ dbc' = IF d = 0 THEN dbc ELSE [dbc EXCEPT ![d].st = "freed"]
        /\ conn' = [conn EXCEPT ![c].closed = TRUE]
        /\ ran' = NoRun
        /\ UNCHANGED <<hConn, maxdb, text, pc, orderly>>

(* Mutation: the new current database is not looked up. *)
NotedNever(c, db) == conn

(* OCSQLIMM of SET SCHEMA or USE: the session changes its database, and    *)
(* the runtime asks the server which one is current (getcurrdb).           *)
Noted(c, db) == [conn EXCEPT ![c].cur = db]

SetSchema(n, db, found) ==
    LET c == ConnOf(n)
    IN  /\ pc = NULL /\ Known(n) /\ ~conn[c].closed /\ IsOpen(conn[c].hDBC)
        /\ dbc' = [dbc EXCEPT ![conn[c].hDBC].db = db]
        /\ conn' = IF found THEN Noted(c, db) ELSE conn
        /\ orderly' = (orderly /\ found)
        /\ ran' = NoRun
        /\ UNCHANGED <<hEnv, envs, hConn, nConn, maxdb, stmtvar, pc>>

-----------------------------------------------------------------------------
(* OCSQLPRE.  A statement with an indicator and a PREPARE move 'A' to      *)
(* SQL-PREP first; any other is prepared only IF SQL-PREP = 'N'.           *)

(* DBL: the handle for the database that is current on the connection the  *)
(* statement was first prepared on.                                        *)
HandleOf(p) == IF p = NULL THEN NoHandle ELSE p.h[conn[p.dbn].cur]

(* Mutation: 'A' asks for a new prepare, and the old mysql is kept. *)
DroppedNever(s) == iptr[s]

(* What SQL-IPTR is when the handle is looked for: CS.remove after 'A'. *)
Dropped(s) == IF Kind[s] = "static" THEN iptr[s] ELSE NULL

NewMysql(c) == [dbn |-> c, h |-> [db \in DBs |-> NoHandle]]
Stored(p, h) == [p EXCEPT !.h[conn[p.dbn].cur] = h]

(* The program goes on with the statement, or leaves it to WHENEVER. *)
GoesOn(s) == IF Kind[s] = "dynamic" THEN NULL ELSE s

Asks(s) ==
    /\ pc = NULL /\ Known(At[s])
    /\ Kind[s] = "static" => prep[s] = "N"
    /\ IF Kind[s] = "dynamic" THEN \E t \in Texts : text' = [text EXCEPT ![s] = t]
       ELSE UNCHANGED text
    /\ ran' = NoRun
    /\ UNCHANGED <<odbc, connvar, maxdb, orderly>>

(* The connection is closed: SQL-PREP stays as it is, 'N' or 'A'. *)
PrepareNotConnected(s) ==
    /\ Asks(s) /\ conn[ConnOf(At[s])].closed
    /\ prep' = [prep EXCEPT ![s] = IF Kind[s] = "static" THEN "N" ELSE "A"]
    /\ pc' \in {NULL, GoesOn(s)}
    /\ UNCHANGED iptr

(* There is a handle for the current database: it is used again. *)
PrepareCached(s) ==
    /\ Asks(s) /\ ~conn[ConnOf(At[s])].closed
    /\ HandleOf(Dropped(s)) # NoHandle
    /\ prep' = [prep EXCEPT ![s] = "P"]
    /\ pc' = GoesOn(s)
    /\ UNCHANGED iptr

PrepareNew(s) ==
    LET c == ConnOf(At[s])
        p == IF Dropped(s) = NULL THEN NewMysql(c) ELSE Dropped(s)
    IN  /\ Asks(s) /\ ~conn[c].closed
        /\ HandleOf(Dropped(s)) = NoHandle
        /\ IsOpen(conn[c].hDBC)
        /\ iptr' = [iptr EXCEPT ![s] = Stored(p, [dbc |-> conn[c].hDBC, text |-> text'[s],
                                                  db |-> dbc[conn[c].hDBC].db])]
        /\ prep' = [prep EXCEPT ![s] = "P"]
        /\ pc' = GoesOn(s)

(* The server refuses the statement: 'X', and the mysql is kept. *)
PrepareFails(s) ==
    LET c == ConnOf(At[s])
        p == IF Dropped(s) = NULL THEN NewMysql(c) ELSE Dropped(s)
    IN  /\ Asks(s) /\ ~conn[c].closed
        /\ HandleOf(Dropped(s)) = NoHandle
        /\ iptr' = [iptr EXCEPT ![s] = p]
        /\ prep' = [prep EXCEPT ![s] = "X"]
        /\ pc' \in {NULL, GoesOn(s)}

Prepare(s) ==
    PrepareNotConnected(s) \/ PrepareCached(s) \/ PrepareNew(s) \/ PrepareFails(s)

-----------------------------------------------------------------------------
(* OCSQLEXE and OCSQLOCU: the two treat SQL-PREP and the handle alike.     *)

(* DBL::checkall: prepared for every database the program said there are. *)
CheckAll(p) ==
    /\ p.dbn = 0
    /\ maxdb = Cardinality({db \in DBs : p.h[db] # NoHandle})

Executes(s) ==
    /\ \/ pc = s
       \/ /\ pc = NULL /\ Known(At[s])
          /\ \/ Kind[s] = "static" /\ prep[s] # "N"
             \/ Kind[s] = "dynamic"
    /\ pc' = NULL
    /\ UNCHANGED <<odbc, connvar, maxdb, iptr, text, orderly>>

ExecuteNotConnected(s) ==
    /\ Executes(s) /\ conn[ConnOf(At[s])].closed
    /\ ran' = NoRun
    /\ UNCHANGED prep

(* Mutation: a failed prepare leaves its mark. *)
PrepAfterErrorKept(s) == prep[s]

(* SQL-PREP after a call that executed nothing: prepare again. *)
PrepAfterError(s) == "N"

ExecuteUnprepared(s) ==
    /\ Executes(s) /\ ~conn[ConnOf(At[s])].closed
    /\ prep[s] \notin {"Y", "P"} \/ HandleOf(iptr[s]) = NoHandle
    /\ prep' = [prep EXCEPT ![s] = PrepAfterError(s)]
    /\ ran' = NoRun

Execute(s) ==
    /\ Executes(s) /\ ~conn[ConnOf(At[s])].closed
    /\ prep[s] \in {"Y", "P"} /\ HandleOf(iptr[s]) # NoHandle
    /\ prep' = [prep EXCEPT ![s] = IF prep[s] = "P" /\ ~CheckAll(iptr[s]) THEN "N" ELSE "Y"]
    /\ ran' = [stmt |-> s, h |-> HandleOf(iptr[s])]

(* OCSQLFTC: whatever SQL-PREP is, the handle of the current database. *)
Fetch(s) ==
    /\ pc = NULL /\ Known(At[s])
    /\ ran' = IF conn[ConnOf(At[s])].closed \/ HandleOf(iptr[s]) = NoHandle THEN NoRun
              ELSE [stmt |-> s, h |-> HandleOf(iptr[s])]
    /\ UNCHANGED <<odbc, connvar, maxdb, stmtvar, pc, orderly>>

(* OCSQLCCU: a dynamic cursor has to be prepared again. *)
CloseCursor(s) ==
    /\ pc = NULL /\ Known(At[s])
    /\ prep' = IF Kind[s] = "dynamic" /\ ~conn[ConnOf(At[s])].closed
                    /\ HandleOf(iptr[s]) # NoHandle
               THEN [prep EXCEPT ![s] = "N"] ELSE prep
    /\ ran' = NoRun
    /\ UNCHANGED <<odbc, connvar, maxdb, iptr, text, pc, orderly>>

-----------------------------------------------------------------------------
Next ==
    \/ \E n \in Names \cup {Main} :
          \/ \E how \in {"ok", "noenv", "nodbc", "refused"} : Connect(n, how)
          \/ Disconnect(n)
          \/ \E db \in DBs, found \in BOOLEAN : SetSchema(n, db, found)
    \/ \E s \in Stmts :
          \/ Prepare(s) \/ Execute(s) \/ ExecuteUnprepared(s) \/ ExecuteNotConnected(s)
    \/ \E s \in Cursors : Fetch(s) \/ CloseCursor(s)

(* The program runs each of its statements again and again, and a server   *)
(* that is asked again and again to prepare one accepts it some time.      *)
Fairness ==
    \A s \in Stmts :
        /\ SF_vars(PrepareCached(s) \/ PrepareNew(s))
        /\ SF_vars(Execute(s) \/ ExecuteUnprepared(s) \/ ExecuteNotConnected(s))

Spec == Init /\ [][Next]_vars /\ Fairness

-----------------------------------------------------------------------------
(* Properties *)

Handles == [dbc : Dbcs \cup {0}, db : DBs \cup {NULL}, text : Texts \cup {NULL}]

TypeOK ==
    /\ hEnv \in 0 .. MaxDbc + 1 /\ envs \subseteq 1 .. MaxDbc + 1
    /\ dbc \in [Dbcs -> [st : {"none", "open", "freed"}, env : 0 .. MaxDbc + 1,
                         db : DBs \cup {NULL}]]
    /\ conn \in [Conns -> [used : BOOLEAN, closed : BOOLEAN, hDBC : Dbcs \cup {0},
                           cur : DBs \cup {NULL}]]
    /\ hConn \in [Names -> Conns \cup {NULL}] /\ nConn \in 0 .. MaxDbc
    /\ prep \in [Stmts -> {"N", "A", "X", "P", "Y"}]
    /\ iptr \in [Stmts -> [dbn : Conns, h : [DBs -> Handles]] \cup {NULL}]
    /\ text \in [Stmts -> Texts] /\ pc \in Stmts \cup {NULL}
    /\ ran \in [stmt : Stmts \cup {NULL}, h : Handles]

(* As long as the program opens one connection at a time, whatever fails   *)
(* while it connects, prepares or disconnects: the runtime counts the open *)
(* connections right, holds one environment and no other is allocated, and *)
(* when the last connection is closed no statement is cached, so that none *)
(* outlives its connection.                                                *)
NothingLeaks ==
    /\ TypeOK
    /\ orderly =>
          /\ nConn = Cardinality(OpenDbcs)
          /\ envs = {hEnv} \ {0}
          /\ EnvsInUse(0) \subseteq envs
          /\ nConn = 0 => \A s \in Stmts : iptr[s] = NULL
          /\ \A s \in Stmts : iptr[s] # NULL =>
                \A db \in DBs : iptr[s].h[db] # NoHandle => IsOpen(iptr[s].h[db].dbc)

(* As long as the program opens one connection at a time: what OCSQLEXE,   *)
(* OCSQLOCU and OCSQLFTC run is a handle of the connection the statement   *)
(* names, prepared from the text the statement has now, and prepared while *)
(* the database was the one the session is in now.                         *)
RunsWhatWasAsked ==
    orderly /\ ran # NoRun =>
        LET d == conn[ConnOf(At[ran.stmt])].hDBC
        IN  /\ ran.h.dbc = d /\ IsOpen(d)
            /\ ran.h.db = dbc[d].db
            /\ ran.h.text = text[ran.stmt]

(* A statement whose prepare failed is not lost: as long as its connection *)
(* is open, a program that executes it again and again executes it at last.*)
RetriesRun ==
    \A s \in Stmts :
        (/\ Kind[s] # "dynamic"
         /\ <>[](orderly /\ Known(At[s]) /\ ~conn[ConnOf(At[s])].closed))
            => []<>(ran.stmt = s)

(* ChangeLog, 2021-11-14: the references to prepared statements are        *)
(* cleared when a program reconnects, "Otherwise we will have invalid      *)
(* reference to prepared statement".  They are cleared with the last open  *)
(* connection only: violated by a program that has two.                    *)
NoInvalidReference == ran # NoRun => IsOpen(ran.h.dbc)
=============================================================================
