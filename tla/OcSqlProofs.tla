---------------------------- MODULE OcSqlProofs ----------------------------
(***************************************************************************)
(* What OcSql keeps for every program: any number of statements and        *)
(* connection variables, any databases and texts, and any failure of a     *)
(* CONNECT or a PREPARE.                                                   *)
(***************************************************************************)
EXTENDS OcSql, FiniteSetTheorems, TLAPS

(* The connections that are counted, whatever the program does: nConn is   *)
(* between the sConn that are open and the connections ever allocated, and *)
(* an environment that is still allocated and not the runtime's belongs to *)
(* a connection.                                                           *)
OpenConns == {c \in Conns : ~conn[c].closed}
UsedDbcs == {d \in Dbcs : dbc[d].st # "none"}

CountInv ==
    /\ Cardinality(OpenConns) <= nConn /\ nConn <= Cardinality(UsedDbcs)
    /\ \A d \in Dbcs : dbc[d].st = "none" => dbc[d].env = 0
    /\ \A e \in envs : e = hEnv \/ \E d \in Dbcs : dbc[d].env = e
    /\ hEnv # 0 => hEnv \in envs

(* The current database of a connection that was opened once is known, and *)
(* so is the connection of the statement that is about to be executed.     *)
CurrentInv ==
    /\ \A c \in Conns : ~conn[c].closed => conn[c].cur \in DBs
    /\ \A s \in Stmts : iptr[s] # NULL => conn[iptr[s].dbn].cur \in DBs
    /\ pc # NULL => Known(At[pc])

(* A program that opens one connection at a time has one, and the runtime  *)
(* knows which database it is in.                                          *)
SessionInv ==
    /\ \A c \in OpenConns : IsOpen(conn[c].hDBC) /\ conn[c].cur = dbc[conn[c].hDBC].db
    /\ nConn <= 1

(* The cached statements are of that connection, and each handle was       *)
(* prepared on it, in the database it is kept for, from the text the       *)
(* statement has.                                                          *)
Fits(s, db, h) ==
    h # NoHandle => /\ h.dbc = conn[iptr[s].dbn].hDBC
                    /\ h.db = db /\ h.text = text[s]

CacheInv ==
    \A s \in Stmts : iptr[s] # NULL =>
        /\ Known(At[s]) /\ iptr[s].dbn = ConnOf(At[s])
        /\ ~conn[iptr[s].dbn].closed
        /\ \A db \in DBs : Fits(s, db, iptr[s].h[db])

RuntimeInv ==
    /\ TypeOK /\ CountInv /\ CurrentInv
    /\ orderly => NothingLeaks /\ SessionInv /\ CacheInv /\ RunsWhatWasAsked

-----------------------------------------------------------------------------
(* Types. *)

LEMMA ConnFields ==
    ASSUME TypeOK, NEW c \in Conns
    PROVE  /\ conn[c].used \in BOOLEAN /\ conn[c].closed \in BOOLEAN
           /\ conn[c].hDBC \in Dbcs \cup {0} /\ conn[c].cur \in DBs \cup {NULL}
           /\ conn[c] \in [used : BOOLEAN, closed : BOOLEAN, hDBC : Dbcs \cup {0},
                          cur : DBs \cup {NULL}]
BY DEF TypeOK

(* The fields of an ODBC connection. *)
LEMMA DbcFields ==
    ASSUME TypeOK, NEW d \in Dbcs
    PROVE  /\ dbc[d].st \in {"none", "open", "freed"} /\ dbc[d].env \in 0 .. MaxDbc + 1
           /\ dbc[d].db \in DBs \cup {NULL}
           /\ dbc[d] \in [st : {"none", "open", "freed"}, env : 0 .. MaxDbc + 1,
                         db : DBs \cup {NULL}]
BY DEF TypeOK

Mysqls == [dbn : Conns, h : [DBs -> Handles]]

(* The fields of a cached statement. *)
LEMMA CacheFields ==
    ASSUME TypeOK, NEW s \in Stmts, iptr[s] # NULL
    PROVE  /\ iptr[s] \in Mysqls /\ iptr[s].dbn \in Conns
           /\ \A db \in DBs : iptr[s].h[db] \in Handles
BY DEF TypeOK, Mysqls

(* No handle is a handle value. *)
LEMMA NoHandleType == NoHandle \in Handles
BY DEF NoHandle, Handles

(* Assignments to the fields of an sConn and of a connection. *)
ConnRecs == [used : BOOLEAN, closed : BOOLEAN, hDBC : Dbcs \cup {0}, cur : DBs \cup {NULL}]

(* CONNECT: an sConn is used. *)
LEMMA ConnReused ==
    ASSUME TypeOK, NEW c \in Conns, conn' = [conn EXCEPT ![c].used = TRUE]
    PROVE  /\ conn' \in [Conns -> ConnRecs]
           /\ \A i \in Conns : conn'[i].closed = conn[i].closed /\ conn'[i].cur = conn[i].cur
<1>1. conn \in [Conns -> ConnRecs]
  BY DEF TypeOK, ConnRecs
<1>2. PICK q \in ConnRecs : q = conn[c]
  BY <1>1
<1>3. PICK r : r = [q EXCEPT !.used = TRUE]
  OBVIOUS
<1>4. r \in ConnRecs /\ r.closed = q.closed /\ r.cur = q.cur
  BY <1>3 DEF ConnRecs
<1>5. conn' = [conn EXCEPT ![c] = r]
  BY <1>2, <1>3
<1> QED BY <1>1, <1>2, <1>4, <1>5

(* CONNECT: an sConn is used and has another ODBC connection. *)
LEMMA ConnReconnected ==
    ASSUME TypeOK, NEW c \in Conns, NEW d \in Dbcs \cup {0},
           conn' = [conn EXCEPT ![c].used = TRUE, ![c].hDBC = d]
    PROVE  /\ conn' \in [Conns -> ConnRecs]
           /\ \A i \in Conns : conn'[i].closed = conn[i].closed /\ conn'[i].cur = conn[i].cur
<1>1. conn \in [Conns -> ConnRecs]
  BY DEF TypeOK, ConnRecs
<1>2. PICK q \in ConnRecs : q = conn[c]
  BY <1>1
<1>3. PICK q1 : q1 = [q EXCEPT !.used = TRUE]
  OBVIOUS
<1>4. PICK r : r = [q1 EXCEPT !.hDBC = d]
  OBVIOUS
<1>5. r \in ConnRecs /\ r.closed = q.closed /\ r.cur = q.cur
  BY <1>3, <1>4 DEF ConnRecs
<1>6. PICK g : g = [conn EXCEPT ![c].used = TRUE]
  OBVIOUS
<1>7. g = [conn EXCEPT ![c] = q1]
  BY <1>2, <1>3, <1>6
<1>8. g[c] = q1 /\ conn' = [g EXCEPT ![c].hDBC = d]
  BY <1>1, <1>6, <1>7
<1>9. conn' = [g EXCEPT ![c] = r]
  BY <1>4, <1>8
<1> QED BY <1>1, <1>2, <1>5, <1>7, <1>9

(* DISCONNECT: an sConn is closed. *)
LEMMA ConnClosed ==
    ASSUME TypeOK, NEW c \in Conns, conn' = [conn EXCEPT ![c].closed = TRUE]
    PROVE  /\ conn' \in [Conns -> ConnRecs] /\ conn'[c].closed
           /\ \A i \in Conns : i # c => conn'[i] = conn[i]
           /\ \A i \in Conns : conn'[i].cur = conn[i].cur
<1>1. conn \in [Conns -> ConnRecs]
  BY DEF TypeOK, ConnRecs
<1>2. PICK q \in ConnRecs : q = conn[c]
  BY <1>1
<1>3. PICK r : r = [q EXCEPT !.closed = TRUE]
  OBVIOUS
<1>4. r \in ConnRecs /\ r.closed = TRUE /\ r.cur = q.cur
  BY <1>3 DEF ConnRecs
<1>5. conn' = [conn EXCEPT ![c] = r]
  BY <1>2, <1>3
<1> QED BY <1>1, <1>2, <1>4, <1>5

(* The runtime notes the database of an sConn. *)
LEMMA ConnNoted ==
    ASSUME TypeOK, NEW c \in Conns, NEW db \in DBs, conn' = [conn EXCEPT ![c].cur = db]
    PROVE  /\ conn' \in [Conns -> ConnRecs] /\ conn'[c].cur = db
           /\ \A i \in Conns : i # c => conn'[i] = conn[i]
           /\ \A i \in Conns : conn'[i].closed = conn[i].closed /\ conn'[i].hDBC = conn[i].hDBC
<1>1. conn \in [Conns -> ConnRecs]
  BY DEF TypeOK, ConnRecs
<1>2. PICK q \in ConnRecs : q = conn[c]
  BY <1>1
<1>3. PICK r : r = [q EXCEPT !.cur = db]
  OBVIOUS
<1>4. r \in ConnRecs /\ r.closed = q.closed /\ r.hDBC = q.hDBC /\ r.cur = db
  BY <1>3 DEF ConnRecs
<1>5. conn' = [conn EXCEPT ![c] = r]
  BY <1>2, <1>3
<1> QED BY <1>1, <1>2, <1>4, <1>5

DbcRecs == [st : {"none", "open", "freed"}, env : 0 .. MaxDbc + 1, db : DBs \cup {NULL}]

(* ODBC: a connection is freed. *)
LEMMA DbcFreed ==
    ASSUME TypeOK, NEW d \in Dbcs, dbc' = [dbc EXCEPT ![d].st = "freed"]
    PROVE  /\ dbc' \in [Dbcs -> DbcRecs] /\ dbc'[d].st = "freed"
           /\ \A i \in Dbcs : i # d => dbc'[i] = dbc[i]
           /\ \A i \in Dbcs : dbc'[i].env = dbc[i].env
<1>1. dbc \in [Dbcs -> DbcRecs]
  BY DEF TypeOK, DbcRecs
<1>2. PICK q \in DbcRecs : q = dbc[d]
  BY <1>1
<1>3. PICK r : r = [q EXCEPT !.st = "freed"]
  OBVIOUS
<1>4. r \in DbcRecs /\ r.st = "freed" /\ r.env = q.env
  BY <1>3 DEF DbcRecs
<1>5. dbc' = [dbc EXCEPT ![d] = r]
  BY <1>2, <1>3
<1> QED BY <1>1, <1>2, <1>4, <1>5

(* ODBC: a session moves to another database. *)
LEMMA DbcMoved ==
    ASSUME TypeOK, NEW d \in Dbcs, NEW db \in DBs, dbc' = [dbc EXCEPT ![d].db = db]
    PROVE  /\ dbc' \in [Dbcs -> DbcRecs] /\ dbc'[d].db = db
           /\ \A i \in Dbcs : i # d => dbc'[i] = dbc[i]
           /\ \A i \in Dbcs : dbc'[i].env = dbc[i].env /\ dbc'[i].st = dbc[i].st
<1>1. dbc \in [Dbcs -> DbcRecs]
  BY DEF TypeOK, DbcRecs
<1>2. PICK q \in DbcRecs : q = dbc[d]
  BY <1>1
<1>3. PICK r : r = [q EXCEPT !.db = db]
  OBVIOUS
<1>4. r \in DbcRecs /\ r.st = q.st /\ r.env = q.env /\ r.db = db
  BY <1>3 DEF DbcRecs
<1>5. dbc' = [dbc EXCEPT ![d] = r]
  BY <1>2, <1>3
<1> QED BY <1>1, <1>2, <1>4, <1>5

(* A connection variable that was used in a CONNECT names an sConn. *)
LEMMA KnownConn ==
    ASSUME TypeOK, NEW n \in Names \cup {Main}, Known(n)
    PROVE  ConnOf(n) \in Conns
<1>1. 0 \in Conns
  BY OcSqlAssumption DEF Conns
<1> QED BY <1>1 DEF TypeOK, Known, ConnOf

(* A statement is for a connection variable, or for the unnamed one. *)
LEMMA AtType == \A s \in Stmts : At[s] \in Names \cup {Main}
BY OcSqlAssumption

(* The connections and the sConn are finitely many. *)
LEMMA FiniteConns == ASSUME NEW S \in SUBSET Conns PROVE IsFiniteSet(S) /\ Cardinality(S) \in Nat
<1>1. IsFiniteSet(Conns)
  BY FS_Interval, OcSqlAssumption DEF Conns
<1> QED BY <1>1, FS_Subset, FS_CardinalityType

(* The ODBC connections are finitely many. *)
LEMMA FiniteDbcs ==
    ASSUME NEW S \in SUBSET Dbcs
    PROVE  IsFiniteSet(S) /\ Cardinality(S) \in 0 .. MaxDbc
<1>1. MaxDbc \in Nat /\ MaxDbc >= 1
  BY OcSqlAssumption
<1>2. IsFiniteSet(Dbcs) /\ Cardinality(Dbcs) = MaxDbc
  BY <1>1, FS_Interval DEF Dbcs
<1>3. IsFiniteSet(S) /\ Cardinality(S) <= MaxDbc
  BY <1>2, FS_Subset
<1>4. Cardinality(S) \in Nat
  BY <1>3, FS_CardinalityType
<1> QED BY <1>1, <1>3, <1>4

-----------------------------------------------------------------------------
(* The initial states. *)

LEMMA InitRuntime == Init => RuntimeInv
<1> SUFFICES ASSUME Init PROVE RuntimeInv
  OBVIOUS
<1> USE OcSqlAssumption
<1>1. /\ \A c \in Conns : conn[c].closed /\ conn[c].hDBC = 0 /\ conn[c].cur = NULL
      /\ \A d \in Dbcs : dbc[d].st = "none" /\ dbc[d].env = 0 /\ dbc[d].db = NULL
  BY DEF Init
<1>2. OpenConns = {} /\ UsedDbcs = {} /\ OpenDbcs = {}
  BY <1>1 DEF OpenConns, UsedDbcs, OpenDbcs
<1>3. TypeOK
  <2>1. text \in [Stmts -> Texts]
    BY DEF Init
  <2>2. ran \in [stmt : Stmts \cup {NULL}, h : Handles]
    BY NoHandleType DEF Init, NoRun
  <2>3. conn \in [Conns -> [used : BOOLEAN, closed : BOOLEAN, hDBC : Dbcs \cup {0},
                           cur : DBs \cup {NULL}]]
    BY DEF Init
  <2>4. dbc \in [Dbcs -> [st : {"none", "open", "freed"}, env : 0 .. MaxDbc + 1,
                         db : DBs \cup {NULL}]]
    BY DEF Init
  <2> QED BY <2>1, <2>2, <2>3, <2>4 DEF Init, TypeOK
<1>4. CountInv
  BY <1>1, <1>2, FS_EmptySet DEF Init, CountInv
<1>5. CurrentInv
  BY <1>1 DEF Init, CurrentInv
<1>6. NothingLeaks
  BY <1>2, <1>3, FS_EmptySet DEF Init, NothingLeaks, EnvsInUse
<1>7. SessionInv /\ CacheInv /\ RunsWhatWasAsked
  BY <1>2 DEF Init, SessionInv, CacheInv, RunsWhatWasAsked
<1> QED BY <1>3, <1>4, <1>5, <1>6, <1>7 DEF RuntimeInv

-----------------------------------------------------------------------------
(* Statements.  They leave the connections alone. *)

(* A call runs nothing, or the handle of a statement whose connection is   *)
(* open.                                                                   *)
Runs(s) ==
    /\ Known(At[s]) /\ ~conn[ConnOf(At[s])].closed
    /\ HandleOf(iptr[s]) # NoHandle
    /\ ran' = [stmt |-> s, h |-> HandleOf(iptr[s])]
    /\ text' = text

(* The statements keep their types, and those that are cached their texts. *)
LEMMA StatementStep ==
    ASSUME RuntimeInv, UNCHANGED <<odbc, connvar, maxdb, orderly, iptr>>,
           prep' \in [Stmts -> {"N", "A", "X", "P", "Y"}], text' \in [Stmts -> Texts],
           pc' \in Stmts \cup {NULL}, pc' # NULL => Known(At[pc']),
           \A s \in Stmts : orderly /\ iptr[s] # NULL => text'[s] = text[s],
           ran' = NoRun \/ \E s \in Stmts : Runs(s)
    PROVE  RuntimeInv'
<1> USE DEF RuntimeInv, odbc, connvar
<1>1. ran' \in [stmt : Stmts \cup {NULL}, h : Handles]
  <2>1. CASE ran' = NoRun
    BY <2>1, NoHandleType DEF NoRun
  <2>2. ASSUME NEW s \in Stmts, Runs(s)
        PROVE  ran' \in [stmt : Stmts \cup {NULL}, h : Handles]
    <3>1. HandleOf(iptr[s]) \in Handles
      BY CacheFields, NoHandleType DEF CurrentInv, HandleOf
    <3> QED BY <2>2, <3>1 DEF Runs
  <2> QED BY <2>1, <2>2
<1>2. TypeOK'
  BY <1>1 DEF TypeOK
<1>3. CountInv'
  BY DEF CountInv, OpenConns, UsedDbcs
<1>4. \A n : (Known(n)' <=> Known(n)) /\ ConnOf(n)' = ConnOf(n)
  BY DEF Known, ConnOf
<1>5. CurrentInv'
  BY <1>4 DEF CurrentInv
<1>6. ASSUME orderly
      PROVE  NothingLeaks' /\ SessionInv' /\ CacheInv' /\ RunsWhatWasAsked'
  <2>1. NothingLeaks'
    BY <1>2, <1>6 DEF NothingLeaks, OpenDbcs, EnvsInUse, IsOpen
  <2>2. SessionInv'
    BY <1>6 DEF SessionInv, OpenConns, IsOpen
  <2>3. CacheInv'
    <3> SUFFICES ASSUME NEW s \in Stmts, iptr[s] # NULL
                 PROVE  /\ Known(At[s])' /\ iptr'[s].dbn = ConnOf(At[s])'
                        /\ ~conn'[iptr'[s].dbn].closed
                        /\ \A db \in DBs : Fits(s, db, iptr[s].h[db])'
      BY DEF CacheInv
    <3>1. text'[s] = text[s]
      BY <1>6
    <3> QED BY <1>4, <1>6, <3>1 DEF CacheInv, Fits
  <2>4. RunsWhatWasAsked'
    <3>1. CASE ran' = NoRun
      BY <3>1 DEF RunsWhatWasAsked, NoRun, NoHandle
    <3>2. ASSUME NEW s \in Stmts, Runs(s) PROVE RunsWhatWasAsked'
      <4>1. ran'.stmt = s /\ ran'.h = HandleOf(iptr[s]) /\ text'[s] = text[s]
        BY <3>2 DEF Runs
      <4>2. iptr[s] # NULL /\ ran'.h = iptr[s].h[conn[iptr[s].dbn].cur] /\ ran'.h # NoHandle
        BY <3>2, <4>1 DEF Runs, HandleOf
      <4>3. PICK c \in Conns : c = iptr[s].dbn
        BY <4>2, CacheFields
      <4>4. c = ConnOf(At[s]) /\ ~conn[c].closed /\ c \in OpenConns
        BY <1>6, <4>2, <4>3 DEF CacheInv, OpenConns
      <4>5. IsOpen(conn[c].hDBC) /\ conn[c].cur = dbc[conn[c].hDBC].db /\ conn[c].cur \in DBs
        BY <1>6, <4>4 DEF SessionInv, CurrentInv
      <4>6. Fits(s, conn[c].cur, iptr[s].h[conn[c].cur])
        BY <1>6, <4>2, <4>5 DEF CacheInv
      <4>7. ran'.h.dbc = conn[c].hDBC /\ ran'.h.db = conn[c].cur /\ ran'.h.text = text[s]
        BY <4>2, <4>3, <4>6 DEF Fits
      <4>8. ConnOf(At[ran.stmt])' = c
        BY <4>1, <4>4 DEF ConnOf
      <4>9. /\ conn'[c].hDBC = conn[c].hDBC /\ dbc'[conn[c].hDBC] = dbc[conn[c].hDBC]
            /\ text'[ran'.stmt] = text[s]
        BY <4>1
      <4> QED BY <4>5, <4>7, <4>8, <4>9 DEF RunsWhatWasAsked, IsOpen, ConnOf
    <3> QED BY <3>1, <3>2
  <2> QED BY <2>1, <2>2, <2>3, <2>4
<1> QED BY <1>2, <1>3, <1>5, <1>6

(* A dynamic statement gets another text: then nothing is cached of it     *)
(* that a call could still use.                                            *)
LEMMA AskedTexts ==
    ASSUME TypeOK, NEW s \in Stmts, Asks(s)
    PROVE  /\ text' \in [Stmts -> Texts]
           /\ \A t \in Stmts : t # s => text'[t] = text[t]
           /\ Kind[s] # "dynamic" => text' = text
           /\ pc = NULL /\ Known(At[s]) /\ ConnOf(At[s]) \in Conns
           /\ GoesOn(s) \in Stmts \cup {NULL} /\ (GoesOn(s) # NULL => GoesOn(s) = s)
           /\ ran' = NoRun /\ UNCHANGED <<odbc, connvar, maxdb, orderly>>
<1>1. text' \in [Stmts -> Texts] /\ \A t \in Stmts : t # s => text'[t] = text[t]
  BY DEF Asks, TypeOK
<1>2. ConnOf(At[s]) \in Conns
  BY KnownConn, AtType DEF Asks
<1> QED BY <1>1, <1>2 DEF Asks, GoesOn

(* OCSQLPRE on a connection that is closed. *)
LEMMA PrepareNotConnectedStep ==
    ASSUME RuntimeInv, NEW s \in Stmts, PrepareNotConnected(s) PROVE RuntimeInv'
<1>1. TypeOK /\ Asks(s) /\ conn[ConnOf(At[s])].closed /\ UNCHANGED iptr
  BY DEF RuntimeInv, PrepareNotConnected
<1>2. prep' \in [Stmts -> {"N", "A", "X", "P", "Y"}]
  BY <1>1 DEF PrepareNotConnected, TypeOK
<1>3. pc' \in Stmts \cup {NULL} /\ (pc' # NULL => Known(At[pc']))
  BY <1>1, AskedTexts DEF PrepareNotConnected
<1>4. \A t \in Stmts : orderly /\ iptr[t] # NULL => text'[t] = text[t]
  BY <1>1, AskedTexts DEF RuntimeInv, CacheInv
<1> QED BY <1>1, <1>2, <1>3, <1>4, AskedTexts, StatementStep

(* OCSQLPRE finds the handle of the statement. *)
LEMMA PrepareCachedStep ==
    ASSUME RuntimeInv, NEW s \in Stmts, PrepareCached(s) PROVE RuntimeInv'
<1>1. TypeOK /\ Asks(s) /\ UNCHANGED iptr
  BY DEF RuntimeInv, PrepareCached
<1>2. prep' \in [Stmts -> {"N", "A", "X", "P", "Y"}]
  BY <1>1 DEF PrepareCached, TypeOK
<1>3. pc' \in Stmts \cup {NULL} /\ (pc' # NULL => Known(At[pc']))
  BY <1>1, AskedTexts DEF PrepareCached
<1>4. text' = text
  BY <1>1, AskedTexts DEF PrepareCached, Dropped, HandleOf
<1> QED BY <1>1, <1>2, <1>3, <1>4, AskedTexts, StatementStep

(* OCSQLEXE, OCSQLOCU: the statement's connection is known. *)
LEMMA ExecutedConn ==
    ASSUME RuntimeInv, NEW s \in Stmts, Executes(s)
    PROVE  /\ Known(At[s]) /\ TypeOK /\ pc' = NULL
           /\ UNCHANGED <<odbc, connvar, maxdb, iptr, text, orderly>>
           /\ text' \in [Stmts -> Texts]
BY OcSqlAssumption DEF RuntimeInv, CurrentInv, TypeOK, Executes

(* OCSQLEXE on a connection that is closed. *)
LEMMA ExecuteNotConnectedStep ==
    ASSUME RuntimeInv, NEW s \in Stmts, ExecuteNotConnected(s) PROVE RuntimeInv'
<1>1. prep' \in [Stmts -> {"N", "A", "X", "P", "Y"}] /\ ran' = NoRun
  BY DEF RuntimeInv, ExecuteNotConnected, TypeOK
<1> QED BY <1>1, ExecutedConn, StatementStep DEF ExecuteNotConnected

(* OCSQLEXE of a statement that has no handle. *)
LEMMA ExecuteUnpreparedStep ==
    ASSUME RuntimeInv, NEW s \in Stmts, ExecuteUnprepared(s) PROVE RuntimeInv'
<1>1. prep' \in [Stmts -> {"N", "A", "X", "P", "Y"}] /\ ran' = NoRun
  BY DEF RuntimeInv, ExecuteUnprepared, TypeOK, PrepAfterError
<1> QED BY <1>1, ExecutedConn, StatementStep DEF ExecuteUnprepared

(* OCSQLEXE runs the handle. *)
LEMMA ExecuteStep ==
    ASSUME RuntimeInv, NEW s \in Stmts, Execute(s) PROVE RuntimeInv'
<1>1. prep' \in [Stmts -> {"N", "A", "X", "P", "Y"}]
  BY DEF RuntimeInv, Execute, TypeOK
<1>2. Runs(s)
  BY ExecutedConn DEF Execute, Runs
<1> QED BY <1>1, <1>2, ExecutedConn, StatementStep DEF Execute

(* OCSQLFTC. *)
LEMMA FetchStep ==
    ASSUME RuntimeInv, NEW s \in Stmts, Fetch(s) PROVE RuntimeInv'
<1>1. /\ prep' \in [Stmts -> {"N", "A", "X", "P", "Y"}] /\ text' \in [Stmts -> Texts]
      /\ pc' = NULL /\ text' = text
  BY DEF RuntimeInv, Fetch, TypeOK, stmtvar
<1>2. ran' = NoRun \/ Runs(s)
  BY <1>1 DEF Fetch, Runs
<1> QED BY <1>1, <1>2, StatementStep DEF Fetch, stmtvar

(* OCSQLCCU. *)
LEMMA CloseCursorStep ==
    ASSUME RuntimeInv, NEW s \in Stmts, CloseCursor(s) PROVE RuntimeInv'
<1>1. /\ prep' \in [Stmts -> {"N", "A", "X", "P", "Y"}] /\ text' \in [Stmts -> Texts]
      /\ pc' = NULL /\ text' = text
  BY DEF RuntimeInv, CloseCursor, TypeOK
<1> QED BY <1>1, StatementStep DEF CloseCursor

(* The mysql q of statement s is of the sConn c, and every handle in it was *)
(* prepared there from the text the statement gets.                        *)
PreparedOn(s, c, q) ==
    /\ q.dbn = c
    /\ \A db \in DBs : q.h[db] # NoHandle =>
          q.h[db].dbc = conn[c].hDBC /\ q.h[db].db = db /\ q.h[db].text = text'[s]

(* A statement is cached on the connection it names, which is open. *)
LEMMA CachedStep ==
    ASSUME RuntimeInv, UNCHANGED <<odbc, connvar, maxdb, orderly>>,
           NEW s \in Stmts, NEW c \in Conns, Known(At[s]), c = ConnOf(At[s]), ~conn[c].closed,
           NEW q \in Mysqls, iptr' = [iptr EXCEPT ![s] = q], conn[q.dbn].cur \in DBs,
           orderly => PreparedOn(s, c, q),
           prep' \in [Stmts -> {"N", "A", "X", "P", "Y"}], text' \in [Stmts -> Texts],
           \A t \in Stmts : t # s => text'[t] = text[t],
           pc' \in Stmts \cup {NULL}, pc' # NULL => Known(At[pc']), ran' = NoRun
    PROVE  RuntimeInv'
<1> USE DEF RuntimeInv, odbc, connvar
<1>1. TypeOK'
  <2>1. iptr' \in [Stmts -> Mysqls \cup {NULL}]
    BY DEF TypeOK, Mysqls
  <2>2. ran' \in [stmt : Stmts \cup {NULL}, h : Handles]
    BY NoHandleType DEF NoRun
  <2> QED BY <2>1, <2>2 DEF TypeOK, Mysqls
<1>2. CountInv'
  BY DEF CountInv, OpenConns, UsedDbcs
<1>3. \A n : (Known(n)' <=> Known(n)) /\ ConnOf(n)' = ConnOf(n)
  BY DEF Known, ConnOf
<1>4. iptr'[s] = q /\ \A t \in Stmts : t # s => iptr'[t] = iptr[t]
  BY DEF TypeOK
<1>5. CurrentInv'
  BY <1>3, <1>4 DEF CurrentInv
<1>6. ASSUME orderly
      PROVE  NothingLeaks' /\ SessionInv' /\ CacheInv' /\ RunsWhatWasAsked'
  <2>1. c \in OpenConns /\ IsOpen(conn[c].hDBC)
    BY <1>6 DEF OpenConns, SessionInv
  <2>2. nConn # 0
    <3>1. conn[c].hDBC \in OpenDbcs
      BY <2>1, ConnFields DEF IsOpen, OpenDbcs
    <3>2. nConn = Cardinality(OpenDbcs)
      BY <1>6 DEF NothingLeaks
    <3>3. IsFiniteSet(OpenDbcs)
      BY FiniteDbcs DEF OpenDbcs
    <3> QED BY <3>1, <3>2, <3>3, FS_EmptySet
  <2>3. NothingLeaks'
    <3>1. \A t \in Stmts : iptr'[t] # NULL =>
            \A db \in DBs : iptr'[t].h[db] # NoHandle => IsOpen(iptr'[t].h[db].dbc)
      BY <1>4, <1>6, <2>1 DEF NothingLeaks, PreparedOn
    <3> QED BY <1>1, <1>6, <2>2, <3>1 DEF NothingLeaks, OpenDbcs, EnvsInUse, IsOpen
  <2>4. SessionInv'
    BY <1>6 DEF SessionInv, OpenConns, IsOpen
  <2>5. CacheInv'
    <3> SUFFICES ASSUME NEW t \in Stmts, iptr'[t] # NULL
                 PROVE  /\ Known(At[t])' /\ iptr'[t].dbn = ConnOf(At[t])'
                        /\ ~conn'[iptr'[t].dbn].closed
                        /\ \A db \in DBs : Fits(t, db, iptr[t].h[db])'
      BY DEF CacheInv
    <3>1. CASE t = s
      BY <1>3, <1>4, <1>6, <3>1 DEF Fits, PreparedOn
    <3>2. CASE t # s
      BY <1>3, <1>4, <1>6, <3>2 DEF CacheInv, Fits
    <3> QED BY <3>1, <3>2
  <2>6. RunsWhatWasAsked'
    BY DEF RunsWhatWasAsked, NoRun, NoHandle
  <2> QED BY <2>3, <2>4, <2>5, <2>6
<1> QED BY <1>1, <1>2, <1>5, <1>6

(* What OCSQLPRE looks for the handle in: the mysql the statement has, if  *)
(* it is not dropped, or a new one.                                        *)
LEMMA MysqlOf ==
    ASSUME RuntimeInv, NEW s \in Stmts, Asks(s),
           NEW c \in Conns, c = ConnOf(At[s]), ~conn[c].closed,
           NEW p, p = IF Dropped(s) = NULL THEN NewMysql(c) ELSE Dropped(s)
    PROVE  /\ p \in Mysqls /\ conn[p.dbn].cur \in DBs
           /\ orderly => PreparedOn(s, c, p)
<1> USE DEF RuntimeInv
<1>1. CASE Dropped(s) = NULL
  <2>1. p = [dbn |-> c, h |-> [db \in DBs |-> NoHandle]]
    BY <1>1 DEF NewMysql
  <2>2. p \in Mysqls /\ p.dbn = c /\ \A db \in DBs : p.h[db] = NoHandle
    BY <2>1, NoHandleType DEF Mysqls
  <2> QED BY <2>2 DEF CurrentInv, PreparedOn
<1>2. CASE Dropped(s) # NULL
  <2>1. Kind[s] = "static" /\ p = iptr[s] /\ iptr[s] # NULL
    BY <1>2 DEF Dropped
  <2>2. p \in Mysqls /\ conn[p.dbn].cur \in DBs
    BY <2>1, CacheFields DEF CurrentInv
  <2>3. text' = text
    BY <2>1, AskedTexts
  <2>4. orderly => p.dbn = c /\ \A db \in DBs : Fits(s, db, p.h[db])
    BY <2>1 DEF CacheInv
  <2> QED BY <2>1, <2>2, <2>3, <2>4 DEF Fits, PreparedOn
<1> QED BY <1>1, <1>2

(* OCSQLPRE makes a new handle. *)
LEMMA PrepareNewStep ==
    ASSUME RuntimeInv, NEW s \in Stmts, PrepareNew(s) PROVE RuntimeInv'
<1>1. TypeOK /\ Asks(s) /\ Known(At[s])
  BY DEF RuntimeInv, PrepareNew, Asks
<1>2. PICK c \in Conns : c = ConnOf(At[s])
  BY <1>1, AskedTexts
<1>3. PICK p : p = IF Dropped(s) = NULL THEN NewMysql(c) ELSE Dropped(s)
  OBVIOUS
<1>4. PICK h : h = [dbc |-> conn[c].hDBC, text |-> text'[s], db |-> dbc[conn[c].hDBC].db]
  OBVIOUS
<1>5. /\ ~conn[c].closed /\ IsOpen(conn[c].hDBC)
      /\ iptr' = [iptr EXCEPT ![s] = Stored(p, h)]
      /\ prep' = [prep EXCEPT ![s] = "P"] /\ pc' = GoesOn(s)
  BY <1>2, <1>3, <1>4 DEF PrepareNew
<1>6. /\ p \in Mysqls /\ conn[p.dbn].cur \in DBs
      /\ orderly => PreparedOn(s, c, p)
  BY <1>1, <1>2, <1>3, <1>5, MysqlOf
<1>7. conn[c].hDBC \in Dbcs /\ h \in Handles
  <2>1. conn[c].hDBC \in Dbcs
    BY <1>1, <1>5, ConnFields DEF IsOpen
  <2>2. dbc[conn[c].hDBC].db \in DBs \cup {NULL}
    BY <1>1, <2>1, DbcFields
  <2>3. text'[s] \in Texts
    BY <1>1, AskedTexts
  <2> QED BY <1>4, <2>1, <2>2, <2>3 DEF Handles
<1>8. orderly => h.dbc = conn[c].hDBC /\ h.db = conn[c].cur /\ h.text = text'[s]
  BY <1>2, <1>4, <1>5 DEF RuntimeInv, SessionInv, OpenConns
<1>9. PICK q : q = Stored(p, h)
  OBVIOUS
<1>10. /\ q \in Mysqls /\ q.dbn = p.dbn /\ q.h[conn[p.dbn].cur] = h
       /\ \A db \in DBs : db # conn[p.dbn].cur => q.h[db] = p.h[db]
  BY <1>6, <1>7, <1>9 DEF Stored, Mysqls
<1>11. orderly => PreparedOn(s, c, q)
  BY <1>6, <1>8, <1>10 DEF PreparedOn
<1>12. prep' \in [Stmts -> {"N", "A", "X", "P", "Y"}]
  BY <1>1, <1>5 DEF TypeOK
<1>13. pc' \in Stmts \cup {NULL} /\ (pc' # NULL => Known(At[pc']))
  BY <1>1, <1>5, AskedTexts
<1>14. iptr' = [iptr EXCEPT ![s] = q] /\ conn[q.dbn].cur \in DBs
  BY <1>5, <1>6, <1>9, <1>10
<1>15. /\ text' \in [Stmts -> Texts] /\ ran' = NoRun
       /\ \A t \in Stmts : t # s => text'[t] = text[t]
       /\ UNCHANGED <<odbc, connvar, maxdb, orderly>>
  BY <1>1, AskedTexts
<1> QED BY <1>1, <1>2, <1>5, <1>10, <1>11, <1>12, <1>13, <1>14, <1>15, CachedStep

(* OCSQLPRE fails on the way. *)
LEMMA PrepareFailsStep ==
    ASSUME RuntimeInv, NEW s \in Stmts, PrepareFails(s) PROVE RuntimeInv'
<1>1. TypeOK /\ Asks(s) /\ Known(At[s])
  BY DEF RuntimeInv, PrepareFails, Asks
<1>2. PICK c \in Conns : c = ConnOf(At[s])
  BY <1>1, AskedTexts
<1>3. PICK p : p = IF Dropped(s) = NULL THEN NewMysql(c) ELSE Dropped(s)
  OBVIOUS
<1>4. /\ ~conn[c].closed /\ iptr' = [iptr EXCEPT ![s] = p]
      /\ prep' = [prep EXCEPT ![s] = "X"] /\ pc' \in {NULL, GoesOn(s)}
  BY <1>2, <1>3 DEF PrepareFails
<1>5. /\ p \in Mysqls /\ conn[p.dbn].cur \in DBs
      /\ orderly => PreparedOn(s, c, p)
  BY <1>1, <1>2, <1>3, <1>4, MysqlOf
<1>6. prep' \in [Stmts -> {"N", "A", "X", "P", "Y"}]
  BY <1>1, <1>4 DEF TypeOK
<1>7. pc' \in Stmts \cup {NULL} /\ (pc' # NULL => Known(At[pc']))
  BY <1>1, <1>4, AskedTexts
<1>8. /\ text' \in [Stmts -> Texts] /\ ran' = NoRun
      /\ \A t \in Stmts : t # s => text'[t] = text[t]
      /\ UNCHANGED <<odbc, connvar, maxdb, orderly>>
  BY <1>1, AskedTexts
<1> QED BY <1>1, <1>2, <1>4, <1>5, <1>6, <1>7, <1>8, CachedStep

-----------------------------------------------------------------------------
(* CONNECT. *)

(* There is an environment left to allocate: each of those that are still  *)
(* allocated belongs to a connection of its own.                           *)
LEMMA EnvLeft ==
    ASSUME RuntimeInv, hEnv = 0
    PROVE  \E i \in 1 .. MaxDbc + 1 : i \notin envs
<1> SUFFICES ASSUME 1 .. MaxDbc + 1 \subseteq envs PROVE FALSE
  OBVIOUS
<1>1. MaxDbc \in Nat
  BY OcSqlAssumption
<1> DEFINE f == [d \in Dbcs |-> dbc[d].env]
<1>2. PICK E : E = {dbc[d].env : d \in Dbcs}
  OBVIOUS
<1>3. f \in Surjection(Dbcs, E)
  BY <1>2 DEF Surjection
<1>4. IsFiniteSet(Dbcs) /\ Cardinality(Dbcs) \in 0 .. MaxDbc
  <2>1. Dbcs \in SUBSET Dbcs
    OBVIOUS
  <2> QED BY <2>1, FiniteDbcs
<1>5. IsFiniteSet(E) /\ Cardinality(E) <= Cardinality(Dbcs)
  BY <1>3, <1>4, FS_Surjection
<1>6. 1 .. MaxDbc + 1 \in SUBSET E
  BY <1>2 DEF RuntimeInv, CountInv
<1>7. Cardinality(1 .. MaxDbc + 1) <= Cardinality(E)
  BY <1>5, <1>6, FS_Subset
<1>8. Cardinality(1 .. MaxDbc + 1) = MaxDbc + 1
  <2>1. PICK a \in Int, b \in Int : a = 1 /\ b = MaxDbc + 1
    BY <1>1
  <2>2. Cardinality(a .. b) = IF a > b THEN 0 ELSE b - a + 1
    BY FS_Interval
  <2> QED BY <1>1, <2>1, <2>2
<1>9. Cardinality(E) \in Nat /\ Cardinality(Dbcs) \in Nat
  BY <1>4, <1>5, FS_CardinalityType
<1> QED BY <1>1, <1>4, <1>5, <1>7, <1>8, <1>9

(* A program that has no connection open has nothing cached. *)
LEMMA Disconnected ==
    ASSUME RuntimeInv, orderly, nConn = 0
    PROVE  OpenDbcs = {} /\ OpenConns = {} /\ \A s \in Stmts : iptr[s] = NULL
<1> USE DEF RuntimeInv
<1>1. OpenDbcs = {}
  <2>1. IsFiniteSet(OpenDbcs)
    BY FiniteDbcs DEF OpenDbcs
  <2> QED BY <2>1, FS_EmptySet DEF NothingLeaks
<1>2. OpenConns = {}
  <2> SUFFICES ASSUME NEW c \in OpenConns PROVE FALSE
    OBVIOUS
  <2>1. c \in Conns /\ IsOpen(conn[c].hDBC)
    BY DEF SessionInv, OpenConns
  <2> QED BY <1>1, <2>1, ConnFields DEF IsOpen, OpenDbcs
<1> QED BY <1>1, <1>2 DEF NothingLeaks

(* What is common to all ends of a CONNECT. *)
LEMMA ConnectFrame ==
    ASSUME RuntimeInv, UNCHANGED <<maxdb, stmtvar, pc>>, ran' = NoRun, pc = NULL,
           hEnv' \in 0 .. MaxDbc + 1, envs' \in SUBSET (1 .. MaxDbc + 1),
           dbc' \in [Dbcs -> DbcRecs], conn' \in [Conns -> ConnRecs],
           hConn' \in [Names -> Conns \cup {NULL}], nConn' \in Nat,
           CountInv',
           \A c \in Conns : ~conn'[c].closed => conn'[c].cur \in DBs,
           \A c \in Conns : conn[c].cur \in DBs => conn'[c].cur \in DBs
    PROVE  TypeOK' /\ CountInv' /\ CurrentInv' /\ RunsWhatWasAsked'
<1> USE DEF RuntimeInv, stmtvar
<1>1. nConn' \in 0 .. MaxDbc
  <2>1. UsedDbcs' \in SUBSET Dbcs
    BY DEF UsedDbcs
  <2>2. Cardinality(UsedDbcs') \in 0 .. MaxDbc
    BY <2>1, FiniteDbcs
  <2>3. MaxDbc \in Nat /\ nConn' <= Cardinality(UsedDbcs)'
    BY OcSqlAssumption DEF CountInv
  <2> QED BY <2>2, <2>3
<1>2. ran' \in [stmt : Stmts \cup {NULL}, h : Handles]
  BY NoHandleType DEF NoRun
<1>3. TypeOK'
  BY <1>1, <1>2 DEF TypeOK, ConnRecs, DbcRecs
<1>4. CurrentInv'
  <2>1. \A s \in Stmts : iptr[s] # NULL => iptr[s].dbn \in Conns /\ conn[iptr[s].dbn].cur \in DBs
    BY CacheFields DEF CurrentInv
  <2> QED BY <2>1 DEF CurrentInv
<1>5. RunsWhatWasAsked'
  BY DEF RunsWhatWasAsked, NoRun, NoHandle
<1> QED BY <1>3, <1>4, <1>5

(* A CONNECT that fails leaves the program without a connection, and one   *)
(* environment that is the runtime's or none.                              *)
LEMMA StillDisconnected ==
    ASSUME RuntimeInv, TypeOK', UNCHANGED <<iptr, nConn>>, orderly, nConn = 0,
           OpenDbcs' = OpenDbcs, OpenConns' = OpenConns, envs' = {hEnv'} \ {0}
    PROVE  NothingLeaks' /\ SessionInv' /\ CacheInv'
<1>1. OpenDbcs' = {} /\ OpenConns' = {} /\ \A s \in Stmts : iptr'[s] = NULL
  BY Disconnected
<1>2. NothingLeaks'
  <2>1. EnvsInUse(0)' = {}
    BY <1>1 DEF EnvsInUse
  <2> QED BY <1>1, <2>1, FS_EmptySet DEF NothingLeaks
<1> QED BY <1>1, <1>2 DEF SessionInv, CacheInv

(* OCSQL: a CONNECT, however far it gets. *)
LEMMA ConnectStep ==
    ASSUME RuntimeInv, NEW n \in Names \cup {Main},
           NEW how \in {"ok", "noenv", "nodbc", "refused"}, Connect(n, how)
    PROVE  RuntimeInv'
<1> USE DEF RuntimeInv
<1> DEFINE c == IF n = Main THEN 0 ELSE CHOOSE i \in Conns : ~conn[i].used
           d == CHOOSE i \in Dbcs : dbc[i].st = "none"
           e == IF hEnv # 0 THEN hEnv ELSE CHOOSE i \in 1 .. MaxDbc + 1 : i \notin envs
<1> HIDE DEF c, d, e
<1>1. c = IF n = Main THEN 0 ELSE CHOOSE i \in Conns : ~conn[i].used
  BY DEF c
<1>2. d = CHOOSE i \in Dbcs : dbc[i].st = "none"
  BY DEF d
<1>3. e = IF hEnv # 0 THEN hEnv ELSE CHOOSE i \in 1 .. MaxDbc + 1 : i \notin envs
  BY DEF e
<1>4. /\ pc = NULL /\ ran' = NoRun /\ UNCHANGED <<maxdb, stmtvar, pc>>
      /\ n # Main => \E i \in Conns : ~conn[i].used
      /\ \E i \in Dbcs : dbc[i].st = "none"
      /\ hConn' = IF n = Main THEN hConn ELSE [hConn EXCEPT ![n] = c]
      /\ orderly' = (orderly /\ nConn = 0)
      /\ \/ /\ how = "noenv" /\ hEnv = 0
            /\ conn' = [conn EXCEPT ![c].used = TRUE]
            /\ UNCHANGED <<odbc, nConn>>
         \/ /\ how = "nodbc"
            /\ hEnv' = e /\ envs' = envs \cup {e}
            /\ conn' = [conn EXCEPT ![c].used = TRUE, ![c].hDBC = 0]
            /\ UNCHANGED <<dbc, nConn>>
         \/ /\ how = "refused"
            /\ dbc' = [dbc EXCEPT ![d].st = "freed"]
            /\ conn' = [conn EXCEPT ![c].used = TRUE, ![c].hDBC = d]
            /\ hEnv' = IF n = Main THEN 0 ELSE e
            /\ envs' = IF n = Main THEN FreedEnv(envs \cup {e}, e, EnvsInUse(d))
                       ELSE envs \cup {e}
            /\ UNCHANGED nConn
         \/ /\ how = "ok"
            /\ \E db \in DBs :
                  /\ dbc' = [dbc EXCEPT ![d] = [st |-> "open", env |-> e, db |-> db]]
                  /\ conn' = [conn EXCEPT ![c] = [used |-> TRUE, closed |-> FALSE,
                                                  hDBC |-> d, cur |-> db]]
            /\ hEnv' = e /\ envs' = envs \cup {e}
            /\ nConn' = nConn + 1
  BY DEF Connect, c, d, e
<1>5. c \in Conns /\ d \in Dbcs /\ dbc[d].st = "none" /\ dbc[d].env = 0
  <2>1. 0 \in Conns
    BY OcSqlAssumption DEF Conns
  <2>2. c \in Conns
    BY <1>1, <1>4, <2>1
  <2>3. d \in Dbcs /\ dbc[d].st = "none"
    BY <1>2, <1>4
  <2> QED BY <2>2, <2>3 DEF CountInv
<1>6. e \in 1 .. MaxDbc + 1 /\ (e = hEnv \/ (hEnv = 0 /\ e \notin envs)) /\ e # 0
  <2>1. CASE hEnv # 0
    BY <1>3, <2>1, OcSqlAssumption DEF TypeOK
  <2>2. CASE hEnv = 0
    <3>1. e \in 1 .. MaxDbc + 1 /\ e \notin envs
      BY <1>3, <2>2, EnvLeft
    <3> QED BY <2>2, <3>1, OcSqlAssumption
  <2> QED BY <2>1, <2>2
<1>7. hConn' \in [Names -> Conns \cup {NULL}] /\ nConn \in Nat /\ MaxDbc \in Nat /\ d # 0
  BY <1>4, <1>5, OcSqlAssumption DEF TypeOK, Dbcs
<1>8. OpenConns \in SUBSET Conns /\ UsedDbcs \in SUBSET Dbcs
  BY DEF OpenConns, UsedDbcs
<1>9. CASE how = "noenv"
  <2>1. /\ conn' = [conn EXCEPT ![c].used = TRUE] /\ UNCHANGED <<hEnv, envs, dbc, nConn>>
    BY <1>4, <1>9 DEF odbc
  <2>2. /\ \A i \in Conns : conn'[i].closed = conn[i].closed /\ conn'[i].cur = conn[i].cur
        /\ conn' \in [Conns -> ConnRecs]
    BY <1>5, <2>1, ConnReused
  <2>3. OpenConns' = OpenConns /\ UsedDbcs' = UsedDbcs /\ OpenDbcs' = OpenDbcs
    BY <2>1, <2>2 DEF OpenConns, UsedDbcs, OpenDbcs
  <2>4. CountInv'
    BY <2>1, <2>3 DEF CountInv
  <2>5. TypeOK' /\ CountInv' /\ CurrentInv' /\ RunsWhatWasAsked'
    <3>1. /\ hEnv' \in 0 .. MaxDbc + 1 /\ envs' \in SUBSET (1 .. MaxDbc + 1)
          /\ dbc' \in [Dbcs -> DbcRecs]
      BY <2>1 DEF TypeOK, DbcRecs
    <3> QED BY <1>4, <1>7, <2>1, <2>2, <2>4, <3>1, ConnectFrame DEF CurrentInv
  <2>6. orderly' => NothingLeaks' /\ SessionInv' /\ CacheInv'
    BY <1>4, <2>1, <2>3, <2>5, StillDisconnected DEF stmtvar, NothingLeaks
  <2> QED BY <2>5, <2>6
<1>10. CASE how = "nodbc"
  <2>1. /\ conn' = [conn EXCEPT ![c].used = TRUE, ![c].hDBC = 0]
        /\ hEnv' = e /\ envs' = envs \cup {e} /\ UNCHANGED <<dbc, nConn>>
    BY <1>4, <1>10
  <2>2. /\ \A i \in Conns : conn'[i].closed = conn[i].closed /\ conn'[i].cur = conn[i].cur
        /\ conn' \in [Conns -> ConnRecs]
    BY <1>5, <2>1, ConnReconnected
  <2>3. OpenConns' = OpenConns /\ UsedDbcs' = UsedDbcs /\ OpenDbcs' = OpenDbcs
    BY <2>1, <2>2 DEF OpenConns, UsedDbcs, OpenDbcs
  <2>4. CountInv'
    <3>1. \A x \in envs' : x = hEnv' \/ \E i \in Dbcs : dbc'[i].env = x
      BY <1>6, <2>1 DEF CountInv, TypeOK
    <3>2. hEnv' \in envs'
      BY <2>1
    <3> QED BY <2>1, <2>3, <3>1, <3>2 DEF CountInv
  <2>5. TypeOK' /\ CountInv' /\ CurrentInv' /\ RunsWhatWasAsked'
    <3>1. hEnv' \in 0 .. MaxDbc + 1 /\ envs' \in SUBSET (1 .. MaxDbc + 1)
      BY <1>6, <1>7, <2>1 DEF TypeOK
    <3> QED BY <1>4, <1>7, <2>1, <2>2, <2>4, <3>1, ConnectFrame DEF TypeOK, CurrentInv, DbcRecs
  <2>6. orderly' => NothingLeaks' /\ SessionInv' /\ CacheInv'
    <3>1. orderly' => envs' = {hEnv'} \ {0}
      BY <1>4, <1>6, <2>1 DEF NothingLeaks
    <3> QED BY <1>4, <2>1, <2>3, <2>5, <3>1, StillDisconnected DEF stmtvar
  <2> QED BY <2>5, <2>6
<1>11. CASE how = "refused"
  <2>1. /\ dbc' = [dbc EXCEPT ![d].st = "freed"]
        /\ conn' = [conn EXCEPT ![c].used = TRUE, ![c].hDBC = d]
        /\ hEnv' = IF n = Main THEN 0 ELSE e
        /\ envs' = IF n = Main THEN FreedEnv(envs \cup {e}, e, EnvsInUse(d)) ELSE envs \cup {e}
        /\ UNCHANGED nConn
    BY <1>4, <1>11
  <2>2. /\ \A i \in Conns : conn'[i].closed = conn[i].closed /\ conn'[i].cur = conn[i].cur
        /\ conn' \in [Conns -> ConnRecs]
    BY <1>5, <2>1, ConnReconnected
  <2>3. /\ dbc' \in [Dbcs -> DbcRecs] /\ dbc'[d].st = "freed"
        /\ \A i \in Dbcs : i # d => dbc'[i] = dbc[i]
        /\ \A i \in Dbcs : dbc'[i].env = dbc[i].env
    BY <1>5, <2>1, DbcFreed
  <2>4. OpenConns' = OpenConns /\ UsedDbcs' = UsedDbcs \cup {d} /\ OpenDbcs' = OpenDbcs
    <3>1. OpenConns' = OpenConns
      BY <2>2 DEF OpenConns
    <3>2. UsedDbcs' = UsedDbcs \cup {d}
      BY <1>5, <2>3 DEF UsedDbcs
    <3>3. OpenDbcs' = OpenDbcs
      BY <1>5, <2>3 DEF OpenDbcs
    <3> QED BY <3>1, <3>2, <3>3
  <2>5. envs' \in SUBSET (1 .. MaxDbc + 1) /\ hEnv' \in 0 .. MaxDbc + 1
    BY <1>6, <1>7, <2>1 DEF FreedEnv, TypeOK
  <2>6. CountInv'
    <3>1. \A x \in envs' : x = hEnv' \/ \E i \in Dbcs : dbc'[i].env = x
      <4>1. \A x \in EnvsInUse(d) : \E i \in Dbcs : dbc[i].env = x
        BY DEF EnvsInUse, OpenDbcs
      <4> QED BY <1>6, <2>1, <2>3, <4>1 DEF CountInv, FreedEnv, TypeOK
    <3>2. hEnv' # 0 => hEnv' \in envs'
      BY <2>1
    <3>3. Cardinality(UsedDbcs) <= Cardinality(UsedDbcs')
      <4>1. UsedDbcs' \in SUBSET Dbcs
        BY <1>5, <1>8, <2>4
      <4>2. IsFiniteSet(UsedDbcs') /\ UsedDbcs \in SUBSET UsedDbcs'
        BY <2>4, <4>1, FiniteDbcs
      <4> QED BY <4>2, FS_Subset
    <3>4. Cardinality(OpenConns') <= nConn' /\ nConn' <= Cardinality(UsedDbcs')
      <4>1. Cardinality(UsedDbcs) \in Nat /\ Cardinality(UsedDbcs') \in Nat
        <5>1. UsedDbcs' \in SUBSET Dbcs
          BY <1>5, <1>8, <2>4
        <5>2. Cardinality(UsedDbcs) \in 0 .. MaxDbc /\ Cardinality(UsedDbcs') \in 0 .. MaxDbc
          BY <1>8, <5>1, FiniteDbcs
        <5> QED BY <1>7, <5>2
      <4>2. Cardinality(OpenConns) <= nConn /\ nConn <= Cardinality(UsedDbcs)
        BY DEF CountInv
      <4> QED BY <1>7, <2>1, <2>4, <3>3, <4>1, <4>2
    <3>5. \A i \in Dbcs : dbc'[i].st = "none" => dbc'[i].env = 0
      BY <2>3 DEF CountInv
    <3> QED BY <3>1, <3>2, <3>4, <3>5 DEF CountInv
  <2>7. TypeOK' /\ CountInv' /\ CurrentInv' /\ RunsWhatWasAsked'
    BY <1>4, <1>7, <2>1, <2>2, <2>3, <2>5, <2>6, ConnectFrame DEF CurrentInv
  <2>8. orderly' => NothingLeaks' /\ SessionInv' /\ CacheInv'
    <3>1. orderly' => envs' = {hEnv'} \ {0}
      <4>1. orderly' => OpenDbcs = {}
        BY <1>4, Disconnected
      <4>2. orderly' => EnvsInUse(d) = {}
        BY <4>1 DEF EnvsInUse
      <4> QED BY <1>4, <1>6, <2>1, <4>2 DEF NothingLeaks, FreedEnv
    <3> QED BY <1>4, <2>1, <2>4, <2>7, <3>1, StillDisconnected DEF stmtvar
  <2> QED BY <2>7, <2>8
<1>12. CASE how = "ok"
  <2>1. PICK db \in DBs :
            /\ dbc' = [dbc EXCEPT ![d] = [st |-> "open", env |-> e, db |-> db]]
            /\ conn' = [conn EXCEPT ![c] = [used |-> TRUE, closed |-> FALSE,
                                            hDBC |-> d, cur |-> db]]
            /\ hEnv' = e /\ envs' = envs \cup {e} /\ nConn' = nConn + 1
    BY <1>4, <1>12
  <2>2. /\ conn' \in [Conns -> ConnRecs]
        /\ ~conn'[c].closed /\ conn'[c].hDBC = d /\ conn'[c].cur = db
        /\ \A i \in Conns : i # c => conn'[i] = conn[i]
    <3>1. conn \in [Conns -> ConnRecs]
      BY DEF TypeOK, ConnRecs
    <3>2. PICK r : r = [used |-> TRUE, closed |-> FALSE, hDBC |-> d, cur |-> db]
      OBVIOUS
    <3>3. r \in ConnRecs /\ ~r.closed /\ r.hDBC = d /\ r.cur = db
      BY <1>5, <3>2 DEF ConnRecs
    <3> QED BY <1>5, <2>1, <3>1, <3>2, <3>3
  <2>3. /\ dbc' \in [Dbcs -> DbcRecs]
        /\ dbc'[d].st = "open" /\ dbc'[d].env = e /\ dbc'[d].db = db
        /\ \A i \in Dbcs : i # d => dbc'[i] = dbc[i]
    <3>1. dbc \in [Dbcs -> DbcRecs]
      BY DEF TypeOK, DbcRecs
    <3>2. PICK r : r = [st |-> "open", env |-> e, db |-> db]
      OBVIOUS
    <3>3. r \in DbcRecs /\ r.st = "open" /\ r.env = e /\ r.db = db
      BY <1>6, <1>7, <3>2 DEF DbcRecs
    <3> QED BY <1>5, <2>1, <3>1, <3>2, <3>3
  <2>4. OpenConns' = OpenConns \cup {c} /\ UsedDbcs' = UsedDbcs \cup {d} /\ d \notin UsedDbcs
        /\ OpenDbcs' = OpenDbcs \cup {d}
    <3>1. OpenConns' = OpenConns \cup {c}
      BY <1>5, <2>2 DEF OpenConns
    <3>2. UsedDbcs' = UsedDbcs \cup {d} /\ d \notin UsedDbcs
      BY <1>5, <2>3 DEF UsedDbcs
    <3>3. OpenDbcs' = OpenDbcs \cup {d}
      BY <1>5, <2>3 DEF OpenDbcs
    <3> QED BY <3>1, <3>2, <3>3
  <2>5. hEnv' \in 0 .. MaxDbc + 1 /\ envs' \in SUBSET (1 .. MaxDbc + 1)
    <3>1. e \in 0 .. MaxDbc + 1
      BY <1>6, <1>7
    <3>2. envs \in SUBSET (1 .. MaxDbc + 1)
      BY DEF TypeOK
    <3> QED BY <1>6, <2>1, <3>1, <3>2
  <2>6. CountInv'
    <3>1. \A x \in envs' : x = hEnv' \/ \E i \in Dbcs : dbc'[i].env = x
      <4> SUFFICES ASSUME NEW x \in envs', x # e PROVE \E i \in Dbcs : dbc'[i].env = x
        BY <2>1
      <4>1. x \in envs /\ x # 0
        BY <2>1 DEF TypeOK
      <4>2. PICK i \in Dbcs : dbc[i].env = x
        BY <1>6, <4>1 DEF CountInv
      <4>3. i # d
        BY <1>5, <4>1, <4>2
      <4> QED BY <2>3, <4>2, <4>3
    <3>2. hEnv' \in envs'
      BY <2>1
    <3>3. Cardinality(OpenConns') <= nConn' /\ nConn' <= Cardinality(UsedDbcs')
      <4>1. IsFiniteSet(OpenConns) /\ Cardinality(OpenConns) \in Nat
        BY <1>8, FiniteConns
      <4>2. IsFiniteSet(UsedDbcs) /\ Cardinality(UsedDbcs) \in 0 .. MaxDbc
        BY <1>8, FiniteDbcs
      <4>3. Cardinality(OpenConns') <= Cardinality(OpenConns) + 1
        <5>1. Cardinality(OpenConns \cup {c}) =
                  IF c \in OpenConns THEN Cardinality(OpenConns) ELSE Cardinality(OpenConns) + 1
          BY <4>1, FS_AddElement
        <5> QED BY <2>4, <4>1, <5>1
      <4>4. Cardinality(UsedDbcs') = Cardinality(UsedDbcs) + 1
        BY <2>4, <4>2, FS_AddElement
      <4>5. Cardinality(OpenConns) <= nConn /\ nConn <= Cardinality(UsedDbcs)
        BY DEF CountInv
      <4>6. Cardinality(OpenConns') \in Nat
        <5>1. OpenConns' \in SUBSET Conns
          BY <1>5, <1>8, <2>4
        <5> QED BY <5>1, FiniteConns
      <4> QED BY <1>7, <2>1, <4>1, <4>2, <4>3, <4>4, <4>5, <4>6
    <3>4. \A i \in Dbcs : dbc'[i].st = "none" => dbc'[i].env = 0
      BY <2>3 DEF CountInv
    <3> QED BY <3>1, <3>2, <3>3, <3>4 DEF CountInv
  <2>7. TypeOK' /\ CountInv' /\ CurrentInv' /\ RunsWhatWasAsked'
    <3>1. /\ \A i \in Conns : ~conn'[i].closed => conn'[i].cur \in DBs
          /\ \A i \in Conns : conn[i].cur \in DBs => conn'[i].cur \in DBs
      BY <2>2 DEF CurrentInv
    <3>2. nConn' \in Nat
      BY <1>7, <2>1
    <3> QED BY <1>4, <1>7, <2>2, <2>3, <2>5, <2>6, <3>1, <3>2, ConnectFrame
  <2>8. ASSUME orderly'
        PROVE  NothingLeaks' /\ SessionInv' /\ CacheInv'
    <3>1. orderly /\ nConn = 0
      BY <1>4, <2>8
    <3>2. OpenDbcs = {} /\ OpenConns = {} /\ \A s \in Stmts : iptr[s] = NULL
      BY <3>1, Disconnected
    <3>3. OpenDbcs' = {d} /\ OpenConns' = {c} /\ nConn' = 1 /\ \A s \in Stmts : iptr'[s] = NULL
      BY <1>4, <2>1, <2>4, <3>1, <3>2 DEF stmtvar
    <3>4. envs' = {hEnv'} \ {0}
      BY <1>6, <2>1, <3>1 DEF NothingLeaks
    <3>5. EnvsInUse(0)' \subseteq envs'
      BY <2>1, <2>3, <3>3 DEF EnvsInUse
    <3>6. NothingLeaks'
      BY <2>7, <3>3, <3>4, <3>5, FS_Singleton DEF NothingLeaks
    <3>7. SessionInv'
      BY <1>5, <1>7, <2>2, <2>3, <3>3 DEF SessionInv, IsOpen
    <3>8. CacheInv'
      BY <3>3 DEF CacheInv
    <3> QED BY <3>6, <3>7, <3>8
  <2> QED BY <2>7, <2>8
<1> QED BY <1>9, <1>10, <1>11, <1>12

-----------------------------------------------------------------------------
(* DISCONNECT. *)

LEMMA DisconnectStep ==
    ASSUME RuntimeInv, NEW n \in Names \cup {Main}, Disconnect(n) PROVE RuntimeInv'
<1> USE DEF RuntimeInv
<1>0. 0 \notin Dbcs
  BY OcSqlAssumption DEF Dbcs
<1>1. PICK c \in Conns : c = ConnOf(n)
  BY KnownConn DEF Disconnect
<1>2. PICK d \in Dbcs \cup {0} : d = conn[c].hDBC
  BY ConnFields
<1>3. /\ pc = NULL /\ ~conn[c].closed /\ nConn' = nConn - 1
      /\ IF nConn = 1
         THEN /\ prep' = [s \in Stmts |-> Cleared(s)]
              /\ iptr' = [s \in Stmts |-> NULL]
              /\ hEnv' = 0 /\ envs' = FreedEnv(envs, hEnv, EnvsInUse(d))
         ELSE UNCHANGED <<prep, iptr, hEnv, envs>>
      /\ dbc' = IF d = 0 THEN dbc ELSE [dbc EXCEPT ![d].st = "freed"]
      /\ conn' = [conn EXCEPT ![c].closed = TRUE]
      /\ ran' = NoRun /\ UNCHANGED <<hConn, maxdb, text, pc, orderly>>
  BY <1>1, <1>2 DEF Disconnect, Forgotten
<1>4. /\ conn' \in [Conns -> ConnRecs] /\ conn'[c].closed
      /\ \A i \in Conns : i # c => conn'[i] = conn[i]
      /\ \A i \in Conns : conn'[i].cur = conn[i].cur
  BY <1>3, ConnClosed
<1>5. /\ dbc' \in [Dbcs -> DbcRecs] /\ (d # 0 => dbc'[d].st = "freed")
      /\ \A i \in Dbcs : i # d => dbc'[i] = dbc[i]
      /\ \A i \in Dbcs : dbc'[i].env = dbc[i].env
  <2>1. CASE d = 0
    BY <1>3, <2>1 DEF TypeOK, DbcRecs
  <2>2. CASE d # 0
    BY <1>2, <1>3, <2>2, DbcFreed
  <2> QED BY <2>1, <2>2
<1>6. OpenConns' = OpenConns \ {c} /\ c \in OpenConns /\ UsedDbcs \subseteq UsedDbcs'
      /\ OpenDbcs' = OpenDbcs \ {d}
  <2>1. OpenConns' = OpenConns \ {c} /\ c \in OpenConns
    BY <1>3, <1>4 DEF OpenConns
  <2>2. UsedDbcs \subseteq UsedDbcs'
    <3>1. \A i \in Dbcs : dbc'[i].st = dbc[i].st \/ dbc'[i].st = "freed"
      BY <1>2, <1>5, <1>0
    <3> QED BY <3>1 DEF UsedDbcs
  <2>3. 0 \notin Dbcs
    BY <1>0
  <2>4. OpenDbcs' = OpenDbcs \ {d}
    BY <1>2, <1>5, <2>3 DEF OpenDbcs
  <2> QED BY <2>1, <2>2, <2>4
<1>7. nConn \in Nat /\ nConn >= 1 /\ Cardinality(OpenConns') <= nConn'
      /\ nConn' <= Cardinality(UsedDbcs') /\ nConn' \in 0 .. MaxDbc
  <2>1. OpenConns \in SUBSET Conns /\ UsedDbcs \in SUBSET Dbcs /\ UsedDbcs' \in SUBSET Dbcs
    BY DEF OpenConns, UsedDbcs
  <2>2. IsFiniteSet(OpenConns) /\ Cardinality(OpenConns) \in Nat
    BY <2>1, FiniteConns
  <2>3. Cardinality(OpenConns') = Cardinality(OpenConns) - 1
    BY <1>6, <2>2, FS_RemoveElement
  <2>4. Cardinality(OpenConns) # 0
    BY <1>6, <2>2, FS_EmptySet
  <2>5. IsFiniteSet(UsedDbcs') /\ Cardinality(UsedDbcs') \in 0 .. MaxDbc
        /\ Cardinality(UsedDbcs) \in 0 .. MaxDbc
    BY <2>1, FiniteDbcs
  <2>6. Cardinality(UsedDbcs) <= Cardinality(UsedDbcs')
    BY <1>6, <2>5, FS_Subset
  <2>7. /\ Cardinality(OpenConns) <= nConn /\ nConn <= Cardinality(UsedDbcs)
        /\ nConn \in 0 .. MaxDbc /\ MaxDbc \in Nat
    BY OcSqlAssumption DEF CountInv, TypeOK
  <2> QED BY <1>3, <2>2, <2>3, <2>4, <2>5, <2>6, <2>7
<1>8. TypeOK'
  <2>1. prep' \in [Stmts -> {"N", "A", "X", "P", "Y"}]
    BY <1>3 DEF TypeOK, Cleared
  <2>2. iptr' \in [Stmts -> Mysqls \cup {NULL}]
    BY <1>3 DEF TypeOK, Mysqls
  <2>3. ran' \in [stmt : Stmts \cup {NULL}, h : Handles]
    BY <1>3, NoHandleType DEF NoRun
  <2>4. hEnv' \in 0 .. MaxDbc + 1 /\ envs' \subseteq 1 .. MaxDbc + 1
    BY <1>3, OcSqlAssumption DEF TypeOK, FreedEnv
  <2> QED BY <1>3, <1>4, <1>5, <1>7, <2>1, <2>2, <2>3, <2>4 DEF TypeOK, ConnRecs, DbcRecs, Mysqls
<1>9. CountInv'
  <2>1. \A x \in envs' : x = hEnv' \/ \E i \in Dbcs : dbc'[i].env = x
    <3>1. \A x \in EnvsInUse(d) : \E i \in Dbcs : dbc[i].env = x
      BY DEF EnvsInUse, OpenDbcs
    <3>2. CASE nConn = 1
      BY <1>3, <1>5, <3>1, <3>2 DEF CountInv, FreedEnv
    <3>3. CASE nConn # 1
      BY <1>3, <1>5, <3>3 DEF CountInv
    <3> QED BY <3>2, <3>3
  <2>2. hEnv' # 0 => hEnv' \in envs'
    BY <1>3 DEF CountInv
  <2>3. \A i \in Dbcs : dbc'[i].st = "none" => dbc'[i].env = 0
    <3>1. \A i \in Dbcs : dbc'[i].st = dbc[i].st \/ dbc'[i].st = "freed"
      BY <1>0, <1>2, <1>5
    <3> QED BY <1>5, <3>1 DEF CountInv
  <2> QED BY <1>7, <2>1, <2>2, <2>3 DEF CountInv
<1>10. CurrentInv'
  <2>1. \A s \in Stmts : iptr'[s] # NULL => iptr'[s] = iptr[s]
    BY <1>3
  <2>2. \A s \in Stmts : iptr[s] # NULL => iptr[s].dbn \in Conns /\ conn[iptr[s].dbn].cur \in DBs
    BY CacheFields DEF CurrentInv
  <2> QED BY <1>3, <1>4, <2>1, <2>2 DEF CurrentInv
<1>11. RunsWhatWasAsked'
  BY <1>3 DEF RunsWhatWasAsked, NoRun, NoHandle
<1>12. ASSUME orderly PROVE NothingLeaks' /\ SessionInv' /\ CacheInv'
  <2>1. nConn = 1
    BY <1>7, <1>12 DEF SessionInv
  <2>2. IsOpen(d) /\ d \in OpenDbcs
    BY <1>2, <1>6, <1>12 DEF SessionInv, IsOpen, OpenDbcs
  <2>3. OpenDbcs = {d}
    <3>1. IsFiniteSet(OpenDbcs)
      BY FiniteDbcs DEF OpenDbcs
    <3>2. Cardinality(OpenDbcs) = 1
      BY <1>12, <2>1 DEF NothingLeaks
    <3> QED BY <2>2, <3>1, <3>2, FS_Singleton
  <2>4. OpenDbcs' = {} /\ nConn' = 0 /\ \A s \in Stmts : iptr'[s] = NULL
    BY <1>3, <1>6, <2>1, <2>3
  <2>5. EnvsInUse(d) = {} /\ EnvsInUse(0)' = {}
    BY <2>3, <2>4 DEF EnvsInUse
  <2>6. envs' = {} /\ hEnv' = 0
    BY <1>3, <1>12, <2>1, <2>5 DEF NothingLeaks, FreedEnv
  <2>7. NothingLeaks'
    BY <1>8, <2>4, <2>5, <2>6, FS_EmptySet DEF NothingLeaks
  <2>8. OpenConns' = {}
    <3>1. Cardinality(OpenConns') = 0
      <4>1. OpenConns' \in SUBSET Conns
        BY DEF OpenConns
      <4>2. Cardinality(OpenConns') \in Nat
        BY <4>1, FiniteConns
      <4> QED BY <1>7, <2>4, <4>2
    <3>2. IsFiniteSet(OpenConns')
      <4>1. OpenConns' \in SUBSET Conns
        BY DEF OpenConns
      <4> QED BY <4>1, FiniteConns
    <3> QED BY <3>1, <3>2, FS_EmptySet
  <2>9. SessionInv' /\ CacheInv'
    BY <2>4, <2>8 DEF SessionInv, CacheInv
  <2> QED BY <2>7, <2>9
<1> QED BY <1>3, <1>8, <1>9, <1>10, <1>11, <1>12

-----------------------------------------------------------------------------
(* SET SCHEMA: the session and what the runtime knows of it change as one. *)

LEMMA SetSchemaStep ==
    ASSUME RuntimeInv, NEW n \in Names \cup {Main}, NEW db \in DBs, NEW found \in BOOLEAN,
           SetSchema(n, db, found)
    PROVE  RuntimeInv'
<1> USE DEF RuntimeInv
<1>1. PICK c \in Conns : c = ConnOf(n)
  BY KnownConn DEF SetSchema
<1>2. PICK d \in Dbcs : d = conn[c].hDBC
  BY <1>1, ConnFields DEF SetSchema, IsOpen
<1>3. /\ pc = NULL /\ ~conn[c].closed
      /\ dbc' = [dbc EXCEPT ![d].db = db]
      /\ conn' = IF found THEN [conn EXCEPT ![c].cur = db] ELSE conn
      /\ orderly' = (orderly /\ found) /\ ran' = NoRun
      /\ UNCHANGED <<hEnv, envs, hConn, nConn, maxdb, stmtvar, pc>>
  BY <1>1, <1>2 DEF SetSchema, Noted
<1>4. /\ conn' \in [Conns -> ConnRecs] /\ (found => conn'[c].cur = db)
      /\ \A i \in Conns : i # c => conn'[i] = conn[i]
      /\ \A i \in Conns : conn'[i].closed = conn[i].closed /\ conn'[i].hDBC = conn[i].hDBC
  <2>1. CASE found
    <3>1. conn' = [conn EXCEPT ![c].cur = db]
      BY <1>3, <2>1
    <3> QED BY <3>1, ConnNoted
  <2>2. CASE ~found
    BY <1>3, <2>2 DEF TypeOK, ConnRecs
  <2> QED BY <2>1, <2>2
<1>5. /\ dbc' \in [Dbcs -> DbcRecs] /\ dbc'[d].db = db
      /\ \A i \in Dbcs : dbc'[i].env = dbc[i].env /\ dbc'[i].st = dbc[i].st
  BY <1>3, DbcMoved
<1>6. OpenConns' = OpenConns /\ UsedDbcs' = UsedDbcs /\ OpenDbcs' = OpenDbcs
  BY <1>4, <1>5 DEF OpenConns, UsedDbcs, OpenDbcs
<1>7. CountInv'
  BY <1>3, <1>5, <1>6 DEF CountInv
<1>8. TypeOK' /\ CountInv' /\ CurrentInv' /\ RunsWhatWasAsked'
  <2>1. \A i \in Conns : conn'[i].cur = conn[i].cur \/ conn'[i].cur = db
    <3>1. CASE found
      BY <1>4, <3>1
    <3>2. CASE ~found
      BY <1>3, <3>2
    <3> QED BY <3>1, <3>2
  <2>2. /\ \A i \in Conns : ~conn'[i].closed => conn'[i].cur \in DBs
        /\ \A i \in Conns : conn[i].cur \in DBs => conn'[i].cur \in DBs
    BY <1>4, <2>1 DEF CurrentInv
  <2>3. /\ hEnv' \in 0 .. MaxDbc + 1 /\ envs' \in SUBSET (1 .. MaxDbc + 1) /\ nConn' \in Nat
        /\ hConn' \in [Names -> Conns \cup {NULL}]
    BY <1>3 DEF TypeOK
  <2> QED BY <1>3, <1>4, <1>5, <1>7, <2>2, <2>3, ConnectFrame
<1>9. ASSUME orderly'
      PROVE  NothingLeaks' /\ SessionInv' /\ CacheInv'
  <2>1. orderly /\ found /\ UNCHANGED <<hEnv, envs, hConn, nConn, iptr, text>>
    BY <1>3, <1>9 DEF stmtvar
  <2>2. \A h : IsOpen(h) /\ h \in Dbcs => IsOpen(h)'
    BY <1>5 DEF IsOpen
  <2>3. NothingLeaks'
    <3>1. EnvsInUse(0)' = EnvsInUse(0)
      BY <1>5, <1>6 DEF EnvsInUse, OpenDbcs
    <3>2. (\A s \in Stmts : iptr[s] # NULL =>
            \A b \in DBs : iptr[s].h[b] # NoHandle => IsOpen(iptr[s].h[b].dbc))'
      <4> SUFFICES ASSUME NEW s \in Stmts, iptr[s] # NULL, NEW b \in DBs,
                          iptr[s].h[b] # NoHandle
                   PROVE  (iptr[s].h[b].dbc # 0 /\ dbc[iptr[s].h[b].dbc].st = "open")'
        BY <2>1 DEF IsOpen
      <4>1. IsOpen(iptr[s].h[b].dbc) /\ iptr[s].h[b] \in Handles
        BY <2>1, CacheFields DEF NothingLeaks
      <4>2. iptr[s].h[b].dbc \in Dbcs
        BY <4>1 DEF Handles, IsOpen
      <4> QED BY <2>1, <4>1, <4>2, <1>5 DEF IsOpen
    <3>3. nConn = Cardinality(OpenDbcs) /\ envs = {hEnv} \ {0} /\ EnvsInUse(0) \subseteq envs
          /\ (nConn = 0 => \A s \in Stmts : iptr[s] = NULL)
      BY <2>1 DEF NothingLeaks
    <3> QED BY <1>6, <1>8, <2>1, <3>1, <3>2, <3>3 DEF NothingLeaks
  <2>4. OpenConns = {c}
    <3>1. c \in OpenConns /\ OpenConns \in SUBSET Conns
      BY <1>3 DEF OpenConns
    <3>2. IsFiniteSet(OpenConns) /\ Cardinality(OpenConns) \in Nat
      BY <3>1, FiniteConns
    <3>3. Cardinality(OpenConns) # 0
      BY <3>1, <3>2, FS_EmptySet
    <3>4. Cardinality(OpenConns) <= nConn /\ nConn <= 1 /\ nConn \in Nat
      BY <2>1 DEF CountInv, SessionInv, TypeOK
    <3>5. Cardinality(OpenConns) = 1
      BY <3>2, <3>3, <3>4
    <3> QED BY <3>1, <3>2, <3>5, FS_Singleton
  <2>5. SessionInv'
    <3>1. IsOpen(conn[c].hDBC)
      BY <2>1, <2>4 DEF SessionInv
    <3>2. conn'[c].hDBC = d /\ conn'[c].cur = db /\ dbc'[d].db = db /\ IsOpen(d)'
      BY <1>2, <1>4, <1>5, <2>1, <2>2, <3>1
    <3> QED BY <1>6, <2>1, <2>4, <3>2 DEF SessionInv
  <2>6. CacheInv'
    <3> SUFFICES ASSUME NEW s \in Stmts, iptr[s] # NULL
                 PROVE  /\ Known(At[s])' /\ iptr'[s].dbn = ConnOf(At[s])'
                        /\ ~conn'[iptr'[s].dbn].closed
                        /\ \A b \in DBs : Fits(s, b, iptr[s].h[b])'
      BY <2>1 DEF CacheInv
    <3>1. /\ Known(At[s]) /\ iptr[s].dbn = ConnOf(At[s]) /\ ~conn[iptr[s].dbn].closed
          /\ \A b \in DBs : Fits(s, b, iptr[s].h[b])
      BY <2>1 DEF CacheInv
    <3>2. iptr[s].dbn \in Conns
      BY CacheFields
    <3>3. Known(At[s])' /\ ConnOf(At[s])' = ConnOf(At[s])
      BY <2>1, <3>1 DEF Known, ConnOf
    <3> QED BY <1>4, <2>1, <3>1, <3>2, <3>3 DEF Fits
  <2> QED BY <2>3, <2>5, <2>6
<1> QED BY <1>8, <1>9

-----------------------------------------------------------------------------
(* The theorems. *)

LEMMA NextRuntime == RuntimeInv /\ [Next]_vars => RuntimeInv'
<1> SUFFICES ASSUME RuntimeInv, [Next]_vars PROVE RuntimeInv'
  OBVIOUS
<1>1. ASSUME NEW n \in Names \cup {Main}, NEW how \in {"ok", "noenv", "nodbc", "refused"},
             Connect(n, how)
      PROVE  RuntimeInv'
  BY <1>1, ConnectStep
<1>2. ASSUME NEW n \in Names \cup {Main}, Disconnect(n) PROVE RuntimeInv'
  BY <1>2, DisconnectStep
<1>3. ASSUME NEW n \in Names \cup {Main}, NEW db \in DBs, NEW found \in BOOLEAN,
             SetSchema(n, db, found)
      PROVE  RuntimeInv'
  BY <1>3, SetSchemaStep
<1>4. ASSUME NEW s \in Stmts, Prepare(s) PROVE RuntimeInv'
  BY <1>4, PrepareNotConnectedStep, PrepareCachedStep, PrepareNewStep, PrepareFailsStep DEF Prepare
<1>5. ASSUME NEW s \in Stmts, Execute(s) \/ ExecuteUnprepared(s) \/ ExecuteNotConnected(s)
      PROVE  RuntimeInv'
  BY <1>5, ExecuteStep, ExecuteUnpreparedStep, ExecuteNotConnectedStep
<1>6. ASSUME NEW s \in Cursors, Fetch(s) \/ CloseCursor(s) PROVE RuntimeInv'
  BY <1>6, FetchStep, CloseCursorStep, OcSqlAssumption
<1>7. CASE UNCHANGED vars
  <2>1. /\ UNCHANGED <<hEnv, envs, dbc, conn, hConn, nConn, maxdb, prep, iptr, text, pc, ran,
                       orderly>>
    BY <1>7 DEF vars, odbc, connvar, stmtvar
  <2>2. TypeOK' /\ CountInv' /\ CurrentInv'
    BY <2>1 DEF RuntimeInv, TypeOK, CountInv, CurrentInv, OpenConns, UsedDbcs, Known, ConnOf
  <2>3. orderly => NothingLeaks' /\ SessionInv'
    BY <2>1, <2>2 DEF RuntimeInv, NothingLeaks, SessionInv, OpenDbcs, OpenConns, EnvsInUse, IsOpen
  <2>4. orderly => CacheInv'
    BY <2>1 DEF RuntimeInv, CacheInv, Fits, Known, ConnOf
  <2>5. orderly => RunsWhatWasAsked'
    BY <2>1 DEF RuntimeInv, RunsWhatWasAsked, ConnOf, IsOpen
  <2> QED BY <2>1, <2>2, <2>3, <2>4, <2>5 DEF RuntimeInv
<1> QED BY <1>1, <1>2, <1>3, <1>4, <1>5, <1>6, <1>7 DEF Next

(* The invariant always holds. *)
LEMMA RuntimeInvAlways == Spec => []RuntimeInv
BY InitRuntime, NextRuntime, PTL DEF Spec

(* NothingLeaks for every program: whatever fails while it connects,       *)
(* prepares or disconnects, and for any number of statements, connection   *)
(* variables and connections.                                              *)
THEOREM NothingEverLeaks == Spec => []NothingLeaks
<1>1. RuntimeInv => NothingLeaks
  BY DEF RuntimeInv, NothingLeaks
<1> QED BY <1>1, RuntimeInvAlways, PTL

(* RunsWhatWasAsked for every program: the cached handle of a statement is *)
(* of its connection, its text and the database the session is in.         *)
THEOREM AlwaysRunsWhatWasAsked == Spec => []RunsWhatWasAsked
<1>1. RuntimeInv => RunsWhatWasAsked
  BY DEF RuntimeInv, RunsWhatWasAsked
<1> QED BY <1>1, RuntimeInvAlways, PTL
=============================================================================
