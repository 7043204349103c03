CONSTANTS
    select = select
    insert = insert
    cursor = cursor
    x = x
    Main = Main
    NULL = NULL
    Stmts = {select}
    Cursors = {}
    Kind <- MCKind
    At <- MCAt
    Names = {x}
    DBs = {d1, d2}
    Texts = {t1, t2}
    MaxDbc = 3
    MaxConn = 2
    MaxDbs <- MCMaxDbs
INIT Init
NEXT Next
INVARIANT
    NoInvalidReference
CHECK_DEADLOCK FALSE
