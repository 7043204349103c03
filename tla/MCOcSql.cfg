CONSTANTS
    select = select
    insert = insert
    cursor = cursor
    x = x
    Main = Main
    NULL = NULL
    Stmts = {select, insert, cursor}
    Cursors = {select, cursor}
    Kind <- MCKind
    At <- MCAt
    Names = {x}
    DBs = {d1, d2}
    Texts = {t1, t2}
    MaxDbc = 2
    MaxConn = 2
    MaxDbs <- MCMaxDbs
SPECIFICATION Spec
INVARIANTS
    NothingLeaks
    RunsWhatWasAsked
PROPERTY
    RetriesRun
CONSTRAINT OrderlyOnly
CHECK_DEADLOCK FALSE
