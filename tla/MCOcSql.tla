------------------------------ MODULE MCOcSql ------------------------------
(* A program with the unnamed connection and one connection variable, and  *)
(* statements of each kind, on both connections.                           *)
EXTENDS OcSql

CONSTANTS select, insert, cursor, x

MCKind == [s \in Stmts |-> IF s = select THEN "static"
                           ELSE IF s = insert THEN "indicator" ELSE "dynamic"]
MCAt == [s \in Stmts |-> IF s = select THEN x ELSE Main]
MCMaxDbs == {-1, 2}

(* The properties of the passing run speak of orderly programs only. *)
OrderlyOnly == orderly
=============================================================================
