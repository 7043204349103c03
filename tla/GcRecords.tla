----------------------------- MODULE GcRecords -----------------------------
(***************************************************************************)
(* The records GCSORT moves between its input, its sort buffer, its        *)
(* temporary files and its output, and the two comparisons it makes.       *)
(*                                                                         *)
(* A record is its sort key and its position in the input (lPosAbsRead,    *)
(* kept as phSrt->lPosPnt in memory and as POSPNT in the temporary files); *)
(* the rest of its bytes never decide anything here.  Keys are numbers: a  *)
(* comparison of all SORT FIELDS is one comparison of keys.                *)
(***************************************************************************)
EXTENDS Naturals, Sequences

Record(K) == [key : K, pos : Nat \ {0}]

Elements(s) == {s[i] : i \in DOMAIN s}

(* job_compare_qsort, and job_compare_rek with CHECK_RECORD_POSITION_YES   *)
(* reading the position where it really is: key first, position second.    *)
Before(a, b) == a.key < b.key \/ (a.key = b.key /\ a.pos < b.pos)

(* job_compare_rek when the position it reads is not the record's own:     *)
(* only a difference of keys is decided, a tie may go either way.          *)
MayPrecede(a, b) == a.key <= b.key

KeySorted(s) == \A i, j \in DOMAIN s : i < j => s[i].key <= s[j].key

Stable(s) == \A i, j \in DOMAIN s : i < j => Before(s[i], s[j])

(* What qsort leaves in buffertSort: the records of S in Before's order.   *)
Arrangements(S, n) == {s \in [1..n -> S] : Stable(s) /\ Elements(s) = S}
=============================================================================
