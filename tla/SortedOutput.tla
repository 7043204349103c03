---------------------------- MODULE SortedOutput ----------------------------
(***************************************************************************)
(* What a sort promises, without buffers or files: it reads records, then  *)
(* writes each of them exactly once, always one with the least key among   *)
(* those it still holds; it ends well only when it holds none.             *)
(***************************************************************************)
EXTENDS GcRecords

CONSTANT Keys

VARIABLES pending,  \* the set of records read and not yet written
          out,      \* the records written, in order
          phase     \* "read", "write", "done" or "failed"

vars == <<pending, out, phase>>

Init == pending = {} /\ out = <<>> /\ phase = "read"

(* The last records are read and the writing begins in one step. *)
Read ==
    /\ phase = "read"
    /\ phase' \in {"read", "write"}
    /\ pending \subseteq pending'
    /\ pending' \ pending \subseteq Record(Keys)
    /\ UNCHANGED out

Emit(r) ==
    /\ phase = "write"
    /\ \A q \in pending : r.key <= q.key
    /\ pending' = pending \ {r}
    /\ out' = Append(out, r)
    /\ UNCHANGED phase

Finish ==
    /\ phase = "write"
    /\ pending = {}
    /\ phase' = "done"
    /\ UNCHANGED <<pending, out>>

Fail ==
    /\ phase \in {"read", "write"}
    /\ phase' = "failed"
    /\ pending' \subseteq pending
    /\ UNCHANGED out

Next ==
    \/ Read
    \/ \E r \in pending : Emit(r)
    \/ Finish
    \/ Fail

Spec == Init /\ [][Next]_vars
=============================================================================
