------------------------------- MODULE GcJoin -------------------------------
(***************************************************************************)
(* JOINKEYS of GCSORT (src/tools/GCSORT/join.c).  job_joiner sorts the two *)
(* files by their keys, unless they are declared SORTED, looks whether one *)
(* of them is empty, joins them, and sorts the result when there are SORT  *)
(* FIELDS.  join_join_files holds a group of equal keys of each file and   *)
(* compares every record of the one with every record of the other; what   *)
(* is written and which file is read next is decided by join_unpaired,     *)
(* pair by pair, from the join type, the comparison and the two end of     *)
(* file flags: 0 there is more, 1 the last group is in memory, 2 it has    *)
(* been dealt with.                                                        *)
(*                                                                         *)
(* A row of the output is which files it has data of, and the two record   *)
(* buffers that REFORMAT copies from.  OUTREC and OUTFIL see the finished  *)
(* row and are not modelled.                                               *)
(***************************************************************************)
EXTENDS Integers, Sequences, SequencesExt, FiniteSets

CONSTANTS
    MaxKey,    \* the keys are 1 .. MaxKey
    FillKey,   \* the key of a record of fill characters: below or above them
    Shapes,    \* bound: the numbers of records of the two files
    MaxFiles,  \* MAX_FILES_INPUT
    MaxRows,   \* bound: so many rows kept, and then each of them but once
    LineFiles, \* F2 is line sequential; the keys are above the blank
    IOErrors   \* a file may fail to open, a row to be written

ASSUME JoinAssumption ==
    /\ MaxKey \in Nat \ {0} /\ FillKey \in {0, MaxKey + 1}
    /\ MaxFiles \in Nat /\ MaxFiles >= 2 /\ MaxRows \in Nat
    /\ Shapes \subseteq [1 .. 2 -> Nat] /\ LineFiles \in BOOLEAN /\ IOErrors \in BOOLEAN

VARIABLES
    input,    \* the two files
    type,     \* <<cF1, cF2>> of JOIN UNPAIRED: I, U, O, S
    sorted,   \* JOINKEYS ... SORTED, of each file
    leave,    \* what the sort of a file leaves out: INCLUDE, OMIT, STOPAFT
    omit,     \* the records INCLUDE or OMIT of the job leaves out
    resort,   \* SORT FIELDS: the output is sorted
    pc,       \* where job_joiner is
    ret,      \* what it will return
    rest,     \* what is left to read of each file
    group,    \* pDataF1 and pDataF2
    eof,      \* bIsEof
    sumEof,   \* nSumEof, the unused places of the array included
    cmd,      \* f1_cmd and f2_cmd: the commands they hold, R and W
    first,    \* nFirstRound
    at,       \* the loops over the groups
    buffer,   \* recordBufferF1 and recordBufferF2, or none
    cmp,      \* nCmp: -1, 0 or 1
    out       \* the output

settings == <<input, type, sorted, leave, omit, resort>>
reading  == <<rest, group, eof, sumEof>>
looping  == <<cmd, first, at, buffer, cmp>>
vars     == <<settings, pc, ret, reading, looping, out>>

Types == {<<"I", "I">>, <<"U", "U">>, <<"U", "I">>, <<"I", "U">>,
          <<"O", "O">>, <<"O", "S">>, <<"S", "O">>}
Inner == <<"I", "I">>

Keys == 1 .. MaxKey
Blank == [key |-> FillKey, file |-> 0, at |-> 0]
Records(f) == ToSet(input[f])

KeySorted(s) == \A i, j \in DOMAIN s : i < j => s[i].key <= s[j].key

(* At most one of the options is used. *)
None == <<FALSE, FALSE>>
Options ==
    {<<s, {}, {}, FALSE>> : s \in [1 .. 2 -> BOOLEAN]}
    \cup {<<None, {r}, {}, FALSE>> : r \in {q \in Records(1) : q.at = 1}}
    \cup {<<None, {}, {r}, FALSE>> : r \in {q \in Records(2) \cup {Blank} : q.at < 2}}
    \cup {<<None, {}, {}, TRUE>>}

Init ==
    /\ \E shape \in Shapes : \E k1 \in [1 .. shape[1] -> Keys], k2 \in [1 .. shape[2] -> Keys] :
          input = <<[i \in 1 .. shape[1] |-> [key |-> k1[i], file |-> 1, at |-> i]],
                    [i \in 1 .. shape[2] |-> [key |-> k2[i], file |-> 2, at |-> i]]>>
    /\ type \in Types
    /\ \E o \in Options :
          sorted = o[1] /\ leave = o[2] /\ omit = o[3] /\ resort = o[4]
    /\ pc = "sort1" /\ ret = 0
    /\ rest = input /\ group = << <<>>, <<>> >>
    /\ eof = <<0, 0>> /\ sumEof = 0
    /\ cmd = <<{}, {}>> /\ first = TRUE /\ at = <<1, 1>>
    /\ buffer = << <<>>, <<>> >> /\ cmp = 0
    /\ out = <<>>

-----------------------------------------------------------------------------
(* The sort of a file by its join key: job_sort, which also applies the    *)
(* INCLUDE and OMIT of its JOINKEYS.  Equal keys keep their order.         *)

Rank(r, S, order) == Cardinality({q \in S : <<q, r>> \in order})

(* The elements of S in an order: a set of pairs, of which comes before.   *)
Arranged(S, order) ==
    [k \in 1 .. Cardinality(S) |-> CHOOSE r \in S : Rank(r, S, order) = k - 1]

KeyOrder(S) ==
    {p \in S \X S : p[1].key < p[2].key \/ (p[1].key = p[2].key /\ p[1].at < p[2].at)}

F1Order(rows) ==
    {p \in (DOMAIN rows) \X (DOMAIN rows) :
        \/ rows[p[1]].f1.key < rows[p[2]].f1.key
        \/ rows[p[1]].f1.key = rows[p[2]].f1.key /\ p[1] < p[2]}

Keyed(S) == Arranged(S, KeyOrder(S))
KeyedByF1(rows) ==
    LET places == Arranged(DOMAIN rows, F1Order(rows))
    IN  [i \in DOMAIN rows |-> rows[places[i]]]

(* The condition of the sort step looks at includeCondField of the job,    *)
(* which has been set to NULL, and not at that of the JOINKEYS.            *)
Sort(n, here, there) ==
    /\ pc = here /\ pc' = there
    /\ rest' = IF sorted[n] THEN rest
               ELSE [rest EXCEPT ![n] = Keyed(ToSet(@) \ leave)]
    /\ UNCHANGED <<settings, ret, group, eof, sumEof, looping, out>>

SortF1 == Sort(1, "sort1", "sort2")
SortF2 == Sort(2, "sort2", "open")

-----------------------------------------------------------------------------
(* Reading. *)

(* join_ReadFile: the records with the key of the first one.  The record   *)
(* behind them is read ahead (g_nSkipRead), so the end of the file is seen *)
(* together with the last group.                                           *)
Prefix(s) == CHOOSE n \in 1 .. Len(s) :
                /\ \A i \in 1 .. n : s[i].key = s[1].key
                /\ n < Len(s) => s[n + 1].key # s[1].key

GroupOf(s) == SubSeq(s, 1, Prefix(s))
RestOf(s)  == SubSeq(s, Prefix(s) + 1, Len(s))
EofOf(s)   == IF RestOf(s) = <<>> THEN 1 ELSE 0

(* Which file is read, as a function of what is read of the files. *)
ReadGroups(F) ==
    /\ group' = [n \in 1 .. 2 |-> IF n \in F THEN GroupOf(rest[n]) ELSE group[n]]
    /\ rest' = [n \in 1 .. 2 |-> IF n \in F THEN RestOf(rest[n]) ELSE rest[n]]
    /\ eof' = [n \in 1 .. 2 |-> IF n \in F THEN EofOf(rest[n]) ELSE eof[n]]

BothHaveRecords == rest[1] # <<>> /\ rest[2] # <<>>

OpenFails ==
    /\ IOErrors /\ pc = "open"
    /\ pc' = "final" /\ ret' = -1
    /\ UNCHANGED <<settings, reading, looping, out>>

Open ==
    /\ pc = "open" /\ BothHaveRecords
    /\ ReadGroups({1, 2})
    /\ sumEof' = MaxFiles - 2 + eof'[1] + eof'[2]
    /\ pc' = "round"
    /\ UNCHANGED <<settings, ret, looping, out>>

(* The head of the main loop.  A file that has ended is not read; the      *)
(* other one is told to be, but join_unpaired forgets that.                *)
Reads(n, c, e) == ~ first /\ ("R" \in c[n] \/ (n = 1 /\ e[2] = 1))

Round ==
    /\ pc = "round" /\ sumEof < MaxFiles + 2
    /\ LET r1   == Reads(1, cmd, eof)
           cmd2 == IF r1 /\ eof[1] # 0 THEN {"R"} ELSE cmd[2]
           r2   == Reads(2, <<cmd[1], cmd2>>, eof)
           cmd1 == IF r2 /\ eof[2] # 0 THEN {"R"} ELSE cmd[1]
       IN  /\ ReadGroups({n \in 1 .. 2 : eof[n] = 0 /\ <<r1, r2>>[n]})
           /\ cmd' = <<cmd1, cmd2>>
    /\ sumEof' = sumEof + (eof'[1] - eof[1]) + (eof'[2] - eof[2])
    /\ first' = FALSE /\ at' = <<1, 1>>
    /\ pc' = "pair"
    /\ UNCHANGED <<settings, ret, buffer, cmp, out>>

-----------------------------------------------------------------------------
(* join_unpaired: the table of commands. *)

Compare(a, b) == IF a.key < b.key THEN -1 ELSE IF a.key = b.key THEN 0 ELSE 1

(* Whose turn it is, when the keys differ: the file with the lower key; or *)
(* the other one, once that file has been dealt with to its end.           *)
Turn(c) == IF c < 0 THEN (IF eof[1] = 2 THEN 2 ELSE 1)
                    ELSE (IF eof[2] = 2 /\ type # Inner THEN 1 ELSE 2)

(* The table does not look at the end of the other file for the turn. *)
Late(c) == IF c < 0 THEN eof[1] = 2 ELSE eof[2] = 2

Unmatched(n) == IF type[n] \in {"U", "O"} THEN {"W"} ELSE {}

(* Mutation: the records without a match are written for every type. *)
CommandsAll(n, c) ==
    IF c = 0 THEN IF type[1] \in {"O", "S"} THEN {"R"} ELSE {"R", "W"}
    ELSE IF n # Turn(c) THEN {} ELSE {"R", "W"}

(* Mutation: a record that is written is not read past. *)
CommandsStay(n, c) ==
    IF c = 0 THEN IF type[1] \in {"O", "S"} THEN {"R"} ELSE {"R", "W"}
    ELSE IF n # Turn(c) THEN {}
    ELSE IF Unmatched(n) # {} THEN {"W"} ELSE {"R"}

(* The one row of the table that writes a record of F2 and does not read.  *)
Stays(n, c) == type = <<"I", "U">> /\ c < 0 /\ n = 2

Commands(n, c) ==
    IF c = 0 THEN IF type[1] \in {"O", "S"} THEN {"R"} ELSE {"R", "W"}
    ELSE IF n # Turn(c) THEN {}
    ELSE IF Stays(n, c) THEN {"W"}
    ELSE Unmatched(n) \cup {"R"}

(* The last group of file n has been dealt with.                           *)

(* Mutation: the end of one file is taken for the end of the other. *)
EndsBoth(n, c) == eof[n] = 1

Ends(n, c) == eof[n] = 1 /\ (c = 0 \/ type = Inner \/ n = Turn(c))

EofAfter(c) == [n \in 1 .. 2 |-> IF Ends(n, c) THEN 2 ELSE eof[n]]

(* The record buffer of file n is filled with the fill character. *)
Fills(n, c) ==
    /\ c # 0 /\ n # Turn(c)
    /\ \/ n = 2 /\ type \in {<<"U", "U">>, <<"U", "I">>, <<"O", "O">>, <<"O", "S">>}
       \/ n = 2 /\ type \in {<<"I", "U">>, <<"S", "O">>} /\ Late(c)
       \/ n = 1 /\ type \in {<<"U", "U">>, <<"I", "U">>, <<"O", "O">>}
       \/ n = 1 /\ type \in {<<"O", "S">>, <<"S", "O">>} /\ ~ Late(c)

-----------------------------------------------------------------------------
(* The loops over the pairs of the two groups. *)

Record(n) == group[n][at[n]]

(* A file that is declared SORTED and is not: SEQUENCE_ERR.                *)

(* Mutation: a key that is read twice is out of sequence. *)
OutOfSequenceOrEqual(n) ==
    sorted[n] /\ buffer[n] # <<>> /\ buffer[n][1].key >= Record(n).key

OutOfSequence(n) == sorted[n] /\ buffer[n] # <<>> /\ buffer[n][1].key > Record(n).key

Abend ==
    /\ pc = "pair"
    /\ OutOfSequence(1) \/ OutOfSequence(2)
    /\ pc' = "abend"
    /\ UNCHANGED <<settings, ret, reading, looping, out>>

InSequence == pc = "pair" /\ ~ OutOfSequence(1) /\ ~ OutOfSequence(2)

(* On from the loop over F2, which is left when b holds or at its end.     *)
(* cm, ef and c are nCmp, bIsEof and the commands at that point.           *)
Onward(b, cm, ef, c) ==
    IF ~ b /\ at[2] < Len(group[2])
    THEN at' = <<at[1], at[2] + 1>> /\ pc' = pc
    ELSE IF \/ "R" \notin c[1] /\ ef[1] = 0
            \/ cm > 0 /\ ef[2] = 0
            \/ at[1] = Len(group[1])
         THEN at' = <<1, 1>> /\ pc' = "round"
         ELSE at' = <<at[1] + 1, 1>> /\ pc' = pc

LeftOut == {Record(1), Record(2)} \cap omit # {}

(* A pair that INCLUDE or OMIT of the job leaves out: either record does.  *)
Omitted ==
    /\ InSequence /\ LeftOut
    /\ buffer' = << <<Record(1)>>, <<Record(2)>> >>
    /\ Onward(FALSE, cmp, eof, cmd)
    /\ UNCHANGED <<settings, ret, reading, cmd, first, cmp, out>>

Row(c) == [from |-> {n \in 1 .. 2 : "W" \in Commands(n, c)},
           f1 |-> IF Fills(1, c) THEN Blank ELSE Record(1),
           f2 |-> IF Fills(2, c) THEN Blank ELSE Record(2)]

Pair ==
    /\ InSequence /\ ~ LeftOut
    /\ LET c == Compare(Record(1), Record(2))
           cs == <<Commands(1, c), Commands(2, c)>>
           writes == Row(c).from # {}
           leaves == \/ ~ writes /\ "R" \notin cs[2]
                     \/ ~ writes /\ c < 0
                     \/ writes /\ c < 0 /\ EofAfter(c)[1] = 0
       IN  /\ cmd' = cs
           /\ eof' = EofAfter(c)
           /\ sumEof' = sumEof + Cardinality({n \in 1 .. 2 : Ends(n, c)})
           /\ buffer' = << <<Row(c).f1>>, <<Row(c).f2>> >>
           /\ out' = IF writes /\ (Len(out) < MaxRows \/ Row(c) \notin ToSet(out))
                     THEN Append(out, Row(c)) ELSE out
           /\ cmp' = IF writes /\ leaves THEN 0 ELSE c
           /\ Onward(leaves, cmp', eof', cs)
    /\ UNCHANGED <<settings, ret, rest, group, first>>

WriteFails ==
    /\ IOErrors
    /\ InSequence /\ ~ LeftOut
    /\ Row(Compare(Record(1), Record(2))).from # {}
    /\ pc' = "final" /\ ret' = -1
    /\ UNCHANGED <<settings, reading, looping, out>>

JoinEnd ==
    /\ pc = "round" /\ sumEof >= MaxFiles + 2
    /\ pc' = "final"
    /\ UNCHANGED <<settings, ret, reading, looping, out>>

-----------------------------------------------------------------------------
(* One file is empty: join_empty_fileF1 and join_empty_fileF2.             *)

Full(n) == rest[n] # <<>> /\ rest[3 - n] = <<>>

(* join_empty_fileF1 tests the conditions on the buffer of F1. *)
TestedAlone(n) == IF n = 1 THEN Head(rest[1]) ELSE Blank

(* A file that is declared SORTED: the check of F1 never comes to life (it *)
(* sets bcheckF2), that of F2 is made from its second record on, after the *)
(* next read.  Behind the last record it compares with what that read left *)
(* in the area: blanks, or the last record of a file without line ends.    *)
AloneOutOfSequence(n) ==
    /\ n = 2 /\ sorted[2] /\ buffer[2] # <<>>
    /\ IF Len(rest[2]) > 1 THEN rest[2][1].key > rest[2][2].key ELSE LineFiles

Alone(n) ==
    /\ pc = "open" /\ Full(n) /\ type[n] \in {"U", "O"}
    /\ out' = IF TestedAlone(n) \in omit THEN out
              ELSE Append(out, [from |-> {n}, f1 |-> IF n = 1 THEN Head(rest[1]) ELSE Blank,
                                              f2 |-> IF n = 2 THEN Head(rest[2]) ELSE Blank])
    /\ buffer' = [buffer EXCEPT ![n] = <<Head(rest[n])>>]
    /\ rest' = [rest EXCEPT ![n] = Tail(@)]
    /\ pc' = IF AloneOutOfSequence(n) THEN "abend" ELSE IF rest'[n] = <<>> THEN "final" ELSE pc
    /\ UNCHANGED <<settings, ret, group, eof, sumEof, cmd, first, at, cmp>>

(* Nothing to do; or both are empty. *)
NothingToDo ==
    /\ pc = "open"
    /\ \/ rest[1] = <<>> /\ rest[2] = <<>>
       \/ \E n \in 1 .. 2 : Full(n) /\ type[n] \notin {"U", "O"}
    /\ pc' = "final"
    /\ UNCHANGED <<settings, ret, reading, looping, out>>

(* The final sort, by a field of F1 here. *)
FinalSort ==
    /\ pc = "final"
    /\ out' = IF resort THEN KeyedByF1(out) ELSE out
    /\ pc' = "done"
    /\ UNCHANGED <<settings, ret, reading, looping>>

Stopped == pc \in {"done", "abend"} /\ UNCHANGED vars

Step ==
    \/ SortF1 \/ SortF2 \/ Open \/ Round \/ Abend \/ Omitted \/ Pair \/ JoinEnd
    \/ Alone(1) \/ Alone(2) \/ NothingToDo \/ FinalSort

(* The one thread of the program goes on; a failure need not happen. *)
Next == Step \/ OpenFails \/ WriteFails \/ Stopped

Spec == Init /\ [][Next]_vars /\ WF_vars(Step)

-----------------------------------------------------------------------------
(* Properties.                                                             *)

TypeOK ==
    /\ pc \in {"sort1", "sort2", "open", "round", "pair", "final", "done", "abend"}
    /\ \A n \in 1 .. 2 : eof[n] \in 0 .. 2 /\ cmd[n] \subseteq {"R", "W"}
    /\ sumEof \in 0 .. MaxFiles + 2
    /\ pc = "pair" => \A n \in 1 .. 2 : at[n] \in DOMAIN group[n]

(* The records that take part: a file that is SORTED is not sorted again,  *)
(* and none of its records is left out.                                    *)
Joined(n) == {r \in Records(n) : sorted[n] \/ r \notin leave}

Matches(r) == {s \in Joined(3 - r.file) : s.key = r.key}

MatchedRows ==
    IF type[1] \in {"I", "U"}
    THEN {x \in [from : {{1, 2}}, f1 : Joined(1), f2 : Joined(2)] : x.f1.key = x.f2.key}
    ELSE {}

Alones(n) == IF type[n] \in {"U", "O"} THEN {r \in Joined(n) : Matches(r) = {}} ELSE {}

(* The rows of a join type, of the table at join_unpaired.                 *)
Expected ==
    MatchedRows \cup [from : {{1}}, f1 : Alones(1), f2 : {Blank}]
                \cup [from : {{2}}, f1 : {Blank}, f2 : Alones(2)]

Ordered == \A n \in 1 .. 2 : sorted[n] => KeySorted(input[n])

UniqueKeys == \A n \in 1 .. 2 : \A i, j \in DOMAIN input[n] :
                 input[n][i].key = input[n][j].key => i = j

Finished == pc = "done" /\ ret = 0

(* Whatever the type and however many records share a key, the matched     *)
(* rows are all pairs of records with equal keys, each of them once, and   *)
(* a row of one file alone is one the type asks for, of a record without a *)
(* match.  Two groups of equal keys, their ends and the two end of file    *)
(* flags decide every pair.                                                *)
RowsRight ==
    /\ TypeOK
    /\ Ordered /\ omit = {} =>
        /\ \A i \in DOMAIN out :
             \/ out[i] \in MatchedRows
             \/ out[i].from = {1} /\ out[i].f1 \in Alones(1)
             \/ out[i].from = {2} /\ out[i].f2 \in Alones(2)
        /\ Finished => \A x \in MatchedRows : Cardinality({i \in DOMAIN out : out[i] = x}) = 1

(* When no key comes twice in a file, the inner join, the left outer join  *)
(* and the records of F1 only are exactly what the table says, with the    *)
(* other file's half filled.  (The types that ask for records of F2 are    *)
(* not: OuterJoinRight.)                                                   *)
UniqueKeysRight ==
    Finished /\ Ordered /\ omit = {} /\ UniqueKeys /\ type[2] \in {"I", "S"} =>
        ToSet(out) = Expected /\ Len(out) = Cardinality(Expected)

(* A file that is declared SORTED and is in order is reported out of       *)
(* sequence in two cases only, whatever the commands, the groups and the   *)
(* buffers: when FILL is above the keys and the buffer was filled by       *)
(* join_unpaired; and when F1 is empty, F2 is line sequential, and all of  *)
(* its records, two at the least, have been written.                       *)
NoFalseAlarm ==
    pc = "abend" /\ Ordered =>
        \/ FillKey > MaxKey /\ \E n \in 1 .. 2 : sorted[n] /\ buffer[n] = <<Blank>>
        \/ /\ LineFiles /\ sorted[2] /\ Joined(1) = {}
           /\ Len(input[2]) > 1 /\ rest[2] = <<>>

(* As the message has it: "Sequence error for file F2".                    *)
AlarmMeansDisorder == pc = "abend" => ~ Ordered

(* Groups of file n behind the last group of the other file.               *)
Beyond(n) == {r.key : r \in {q \in Joined(n) : \A s \in Joined(3 - n) : s.key < q.key}}

(* The two cases the join does not end in, see JoinAlwaysEnds.             *)
Endless ==
    \/ type = <<"I", "I">> /\ Cardinality(Beyond(1)) > 1
    \/ type = <<"I", "U">> /\ Cardinality(Beyond(2)) > 1

(* The join comes to its end: the loop ends on a sum of end of file flags  *)
(* that join_unpaired must have raised to 2 each, and a file is read only  *)
(* on a command that join_unpaired has left there.                         *)
JoinEnds == Ordered /\ omit = {} /\ ~ Endless ~> pc \in {"done", "abend"}

(* As the documentation has it, for every type.                            *)
JoinAlwaysEnds == Ordered /\ omit = {} ~> pc \in {"done", "abend"}

(* The full outer join has all records of both files, the keys being       *)
(* unique.                                                                 *)
OuterJoinRight ==
    Finished /\ Ordered /\ omit = {} /\ UniqueKeys /\ type = <<"U", "U">> =>
        \A n \in 1 .. 2 : \A r \in Records(n) \ leave :
            \E i \in DOMAIN out : n \in out[i].from /\ <<out[i].f1, out[i].f2>>[n] = r
=============================================================================
