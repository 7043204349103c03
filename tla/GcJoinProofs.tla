---------------------------- MODULE GcJoinProofs ----------------------------
(***************************************************************************)
(* Proofs about GcJoin: the join of two files in the order of their keys   *)
(* finds every pair of records with equal keys and writes it once, writes  *)
(* a record alone only if it has no match, and never takes a file that is  *)
(* in order for one that is not.  The argument is about what lies behind   *)
(* the two groups in memory: a record read past has a key below all that   *)
(* is left of the other file (FrontInv), the commands never move a file    *)
(* past its match (CmdInv), and so the rows of the output are those of the *)
(* records that have been passed and of the pairs of the two groups that   *)
(* the loops have visited (WrittenInv).                                    *)
(***************************************************************************)
EXTENDS GcJoin, FiniteSetTheorems, NaturalsInduction, WellFoundedInduction, TLAPS

Waiting == pc \in {"sort1", "sort2", "open"}
Running == pc \in {"round", "pair"}

Distinct(s) == \A i, j \in DOMAIN s : s[i] = s[j] => i = j

JoinRecord == [key : Keys, file : 1 .. 2, at : Nat]

OutRow == [from : SUBSET (1 .. 2), f1 : JoinRecord \cup {Blank}, f2 : JoinRecord \cup {Blank}]

AloneRow(n, r) == [from |-> {n}, f1 |-> IF n = 1 THEN r ELSE Blank,
                                 f2 |-> IF n = 2 THEN r ELSE Blank]

(* The conditions under which the rows are what they should be.            *)
Plain == Ordered /\ omit = {}
LeftOnly == UniqueKeys /\ type[2] \in {"I", "S"}

-----------------------------------------------------------------------------
(* The inductive invariant. *)

InputInv ==
    /\ type \in Types
    /\ \A n \in 1 .. 2 :
          /\ sorted[n] \in BOOLEAN
          /\ input[n] \in Seq([key : Keys, file : {n}, at : Nat])
          /\ \A i \in DOMAIN input[n] : input[n][i].at = i

(* What holds of the state whatever the order of the files. *)
StateInv ==
    /\ pc \in {"sort1", "sort2", "open", "round", "pair", "final", "done", "abend"}
    /\ first \in BOOLEAN
    /\ rest \in [1 .. 2 -> Seq(JoinRecord)]
    /\ \A n \in 1 .. 2 :
          /\ group[n] \in Seq(JoinRecord)
          /\ eof[n] \in 0 .. 2
          /\ cmd[n] \subseteq {"R", "W"}
          /\ at[n] \in Nat
    /\ sumEof \in 0 .. MaxFiles + 2
    /\ DOMAIN buffer = 1 .. 2
    /\ out \in Seq(OutRow)

PhaseInv ==
    /\ Waiting => first /\ sumEof = 0 /\ eof = <<0, 0>>
    /\ pc \in {"sort1", "sort2"} => out = <<>> /\ buffer = << <<>>, <<>> >>
    /\ Running =>
          /\ sumEof = MaxFiles - 2 + eof[1] + eof[2]
          /\ \A n \in 1 .. 2 : group[n] # <<>> /\ (eof[n] = 0 <=> rest[n] # <<>>)
          /\ first => eof[1] # 2 /\ eof[2] # 2
    /\ pc = "pair" => ~ first /\ \A n \in 1 .. 2 : at[n] \in DOMAIN group[n]

ReadInv == StateInv /\ PhaseInv

(* Before the join: what is sorted so far, and what has been written of a  *)
(* file that is alone.                                                     *)
Taken(n) == Joined(n) \ ToSet(rest[n])

SortedInv ==
    /\ pc = "sort1" => rest[1] = input[1]
    /\ pc \in {"sort1", "sort2"} => rest[2] = input[2]
    /\ Ordered =>
          /\ pc \in {"sort2", "open"} => KeySorted(rest[1]) /\ Distinct(rest[1])
          /\ pc = "sort2" => ToSet(rest[1]) = Joined(1)
          /\ pc = "open" =>
                /\ KeySorted(rest[2]) /\ Distinct(rest[2])
                /\ \A n \in 1 .. 2 : ToSet(rest[n]) \subseteq Joined(n)

AloneInv ==
    pc = "open" /\ Ordered =>
        /\ \A n \in 1 .. 2 : Taken(n) # {} =>
              Joined(3 - n) = {} /\ type[n] \in {"U", "O"} /\ rest[n] # <<>>
        /\ omit = {} => /\ Distinct(out)
                        /\ ToSet(out) = {AloneRow(1, r) : r \in Taken(1)}
                                        \cup {AloneRow(2, r) : r \in Taken(2)}

(* During the join: where the group in memory is in its file. *)
Key(n) == group[n][1].key

Behind(J, g, r) == J \ (ToSet(g) \cup ToSet(r))

Placed(J, g, r) ==
    /\ ToSet(g) \subseteq J /\ ToSet(r) \subseteq J
    /\ Distinct(g) /\ Distinct(r) /\ KeySorted(r)
    /\ \A i \in DOMAIN g : g[i].key = g[1].key
    /\ \A i \in DOMAIN r : g[1].key < r[i].key
    /\ \A p \in Behind(J, g, r) : p.key < g[1].key

PlaceInv == Ordered /\ Running => \A n \in 1 .. 2 : Placed(Joined(n), group[n], rest[n])

(* The buffer that a file declared SORTED is checked with. *)
BufferInv ==
    Ordered =>
        /\ pc = "open" => \A n \in 1 .. 2 : buffer[n] # <<>> => buffer[n][1] \in Taken(n)
        /\ Running =>
              \A n \in 1 .. 2 : buffer[n] # <<>> =>
                  \/ buffer[n] = <<Blank>>
                  \/ buffer[n][1].key \in Int /\ buffer[n][1].key <= Key(n)

Passed(n) == Behind(Joined(n), group[n], rest[n])

(* A record that has been passed has no match in what is left. *)
FrontInv ==
    Plain /\ Running =>
        \A n \in 1 .. 2 : \A p \in Passed(n) :
            /\ \A i \in DOMAIN rest[3 - n] : p.key < rest[3 - n][i].key
            /\ p.key < Key(3 - n) \/ eof[3 - n] = 2

(* What the last pair leaves for the head of the loop. *)
CmdInv ==
    Plain /\ pc = "round" /\ ~ first =>
        /\ Key(1) = Key(2) => /\ "R" \in cmd[1] /\ "R" \in cmd[2]
                              /\ eof[1] # 1 /\ eof[2] # 1
        /\ Key(1) < Key(2) => /\ "R" \in cmd[2] => eof[1] = 2
                              /\ "R" \in cmd[1] => eof[1] # 1
        /\ Key(1) > Key(2) => /\ "R" \in cmd[1] => eof[2] = 2
                              /\ eof[2] # 1

(* The pairs of the two groups that the loops have visited. *)
Visited(i, j) ==
    IF pc = "round" THEN ~ first
    ELSE i < at[1] \/ (i = at[1] /\ j < at[2])

Met(r, s) == \E i \in DOMAIN group[1], j \in DOMAIN group[2] :
                r = group[1][i] /\ s = group[2][j] /\ Visited(i, j)

WrittenInv ==
    Plain /\ Running =>
        \A x \in MatchedRows :
            x \in ToSet(out) <=> x.f1 \in Passed(1) \/ x.f2 \in Passed(2) \/ Met(x.f1, x.f2)

RowInv ==
    Plain =>
        /\ \A i \in DOMAIN out :
              \/ out[i] \in MatchedRows
              \/ out[i].from = {1} /\ out[i].f1 \in Alones(1)
              \/ out[i].from = {2} /\ out[i].f2 \in Alones(2)
        /\ \A i, j \in DOMAIN out : out[i] \in MatchedRows /\ out[i] = out[j] => i = j

(* The rows of F1 alone, the keys being unique.                            *)
LoneWritten ==
    eof[1] = 2 \/ (pc = "round" /\ ~ first /\ "W" \in cmd[1])

LoneInv ==
    Plain /\ LeftOnly =>
        /\ Distinct(out)
        /\ \A i \in DOMAIN out : out[i].from = {1} => out[i].f2 = Blank
        /\ Running => \A r \in Alones(1) :
              AloneRow(1, r) \in ToSet(out) <=>
                  r \in Passed(1) \/ (r = group[1][1] /\ LoneWritten)
        /\ pc = "pair" => eof[1] # 2 \/ eof[2] # 2
        /\ pc = "round" /\ ~ first =>
              /\ "W" \in cmd[1] => "R" \in cmd[1] /\ eof[1] # 1
              /\ Key(1) # Key(2) /\ eof[1] = 0 /\ ("R" \in cmd[1] \/ eof[2] = 1)
                   /\ type[1] \in {"U", "O"}
                    => "W" \in cmd[1]

FinalInv ==
    Plain /\ pc \in {"final", "done"} /\ ret = 0 =>
        /\ MatchedRows \subseteq ToSet(out)
        /\ LeftOnly => {AloneRow(1, r) : r \in Alones(1)} \subseteq ToSet(out)

JoinInv ==
    /\ InputInv /\ ReadInv /\ SortedInv /\ AloneInv /\ PlaceInv /\ BufferInv
    /\ FrontInv /\ CmdInv /\ WrittenInv /\ RowInv /\ LoneInv /\ FinalInv

-----------------------------------------------------------------------------
(* Sequences. *)

(* The elements of a sequence with one more.                               *)
LEMMA ToSetAppend ==
    ASSUME NEW S, NEW s \in Seq(S), NEW e \in S
    PROVE  /\ ToSet(Append(s, e)) = ToSet(s) \cup {e}
           /\ Distinct(s) /\ e \notin ToSet(s) => Distinct(Append(s, e))
<1> DEFINE t == Append(s, e)
<1>1. t \in Seq(S) /\ DOMAIN s = 1 .. Len(s) /\ DOMAIN t = 1 .. Len(s) + 1 /\ Len(s) \in Nat
  OBVIOUS
<1>2. (\A i \in DOMAIN s : t[i] = s[i] /\ i \in DOMAIN t) /\ t[Len(s) + 1] = e
  OBVIOUS
<1>3. \A i \in DOMAIN t : i \in DOMAIN s \/ i = Len(s) + 1
  BY <1>1
<1> HIDE DEF t
<1>4. ToSet(t) = ToSet(s) \cup {e}
  BY <1>1, <1>2, <1>3 DEF ToSet
<1>5. ASSUME Distinct(s), e \notin ToSet(s) PROVE Distinct(t)
  <2> SUFFICES ASSUME NEW i \in DOMAIN t, NEW j \in DOMAIN t, t[i] = t[j] PROVE i = j
    BY DEF Distinct
  <2>1. \A k \in DOMAIN s : s[k] # e
    BY <1>5 DEF ToSet
  <2>2. CASE i \in DOMAIN s /\ j \in DOMAIN s
    BY <1>5, <2>2, <1>2 DEF Distinct
  <2>3. CASE ~ (i \in DOMAIN s /\ j \in DOMAIN s)
    BY <2>1, <2>3, <1>2, <1>3
  <2> QED BY <2>2, <2>3
<1> QED BY <1>4, <1>5 DEF t

(* The elements of a sequence without its first.                           *)
LEMMA TailOf ==
    ASSUME NEW S, NEW s \in Seq(S), s # <<>>
    PROVE  /\ Head(s) \in S /\ Tail(s) \in Seq(S)
           /\ 1 \in DOMAIN s /\ Head(s) = s[1]
           /\ \A i \in DOMAIN Tail(s) : i + 1 \in DOMAIN s /\ Tail(s)[i] = s[i + 1]
           /\ ToSet(s) = {Head(s)} \cup ToSet(Tail(s))
           /\ Distinct(s) => Distinct(Tail(s)) /\ Head(s) \notin ToSet(Tail(s))
           /\ Tail(s) # <<>> => 1 \in DOMAIN Tail(s)
<1> DEFINE t == Tail(s)
<1>1. /\ t \in Seq(S) /\ DOMAIN s = 1 .. Len(s) /\ DOMAIN t = 1 .. Len(s) - 1
      /\ Len(s) \in Nat /\ Len(s) # 0 /\ Head(s) = s[1] /\ 1 \in DOMAIN s
  OBVIOUS
<1>2. \A i \in DOMAIN t : t[i] = s[i + 1]
  OBVIOUS
<1>3. \A i \in DOMAIN t : i \in Int /\ i + 1 \in DOMAIN s /\ i + 1 # 1
  BY <1>1
<1>4. \A i \in DOMAIN s : i = 1 \/ (i - 1 \in DOMAIN t /\ (i - 1) + 1 = i)
  BY <1>1
<1>5. Head(s) \in S
  BY <1>1
<1>6. t # <<>> => 1 \in DOMAIN t
  OBVIOUS
<1> HIDE DEF t
<1>7. ToSet(s) = {Head(s)} \cup ToSet(t)
  <2>1. \A i \in DOMAIN s : s[i] \in {Head(s)} \cup ToSet(t)
    <3> SUFFICES ASSUME NEW i \in DOMAIN s, i # 1 PROVE s[i] \in ToSet(t)
      BY <1>1
    <3>1. i - 1 \in DOMAIN t /\ t[i - 1] = s[i]
      BY <1>2, <1>4
    <3> QED BY <3>1 DEF ToSet
  <2>2. \A i \in DOMAIN t : t[i] \in ToSet(s)
    BY <1>2, <1>3 DEF ToSet
  <2> QED BY <1>1, <2>1, <2>2 DEF ToSet
<1>8. ASSUME Distinct(s) PROVE Distinct(t) /\ Head(s) \notin ToSet(t)
  <2>1. Distinct(t)
    <3> SUFFICES ASSUME NEW i \in DOMAIN t, NEW j \in DOMAIN t, t[i] = t[j] PROVE i = j
      BY DEF Distinct
    <3>1. s[i + 1] = s[j + 1] /\ i + 1 \in DOMAIN s /\ j + 1 \in DOMAIN s
      BY <1>2, <1>3
    <3>2. i + 1 = j + 1
      BY <3>1, <1>8 DEF Distinct
    <3> QED BY <3>2, <1>3
  <2>2. \A i \in DOMAIN t : t[i] # Head(s)
    <3> SUFFICES ASSUME NEW i \in DOMAIN t, t[i] = Head(s) PROVE FALSE
      OBVIOUS
    <3>1. s[i + 1] = s[1] /\ i + 1 \in DOMAIN s /\ 1 \in DOMAIN s
      BY <1>1, <1>2, <1>3
    <3> QED BY <3>1, <1>3, <1>8 DEF Distinct
  <2> QED BY <2>1, <2>2 DEF ToSet
<1> QED BY <1>1, <1>2, <1>3, <1>5, <1>6, <1>7, <1>8 DEF t

(* Of a file in the order of its keys, the rest is in order, and no key of *)
(* it is below that of the record before it.                               *)
LEMMA TailSorted ==
    ASSUME NEW s \in Seq(JoinRecord), s # <<>>, KeySorted(s)
    PROVE  KeySorted(Tail(s)) /\ \A i \in DOMAIN Tail(s) : Head(s).key <= Tail(s)[i].key
<1>1. /\ 1 \in DOMAIN s /\ Head(s) = s[1]
      /\ \A i \in DOMAIN Tail(s) : i + 1 \in DOMAIN s /\ Tail(s)[i] = s[i + 1]
  BY TailOf
<1>2. \A i, j \in DOMAIN Tail(s) : i < j => i + 1 < j + 1
  <2>1. DOMAIN Tail(s) \subseteq Int
    OBVIOUS
  <2> QED BY <2>1
<1>3. KeySorted(Tail(s))
  BY <1>1, <1>2 DEF KeySorted
<1>4. \A i \in DOMAIN Tail(s) : 1 < i + 1
  OBVIOUS
<1> QED BY <1>1, <1>3, <1>4 DEF KeySorted

-----------------------------------------------------------------------------
(* Groups of equal keys. *)

(* The least of some numbers.                                              *)
LEMMA Least ==
    ASSUME NEW S \in SUBSET Nat, S # {}
    PROVE  \E m \in S : \A n \in S : m <= n
<1>1. PICK R : R = OpToRel(<, Nat)
  OBVIOUS
<1>2. IsWellFoundedOn(R, Nat)
  BY <1>1, NatLessThanWellFounded
<1>3. PICK m \in S : \A n \in S : ~ (<<n, m>> \in R)
  BY <1>2, WFMin
<1>4. \A n \in S : m <= n
  <2> SUFFICES ASSUME NEW n \in S PROVE m <= n
    OBVIOUS
  <2>1. <<n, m>> \in Nat \X Nat /\ <<n, m>>[1] = n /\ <<n, m>>[2] = m
    OBVIOUS
  <2>2. R = {ss \in Nat \X Nat : ss[1] < ss[2]}
    BY <1>1 DEF OpToRel
  <2>3. ~ (n < m)
    BY <1>3, <2>1, <2>2
  <2> QED BY <2>3
<1> QED BY <1>3, <1>4

(* The first group of a file: its length exists.                           *)
LEMMA PrefixIs ==
    ASSUME NEW R, NEW s \in Seq(R), s # <<>>
    PROVE  /\ Prefix(s) \in 1 .. Len(s)
           /\ \A i \in 1 .. Prefix(s) : s[i].key = s[1].key
           /\ Prefix(s) < Len(s) => s[Prefix(s) + 1].key # s[1].key
<1> DEFINE Stops == {n \in 1 .. Len(s) : n < Len(s) => s[n + 1].key # s[1].key}
<1>1. Len(s) \in Nat /\ Len(s) >= 1
  OBVIOUS
<1>2. Len(s) \in Stops
  BY <1>1
<1>3. Stops \in SUBSET Nat
  BY <1>1
<1>4. PICK m \in Stops : \A n \in Stops : m <= n
  BY <1>2, <1>3, Least
<1>5. \A i \in 1 .. m : s[i].key = s[1].key
  <2> SUFFICES ASSUME NEW i \in 1 .. m, i # 1 PROVE s[i].key = s[1].key
    OBVIOUS
  <2>1. i - 1 \in 1 .. Len(s) /\ i - 1 < m /\ i - 1 < Len(s) /\ (i - 1) + 1 = i
    BY <1>1
  <2>2. i - 1 \notin Stops
    BY <2>1, <1>3, <1>4
  <2> QED BY <2>1, <2>2
<1>6. m \in 1 .. Len(s) /\ (m < Len(s) => s[m + 1].key # s[1].key)
  OBVIOUS
<1>7. \E n \in 1 .. Len(s) : /\ \A i \in 1 .. n : s[i].key = s[1].key
                             /\ n < Len(s) => s[n + 1].key # s[1].key
  BY <1>5, <1>6
<1> HIDE DEF Stops
<1> QED BY <1>7 DEF Prefix

(* Reading a group divides what is left of a file in two sequences.        *)
LEMMA GroupIs ==
    ASSUME NEW R, NEW s \in Seq(R), s # <<>>
    PROVE  /\ GroupOf(s) \in Seq(R) /\ GroupOf(s) # <<>> /\ RestOf(s) \in Seq(R)
           /\ GroupOf(s)[1] = s[1]
           /\ DOMAIN GroupOf(s) = 1 .. Prefix(s) /\ Prefix(s) \in 1 .. Len(s)
           /\ DOMAIN RestOf(s) = 1 .. Len(s) - Prefix(s)
           /\ \A i \in DOMAIN GroupOf(s) : i \in DOMAIN s /\ GroupOf(s)[i] = s[i]
           /\ \A i \in DOMAIN RestOf(s) :
                 Prefix(s) + i \in DOMAIN s /\ RestOf(s)[i] = s[Prefix(s) + i]
<1>1. PICK p \in 1 .. Len(s) : p = Prefix(s)
  BY PrefixIs
<1>2. GroupOf(s) = SubSeq(s, 1, p) /\ RestOf(s) = SubSeq(s, p + 1, Len(s))
  BY <1>1 DEF GroupOf, RestOf
<1> DEFINE g == SubSeq(s, 1, p)
           r == SubSeq(s, p + 1, Len(s))
<1>3. /\ g \in Seq(R) /\ g # <<>> /\ DOMAIN g = 1 .. p
      /\ \A i \in 1 .. p : i \in DOMAIN s /\ g[i] = s[i]
  OBVIOUS
<1>4. /\ r \in Seq(R) /\ DOMAIN r = 1 .. Len(s) - p
      /\ \A i \in 1 .. Len(s) - p : p + i \in DOMAIN s /\ r[i] = s[p + i]
  OBVIOUS
<1>5. 1 \in 1 .. p
  OBVIOUS
<1> HIDE DEF g, r
<1>6. GroupOf(s) = g /\ RestOf(s) = r
  BY <1>2 DEF g, r
<1>7. g[1] = s[1]
  BY <1>3, <1>5
<1> QED BY <1>1, <1>3, <1>4, <1>6, <1>7

(* Of a file in order, the group has one key and the rest higher ones.     *)
LEMMA GroupSorted ==
    ASSUME NEW s \in Seq(JoinRecord), s # <<>>, KeySorted(s), Distinct(s),
           \A r \in JoinRecord : r.key \in Int
    PROVE  /\ Distinct(GroupOf(s)) /\ Distinct(RestOf(s)) /\ KeySorted(RestOf(s))
           /\ ToSet(s) = ToSet(GroupOf(s)) \cup ToSet(RestOf(s))
           /\ ToSet(GroupOf(s)) \cap ToSet(RestOf(s)) = {}
           /\ \A i \in DOMAIN GroupOf(s) : GroupOf(s)[i].key = s[1].key
           /\ \A i \in DOMAIN RestOf(s) : s[1].key < RestOf(s)[i].key
<1> DEFINE p == Prefix(s)
           g == GroupOf(s)
           r == RestOf(s)
<1>1. /\ p \in 1 .. Len(s) /\ DOMAIN g = 1 .. p /\ DOMAIN r = 1 .. Len(s) - p
      /\ DOMAIN s = 1 .. Len(s) /\ Len(s) \in Nat
      /\ \A i \in DOMAIN g : i \in DOMAIN s /\ g[i] = s[i]
      /\ \A i \in DOMAIN r : p + i \in DOMAIN s /\ r[i] = s[p + i]
  BY GroupIs
<1>2. /\ \A i \in 1 .. p : s[i].key = s[1].key
      /\ p < Len(s) => s[p + 1].key # s[1].key
  BY PrefixIs
<1>3. \A i \in DOMAIN s : s[i].key \in Int
  OBVIOUS
<1> HIDE DEF p, g, r
<1>4. Distinct(g)
  BY <1>1 DEF Distinct
<1>5. Distinct(r)
  <2> SUFFICES ASSUME NEW i \in DOMAIN r, NEW j \in DOMAIN r, r[i] = r[j] PROVE i = j
    BY DEF Distinct
  <2>1. s[p + i] = s[p + j] /\ p + i \in DOMAIN s /\ p + j \in DOMAIN s
    BY <1>1
  <2>2. p + i = p + j
    BY <2>1 DEF Distinct
  <2> QED BY <2>2, <1>1
<1>6. KeySorted(r)
  <2> SUFFICES ASSUME NEW i \in DOMAIN r, NEW j \in DOMAIN r, i < j PROVE r[i].key <= r[j].key
    BY DEF KeySorted
  <2>1. p + i \in DOMAIN s /\ p + j \in DOMAIN s /\ r[i] = s[p + i] /\ r[j] = s[p + j]
    BY <1>1
  <2>2. p + i < p + j
    BY <1>1
  <2> QED BY <2>1, <2>2 DEF KeySorted
<1>7. \A i \in DOMAIN s : i \in DOMAIN g \/ (i - p \in DOMAIN r /\ p + (i - p) = i)
  BY <1>1
<1>8. ToSet(s) = ToSet(g) \cup ToSet(r)
  <2>1. \A i \in DOMAIN s : s[i] \in ToSet(g) \cup ToSet(r)
    <3> SUFFICES ASSUME NEW i \in DOMAIN s PROVE s[i] \in ToSet(g) \cup ToSet(r)
      OBVIOUS
    <3>1. CASE i \in DOMAIN g
      BY <3>1, <1>1 DEF ToSet
    <3>2. CASE i - p \in DOMAIN r /\ p + (i - p) = i
      <4>1. r[i - p] = s[i]
        BY <3>2, <1>1
      <4> QED BY <4>1, <3>2 DEF ToSet
    <3> QED BY <3>1, <3>2, <1>7
  <2>2. ToSet(g) \subseteq ToSet(s) /\ ToSet(r) \subseteq ToSet(s)
    BY <1>1 DEF ToSet
  <2> QED BY <2>1, <2>2 DEF ToSet
<1>9. ToSet(g) \cap ToSet(r) = {}
  <2> SUFFICES ASSUME NEW i \in DOMAIN g, NEW j \in DOMAIN r, g[i] = r[j] PROVE FALSE
    BY DEF ToSet
  <2>1. s[i] = s[p + j] /\ i \in DOMAIN s /\ p + j \in DOMAIN s
    BY <1>1
  <2>2. i = p + j
    BY <2>1 DEF Distinct
  <2> QED BY <2>2, <1>1
<1>10. \A i \in DOMAIN g : g[i].key = s[1].key
  BY <1>1, <1>2
<1>11. \A i \in DOMAIN r : s[1].key < r[i].key
  <2> SUFFICES ASSUME NEW i \in DOMAIN r PROVE s[1].key < r[i].key
    OBVIOUS
  <2>1. p < Len(s) /\ 1 < p + 1 /\ p + 1 \in DOMAIN s /\ 1 \in DOMAIN s /\ p + 1 <= p + i
    BY <1>1
  <2>2. p + i \in DOMAIN s /\ r[i] = s[p + i]
    BY <1>1
  <2>3. s[1].key <= s[p + 1].key /\ s[1].key # s[p + 1].key
    BY <2>1, <1>2 DEF KeySorted
  <2>4. s[p + 1].key <= s[p + i].key
    <3>1. CASE p + 1 = p + i
      BY <3>1, <2>1, <1>3
    <3>2. CASE p + 1 < p + i
      BY <3>2, <2>1, <2>2 DEF KeySorted
    <3> QED BY <3>1, <3>2, <2>1, <1>1
  <2>5. s[1].key \in Int /\ s[p + 1].key \in Int /\ s[p + i].key \in Int
    BY <1>3, <2>1, <2>2
  <2> QED BY <2>2, <2>3, <2>4, <2>5
<1> QED BY <1>4, <1>5, <1>6, <1>8, <1>9, <1>10, <1>11 DEF g, r

-----------------------------------------------------------------------------
(* Sorting. *)

(* A strict total order. *)
Orders(S, order) ==
    /\ \A r \in S : <<r, r>> \notin order
    /\ \A q, r, t \in S : <<q, r>> \in order /\ <<r, t>> \in order => <<q, t>> \in order
    /\ \A q, r \in S : q = r \/ <<q, r>> \in order \/ <<r, q>> \in order

(* The number of elements before one is below that of the set, and lower   *)
(* for the one that comes first.                                           *)
LEMMA RankIs ==
    ASSUME NEW S, IsFiniteSet(S), NEW order, Orders(S, order)
    PROVE  /\ \A r \in S : Rank(r, S, order) \in 0 .. Cardinality(S) - 1
           /\ \A q, r \in S : <<q, r>> \in order => Rank(q, S, order) < Rank(r, S, order)
<1> DEFINE Below(r) == {q \in S : <<q, r>> \in order}
<1>1. PICK n \in Nat : n = Cardinality(S)
  BY FS_CardinalityType
<1>2. ASSUME NEW r \in S
      PROVE  /\ IsFiniteSet(Below(r)) /\ Cardinality(Below(r)) \in Nat
             /\ Cardinality(Below(r)) <= n /\ Cardinality(Below(r)) # n
  <2>1. Below(r) \in SUBSET S /\ Below(r) # S
    BY DEF Orders
  <2> HIDE DEF Below
  <2>2. IsFiniteSet(Below(r)) /\ Cardinality(Below(r)) <= n /\ Cardinality(Below(r)) # n
    BY <1>1, <2>1, FS_Subset
  <2> QED BY <2>2, FS_CardinalityType
<1>3. ASSUME NEW r \in S PROVE Rank(r, S, order) \in 0 .. n - 1
  <2>1. PICK k \in Nat : k = Cardinality(Below(r))
    BY <1>2
  <2>2. k <= n /\ k # n
    BY <2>1, <1>2
  <2>3. Rank(r, S, order) = k
    BY <2>1 DEF Rank
  <2> QED BY <2>2, <2>3
<1>4. ASSUME NEW q \in S, NEW r \in S, <<q, r>> \in order
      PROVE  Rank(q, S, order) < Rank(r, S, order)
  <2>1. Below(q) \in SUBSET Below(r) /\ Below(q) # Below(r)
    BY <1>4 DEF Orders
  <2>2. PICK k \in Nat : k = Cardinality(Below(q))
    BY <1>2
  <2>3. PICK m \in Nat : m = Cardinality(Below(r))
    BY <1>2
  <2>4. IsFiniteSet(Below(r))
    BY <1>2
  <2>5. Rank(q, S, order) = k /\ Rank(r, S, order) = m
    BY <2>2, <2>3 DEF Rank
  <2> HIDE DEF Below
  <2>6. k <= m /\ k # m
    BY <2>1, <2>2, <2>3, <2>4, FS_Subset
  <2> QED BY <2>5, <2>6
<1> QED BY <1>1, <1>3, <1>4

(* Of a finite set in a strict total order, the elements arranged by the   *)
(* number of those before them are all of them, once each, in that order.  *)
LEMMA ArrangedIs ==
    ASSUME NEW S, IsFiniteSet(S), NEW order, Orders(S, order)
    PROVE  /\ Arranged(S, order) \in [1 .. Cardinality(S) -> S]
           /\ ToSet(Arranged(S, order)) = S
           /\ Distinct(Arranged(S, order))
           /\ \A i, j \in 1 .. Cardinality(S) :
                 i < j => <<Arranged(S, order)[i], Arranged(S, order)[j]>> \in order
<1>1. PICK n \in Nat : n = Cardinality(S)
  BY FS_CardinalityType
<1>2. PICK place \in [S -> 1 .. n] : \A r \in S : place[r] = Rank(r, S, order) + 1
  <2>1. \A r \in S : Rank(r, S, order) \in 0 .. n - 1
    BY <1>1, RankIs
  <2>2. \A r \in S : Rank(r, S, order) + 1 \in 1 .. n
    <3> SUFFICES ASSUME NEW r \in S PROVE Rank(r, S, order) + 1 \in 1 .. n
      OBVIOUS
    <3>1. PICK k \in 0 .. n - 1 : k = Rank(r, S, order)
      BY <2>1
    <3> QED BY <3>1
  <2> DEFINE f == [r \in S |-> Rank(r, S, order) + 1]
  <2>3. f \in [S -> 1 .. n] /\ \A r \in S : f[r] = Rank(r, S, order) + 1
    BY <2>2
  <2> QED BY <2>3
<1>3. ASSUME NEW q \in S, NEW r \in S, <<q, r>> \in order PROVE place[q] < place[r]
  <2>1. PICK k \in 0 .. n - 1 : k = Rank(q, S, order)
    BY <1>1, RankIs
  <2>2. PICK m \in 0 .. n - 1 : m = Rank(r, S, order)
    BY <1>1, RankIs
  <2>3. k < m
    BY <2>1, <2>2, <1>3, RankIs
  <2> QED BY <2>1, <2>2, <2>3, <1>2
<1>4. \A q, r \in S : place[q] \in Int /\ (place[q] = place[r] => q = r)
  <2> SUFFICES ASSUME NEW q \in S, NEW r \in S
               PROVE  place[q] \in Int /\ (place[q] = place[r] => q = r)
    OBVIOUS
  <2>1. place[q] \in 1 .. n /\ place[r] \in 1 .. n
    OBVIOUS
  <2>2. q = r \/ place[q] < place[r] \/ place[r] < place[q]
    BY <1>3 DEF Orders
  <2> QED BY <2>1, <2>2
<1>5. \A k \in 1 .. n : \E r \in S : place[r] = k
  <2>1. IsFiniteSet(1 .. n) /\ Cardinality(1 .. n) = n
    BY FS_Interval
  <2>2. place \in Injection(S, 1 .. n)
    BY <1>4 DEF Injection, IsInjective
  <2>3. place \in Surjection(S, 1 .. n)
    BY <1>1, <2>1, <2>2, FS_Injection
  <2> QED BY <2>3 DEF Surjection
<1> DEFINE a == Arranged(S, order)
<1>6. \A k \in 1 .. n : a[k] = CHOOSE r \in S : Rank(r, S, order) = k - 1
  BY <1>1 DEF Arranged
<1>7. a = [k \in 1 .. n |-> a[k]]
  BY <1>1 DEF Arranged
<1> HIDE DEF a
<1>8. ASSUME NEW k \in 1 .. n PROVE a[k] \in S /\ place[a[k]] = k
  <2>1. PICK r \in S : place[r] = k
    BY <1>5
  <2>2. PICK m \in 0 .. n - 1 : m = Rank(r, S, order)
    BY <1>1, RankIs
  <2>3. m = k - 1
    BY <2>1, <2>2, <1>2
  <2>4. a[k] \in S /\ Rank(a[k], S, order) = k - 1
    BY <1>6, <2>2, <2>3
  <2> QED BY <2>4, <1>2
<1>9. a \in [1 .. n -> S]
  BY <1>7, <1>8
<1>10. Distinct(a)
  BY <1>8, <1>9 DEF Distinct
<1>11. ToSet(a) = S
  <2>1. \A r \in S : place[r] \in DOMAIN a /\ a[place[r]] = r
    BY <1>4, <1>8, <1>9
  <2>2. \A k \in DOMAIN a : a[k] \in S
    BY <1>9
  <2> QED BY <2>1, <2>2 DEF ToSet
<1>12. \A i, j \in 1 .. n : i < j => <<a[i], a[j]>> \in order
  <2> SUFFICES ASSUME NEW i \in 1 .. n, NEW j \in 1 .. n, i < j PROVE <<a[i], a[j]>> \in order
    OBVIOUS
  <2>1. a[i] \in S /\ a[j] \in S /\ place[a[i]] = i /\ place[a[j]] = j
    BY <1>8
  <2>2. a[i] # a[j]
    BY <2>1
  <2>3. <<a[j], a[i]>> \notin order
    <3>1. ~ (j < i)
      OBVIOUS
    <3> QED BY <2>1, <3>1, <1>3
  <2> QED BY <2>1, <2>2, <2>3 DEF Orders
<1> QED BY <1>1, <1>9, <1>10, <1>11, <1>12 DEF a

(* The sort of a file puts its records in the order of their keys.         *)
LEMMA KeyedIs ==
    ASSUME NEW S \in SUBSET JoinRecord, IsFiniteSet(S),
           \A r \in JoinRecord : r.key \in Int /\ r.at \in Int,
           \A q, r \in S : q.at = r.at => q = r
    PROVE  /\ Keyed(S) \in Seq(JoinRecord) /\ KeySorted(Keyed(S)) /\ Distinct(Keyed(S))
           /\ ToSet(Keyed(S)) = S
<1>1. PICK order : order = KeyOrder(S)
  OBVIOUS
<1>2. \A q, r \in S : <<q, r>> \in order <=>
                        q.key < r.key \/ (q.key = r.key /\ q.at < r.at)
  BY <1>1 DEF KeyOrder
<1>3. \A r \in S : r.key \in Int /\ r.at \in Int
  OBVIOUS
<1>4. Orders(S, order)
  <2>1. ASSUME NEW r \in S PROVE <<r, r>> \notin order
    BY <1>2, <1>3
  <2>2. ASSUME NEW q \in S, NEW r \in S, NEW t \in S,
               <<q, r>> \in order, <<r, t>> \in order
        PROVE  <<q, t>> \in order
    <3>1. q.key < r.key \/ (q.key = r.key /\ q.at < r.at)
      BY <1>2, <2>2
    <3>2. r.key < t.key \/ (r.key = t.key /\ r.at < t.at)
      BY <1>2, <2>2
    <3>3. q.key < t.key \/ (q.key = t.key /\ q.at < t.at)
      BY <1>3, <3>1, <3>2
    <3> QED BY <1>2, <3>3
  <2>3. ASSUME NEW q \in S, NEW r \in S, q # r
        PROVE  <<q, r>> \in order \/ <<r, q>> \in order
    <3>1. q.at # r.at
      BY <2>3
    <3>2. \/ q.key < r.key \/ (q.key = r.key /\ q.at < r.at)
          \/ r.key < q.key \/ (r.key = q.key /\ r.at < q.at)
      BY <1>3, <3>1
    <3> QED BY <1>2, <3>2
  <2> QED BY <2>1, <2>2, <2>3 DEF Orders
<1>5. PICK n \in Nat : n = Cardinality(S)
  BY FS_CardinalityType
<1>6. PICK a \in [1 .. n -> S] :
         /\ a = Keyed(S) /\ ToSet(a) = S /\ Distinct(a)
         /\ \A i, j \in 1 .. n : i < j => <<a[i], a[j]>> \in order
  BY <1>1, <1>4, <1>5, ArrangedIs DEF Keyed
<1>7. a \in Seq(JoinRecord) /\ DOMAIN a = 1 .. n
  OBVIOUS
<1>8. KeySorted(a)
  <2> SUFFICES ASSUME NEW i \in 1 .. n, NEW j \in 1 .. n, i < j PROVE a[i].key <= a[j].key
    BY <1>7 DEF KeySorted
  <2>1. a[i] \in S /\ a[j] \in S /\ <<a[i], a[j]>> \in order
    BY <1>6
  <2>2. a[i].key < a[j].key \/ a[i].key = a[j].key
    BY <2>1, <1>2
  <2> QED BY <2>1, <2>2, <1>3
<1> QED BY <1>6, <1>7, <1>8

(* The final sort rearranges the rows.                                     *)
LEMMA KeyedByF1Is ==
    ASSUME NEW R, NEW rows \in Seq(R), \A i \in DOMAIN rows : rows[i].f1.key \in Int
    PROVE  /\ KeyedByF1(rows) \in Seq(R)
           /\ ToSet(KeyedByF1(rows)) = ToSet(rows)
           /\ \E p \in [DOMAIN rows -> DOMAIN rows] :
                 Distinct(p) /\ KeyedByF1(rows) = [i \in DOMAIN rows |-> rows[p[i]]]
<1>1. PICK n \in Nat : n = Len(rows) /\ DOMAIN rows = 1 .. n
  OBVIOUS
<1>2. IsFiniteSet(1 .. n) /\ Cardinality(1 .. n) = n
  BY FS_Interval
<1>3. PICK key \in [1 .. n -> Int] : \A i \in 1 .. n : key[i] = rows[i].f1.key
  <2> DEFINE f == [i \in 1 .. n |-> rows[i].f1.key]
  <2>1. f \in [1 .. n -> Int] /\ \A i \in 1 .. n : f[i] = rows[i].f1.key
    BY <1>1
  <2> QED BY <2>1
<1>4. PICK order : order = F1Order(rows)
  OBVIOUS
<1>5. \A i, j \in 1 .. n : <<i, j>> \in order <=> key[i] < key[j] \/ (key[i] = key[j] /\ i < j)
  BY <1>1, <1>3, <1>4 DEF F1Order
<1>6. Orders(1 .. n, order)
  <2>1. ASSUME NEW i \in 1 .. n PROVE <<i, i>> \notin order
    BY <1>5
  <2>2. ASSUME NEW i \in 1 .. n, NEW j \in 1 .. n, NEW k \in 1 .. n,
               <<i, j>> \in order, <<j, k>> \in order
        PROVE  <<i, k>> \in order
    <3>1. key[i] < key[j] \/ (key[i] = key[j] /\ i < j)
      BY <1>5, <2>2
    <3>2. key[j] < key[k] \/ (key[j] = key[k] /\ j < k)
      BY <1>5, <2>2
    <3>3. key[i] < key[k] \/ (key[i] = key[k] /\ i < k)
      BY <3>1, <3>2
    <3> QED BY <1>5, <3>3
  <2>3. ASSUME NEW i \in 1 .. n, NEW j \in 1 .. n, i # j
        PROVE  <<i, j>> \in order \/ <<j, i>> \in order
    <3>1. \/ key[i] < key[j] \/ (key[i] = key[j] /\ i < j)
          \/ key[j] < key[i] \/ (key[j] = key[i] /\ j < i)
      BY <2>3
    <3> QED BY <1>5, <3>1
  <2> QED BY <2>1, <2>2, <2>3 DEF Orders
<1>7. PICK p \in [1 .. n -> 1 .. n] :
         p = Arranged(1 .. n, order) /\ ToSet(p) = 1 .. n /\ Distinct(p)
  BY <1>2, <1>6, ArrangedIs
<1>8. PICK a \in [1 .. n -> R] : a = [i \in 1 .. n |-> rows[p[i]]]
  <2>1. \A i \in 1 .. n : rows[i] \in R
    BY <1>1
  <2>2. [i \in 1 .. n |-> rows[p[i]]] \in [1 .. n -> R]
    BY <2>1
  <2> QED BY <2>2
<1>9. KeyedByF1(rows) = a
  BY <1>1, <1>4, <1>7, <1>8 DEF KeyedByF1
<1>10. a \in Seq(R)
  OBVIOUS
<1>11. ToSet(a) = ToSet(rows)
  <2>1. \A i \in 1 .. n : \E k \in 1 .. n : p[k] = i
    BY <1>7 DEF ToSet
  <2>2. \A i \in 1 .. n : a[i] = rows[p[i]] /\ p[i] \in 1 .. n
    BY <1>8
  <2>3. \A i \in 1 .. n : \E k \in 1 .. n : a[k] = rows[i]
    <3> SUFFICES ASSUME NEW i \in 1 .. n PROVE \E k \in 1 .. n : a[k] = rows[i]
      OBVIOUS
    <3>1. PICK k \in 1 .. n : p[k] = i
      BY <2>1
    <3> QED BY <2>2, <3>1
  <2>4. DOMAIN a = 1 .. n /\ DOMAIN rows = 1 .. n
    BY <1>1
  <2>5. \A k \in 1 .. n : \E i \in 1 .. n : a[k] = rows[i]
    BY <2>2
  <2>6. ToSet(a) \subseteq ToSet(rows)
    BY <2>4, <2>5 DEF ToSet
  <2>7. ToSet(rows) \subseteq ToSet(a)
    BY <2>3, <2>4 DEF ToSet
  <2> QED BY <2>6, <2>7
<1> QED BY <1>1, <1>7, <1>8, <1>9, <1>10, <1>11

-----------------------------------------------------------------------------
(* The files. *)

LEMMA RecordFields ==
    /\ \A r \in JoinRecord : r.key \in Int /\ r.key >= 1 /\ r.at \in Int /\ r.file \in 1 .. 2
    /\ Blank \notin JoinRecord
    /\ Blank.key \in Int /\ (FillKey = 0 => Blank.key = 0)
<1>1. Keys \subseteq Int /\ \A k \in Keys : k >= 1
  BY JoinAssumption DEF Keys
<1>2. FillKey \in Int
  BY JoinAssumption
<1>3. \A r \in JoinRecord : r.key \in Keys /\ r.file \in 1 .. 2 /\ r.at \in Nat
  BY DEF JoinRecord
<1>4. Blank.key = FillKey /\ Blank.file = 0
  BY DEF Blank
<1>5. Blank \notin JoinRecord
  BY <1>3, <1>4
<1>6. \A r \in JoinRecord : r.key \in Int /\ r.key >= 1 /\ r.at \in Int /\ r.file \in 1 .. 2
  <2> SUFFICES ASSUME NEW r \in JoinRecord
               PROVE  r.key \in Int /\ r.key >= 1 /\ r.at \in Int /\ r.file \in 1 .. 2
    OBVIOUS
  <2>1. r.key \in Keys /\ r.file \in 1 .. 2 /\ r.at \in Nat
    BY <1>3
  <2>2. r.key \in Int /\ r.key >= 1
    BY <1>1, <2>1
  <2> QED BY <2>1, <2>2
<1> QED BY <1>2, <1>4, <1>5, <1>6

(* The records of a sequence are finitely many.                            *)
LEMMA ToSetFinite ==
    ASSUME NEW R, NEW s \in Seq(R)
    PROVE  IsFiniteSet(ToSet(s)) /\ ToSet(s) \subseteq R
<1>1. PICK n \in Nat : n = Len(s) /\ DOMAIN s = 1 .. n
  OBVIOUS
<1>2. IsFiniteSet(1 .. n)
  BY FS_Interval
<1>3. \A i \in 1 .. n : s[i] \in R
  BY <1>1
<1>4. PICK f \in [1 .. n -> ToSet(s)] : \A i \in 1 .. n : f[i] = s[i]
  <2> DEFINE h == [i \in 1 .. n |-> s[i]]
  <2>1. h \in [1 .. n -> ToSet(s)] /\ \A i \in 1 .. n : h[i] = s[i]
    BY <1>1 DEF ToSet
  <2> QED BY <2>1
<1>5. f \in Surjection(1 .. n, ToSet(s))
  <2>1. \A x \in ToSet(s) : \E i \in 1 .. n : f[i] = x
    BY <1>1, <1>4 DEF ToSet
  <2> QED BY <2>1 DEF Surjection
<1>6. IsFiniteSet(ToSet(s))
  BY <1>2, <1>5, FS_Surjection
<1> QED BY <1>1, <1>3, <1>6 DEF ToSet

(* A sequence over a set is one over a larger set.                         *)
LEMMA SeqWider ==
    ASSUME NEW A, NEW B, A \subseteq B, NEW s \in Seq(A)
    PROVE  s \in Seq(B)
<1>1. PICK n \in Nat : n = Len(s) /\ DOMAIN s = 1 .. n
  OBVIOUS
<1>2. s = [i \in 1 .. n |-> s[i]] /\ \A i \in 1 .. n : s[i] \in B
  BY <1>1
<1>3. s \in [1 .. n -> B]
  BY <1>2
<1> QED BY <1>3

(* The records that take part in the join.                                 *)
LEMMA JoinedIs ==
    ASSUME InputInv, NEW n \in 1 .. 2
    PROVE  /\ Joined(n) \in SUBSET JoinRecord /\ Joined(n) \subseteq ToSet(input[n])
           /\ input[n] \in Seq(JoinRecord) /\ Distinct(input[n])
           /\ IsFiniteSet(Joined(n))
           /\ \A r \in Joined(n) : r.file = n
           /\ \A q, r \in ToSet(input[n]) : q.at = r.at => q = r
           /\ sorted[n] => Joined(n) = ToSet(input[n])
           /\ ~ sorted[n] => Joined(n) = ToSet(input[n]) \ leave
<1>1. /\ input[n] \in Seq([key : Keys, file : {n}, at : Nat])
      /\ \A i \in DOMAIN input[n] : input[n][i].at = i
      /\ sorted[n] \in BOOLEAN
  BY DEF InputInv
<1>2. [key : Keys, file : {n}, at : Nat] \subseteq JoinRecord
  BY DEF JoinRecord
<1>3. input[n] \in Seq(JoinRecord)
  BY <1>1, <1>2, SeqWider
<1>4. Distinct(input[n])
  BY <1>1 DEF Distinct
<1>5. IsFiniteSet(ToSet(input[n])) /\ ToSet(input[n]) \subseteq [key : Keys, file : {n}, at : Nat]
  BY <1>1, ToSetFinite
<1>6. Joined(n) \in SUBSET ToSet(input[n])
  BY DEF Joined, Records
<1>7. IsFiniteSet(Joined(n))
  BY <1>5, <1>6, FS_Subset
<1>8. \A r \in [key : Keys, file : {n}, at : Nat] : r.file = n
  OBVIOUS
<1>9. \A q, r \in ToSet(input[n]) : q.at = r.at => q = r
  <2> SUFFICES ASSUME NEW i \in DOMAIN input[n], NEW j \in DOMAIN input[n],
                      input[n][i].at = input[n][j].at
               PROVE  input[n][i] = input[n][j]
    BY DEF ToSet
  <2> QED BY <1>1
<1>10. /\ sorted[n] => Joined(n) = ToSet(input[n])
       /\ ~ sorted[n] => Joined(n) = ToSet(input[n]) \ leave
  BY DEF Joined, Records
<1> QED BY <1>2, <1>3, <1>4, <1>5, <1>6, <1>7, <1>8, <1>9, <1>10

(* Every step leaves the files and the options alone.                      *)
LEMMA SettingsStay == [Next]_vars => UNCHANGED settings
<1> SUFFICES ASSUME [Next]_vars PROVE UNCHANGED settings
  OBVIOUS
<1>1. CASE UNCHANGED vars
  BY <1>1 DEF vars
<1>2. CASE Step
  BY <1>2 DEF Step, SortF1, SortF2, Sort, Open, Round, Abend, Omitted, Pair, JoinEnd,
     Alone, NothingToDo, FinalSort
<1>3. CASE OpenFails \/ WriteFails \/ Stopped
  BY <1>3 DEF OpenFails, WriteFails, Stopped, vars
<1> QED BY <1>1, <1>2, <1>3 DEF Next

(* And so what they say of the rows.                                       *)
LEMMA SettingsSame ==
    UNCHANGED settings =>
        /\ type' = type /\ sorted' = sorted /\ leave' = leave /\ input' = input
        /\ omit' = omit
        /\ \A n : Joined(n)' = Joined(n)
        /\ \A n : Alones(n)' = Alones(n)
        /\ MatchedRows' = MatchedRows /\ Expected' = Expected
        /\ (Ordered' <=> Ordered) /\ (Plain' <=> Plain) /\ (LeftOnly' <=> LeftOnly)
        /\ (UniqueKeys' <=> UniqueKeys) /\ (InputInv' <=> InputInv)
<1> SUFFICES ASSUME UNCHANGED settings
             PROVE  /\ type' = type /\ sorted' = sorted /\ leave' = leave /\ input' = input
                    /\ omit' = omit
                    /\ \A n : Joined(n)' = Joined(n)
                    /\ \A n : Alones(n)' = Alones(n)
                    /\ MatchedRows' = MatchedRows /\ Expected' = Expected
                    /\ (Ordered' <=> Ordered) /\ (Plain' <=> Plain) /\ (LeftOnly' <=> LeftOnly)
                    /\ (UniqueKeys' <=> UniqueKeys) /\ (InputInv' <=> InputInv)
  OBVIOUS
<1>1. /\ type' = type /\ sorted' = sorted /\ leave' = leave /\ input' = input
      /\ omit' = omit
  BY DEF settings
<1>2. \A n : Joined(n)' = Joined(n)
  BY <1>1 DEF Joined, Records
<1>3. \A r : Matches(r)' = Matches(r)
  BY <1>2 DEF Matches
<1>4. \A n : Alones(n)' = Alones(n)
  BY <1>1, <1>2, <1>3 DEF Alones
<1>5. MatchedRows' = MatchedRows
  BY <1>1, <1>2 DEF MatchedRows
<1>6. Expected' = Expected
  BY <1>4, <1>5 DEF Expected
<1>7. (Ordered' <=> Ordered) /\ (UniqueKeys' <=> UniqueKeys)
  BY <1>1 DEF Ordered, UniqueKeys
<1>8. (Plain' <=> Plain) /\ (LeftOnly' <=> LeftOnly)
  BY <1>1, <1>7 DEF Plain, LeftOnly
<1>9. InputInv' <=> InputInv
  BY <1>1 DEF InputInv
<1> QED BY <1>1, <1>2, <1>4, <1>5, <1>6, <1>7, <1>8, <1>9

-----------------------------------------------------------------------------
(* The state, whatever the order of the files. *)

(* Some of the two files.                                                  *)
LEMMA PairCount ==
    ASSUME NEW S \in SUBSET (1 .. 2)
    PROVE  Cardinality(S) = (IF 1 \in S THEN 1 ELSE 0) + (IF 2 \in S THEN 1 ELSE 0)
<1>1. S = {} \/ S = {1} \/ S = {2} \/ S = {1} \cup {2}
  <2>1. \A n \in S : n = 1 \/ n = 2
    OBVIOUS
  <2> QED BY <2>1
<1>2. Cardinality({}) = 0 /\ Cardinality({1}) = 1 /\ Cardinality({2}) = 1
  BY FS_EmptySet, FS_Singleton
<1>3. Cardinality({1} \cup {2}) = 2
  <2>1. IsFiniteSet({1})
    BY FS_Singleton
  <2>2. 2 \notin {1}
    OBVIOUS
  <2> QED BY <1>2, <2>1, <2>2, FS_AddElement
<1>4. CASE S = {}
  BY <1>2, <1>4
<1>5. CASE S = {1}
  BY <1>2, <1>5
<1>6. CASE S = {2}
  BY <1>2, <1>6
<1>7. CASE S = {1} \cup {2}
  BY <1>3, <1>7
<1> QED BY <1>1, <1>4, <1>5, <1>6, <1>7

(* The first state.                                                        *)
LEMMA InputInit == Init => InputInv
<1> SUFFICES ASSUME Init PROVE InputInv
  OBVIOUS
<1>1. PICK shape \in Shapes : \E k1 \in [1 .. shape[1] -> Keys], k2 \in [1 .. shape[2] -> Keys] :
         input = <<[i \in 1 .. shape[1] |-> [key |-> k1[i], file |-> 1, at |-> i]],
                   [i \in 1 .. shape[2] |-> [key |-> k2[i], file |-> 2, at |-> i]]>>
  BY DEF Init
<1>2. PICK k1 \in [1 .. shape[1] -> Keys], k2 \in [1 .. shape[2] -> Keys] :
         input = <<[i \in 1 .. shape[1] |-> [key |-> k1[i], file |-> 1, at |-> i]],
                   [i \in 1 .. shape[2] |-> [key |-> k2[i], file |-> 2, at |-> i]]>>
  BY <1>1
<1>3. shape[1] \in Nat /\ shape[2] \in Nat
  BY JoinAssumption
<1>5. /\ input[1] = [i \in 1 .. shape[1] |-> [key |-> k1[i], file |-> 1, at |-> i]]
      /\ input[2] = [i \in 1 .. shape[2] |-> [key |-> k2[i], file |-> 2, at |-> i]]
  BY <1>2
<1>6. \A n \in 1 .. 2 : /\ input[n] \in Seq([key : Keys, file : {n}, at : Nat])
                        /\ \A i \in DOMAIN input[n] : input[n][i].at = i
  <2>1. /\ input[1] \in Seq([key : Keys, file : {1}, at : Nat])
        /\ \A i \in DOMAIN input[1] : input[1][i].at = i
    <3>1. PICK m \in Nat : m = shape[1]
      BY <1>3
    <3>2. PICK T : T = [key : Keys, file : {1}, at : Nat]
      OBVIOUS
    <3>3. \A i \in 1 .. m : [key |-> k1[i], file |-> 1, at |-> i] \in T
      BY <3>1, <3>2
    <3>4. input[1] \in [1 .. m -> T]
      BY <3>1, <3>3, <1>5
    <3>5. input[1] \in Seq(T)
      BY <3>4
    <3>6. \A i \in DOMAIN input[1] : input[1][i].at = i
      BY <1>5
    <3> QED BY <3>2, <3>5, <3>6
  <2>2. /\ input[2] \in Seq([key : Keys, file : {2}, at : Nat])
        /\ \A i \in DOMAIN input[2] : input[2][i].at = i
    <3>1. PICK m \in Nat : m = shape[2]
      BY <1>3
    <3>2. PICK T : T = [key : Keys, file : {2}, at : Nat]
      OBVIOUS
    <3>3. \A i \in 1 .. m : [key |-> k2[i], file |-> 2, at |-> i] \in T
      BY <3>1, <3>2
    <3>4. input[2] \in [1 .. m -> T]
      BY <3>1, <3>3, <1>5
    <3>5. input[2] \in Seq(T)
      BY <3>4
    <3>6. \A i \in DOMAIN input[2] : input[2][i].at = i
      BY <1>5
    <3> QED BY <3>2, <3>5, <3>6
  <2>3. \A n \in 1 .. 2 : n = 1 \/ n = 2
    OBVIOUS
  <2> QED BY <2>1, <2>2, <2>3
<1>7. type \in Types
  BY DEF Init
<1>8. PICK o \in Options : sorted = o[1]
  BY DEF Init
<1>9. PICK s, l, m, b : o = <<s, l, m, b>> /\ (s \in [1 .. 2 -> BOOLEAN] \/ s = <<FALSE, FALSE>>)
  BY DEF Options, None
<1>10. \A n \in 1 .. 2 : sorted[n] \in BOOLEAN
  <2>1. sorted = s
    BY <1>8, <1>9
  <2>2. CASE s \in [1 .. 2 -> BOOLEAN]
    BY <2>1, <2>2
  <2>3. CASE s = <<FALSE, FALSE>>
    <3>1. sorted[1] = FALSE /\ sorted[2] = FALSE
      BY <2>1, <2>3
    <3>2. \A n \in 1 .. 2 : n = 1 \/ n = 2
      OBVIOUS
    <3> QED BY <3>1, <3>2
  <2> QED BY <1>9, <2>2, <2>3
<1> QED BY <1>6, <1>7, <1>10 DEF InputInv

(* The types and the phases at the start. *)
LEMMA ReadInit == Init => ReadInv
<1> SUFFICES ASSUME Init PROVE ReadInv
  OBVIOUS
<1>1. InputInv
  BY InputInit
<1>2. \A n \in 1 .. 2 : input[n] \in Seq(JoinRecord)
  BY <1>1, JoinedIs
<1>3. /\ pc = "sort1" /\ rest = input /\ group = << <<>>, <<>> >>
      /\ eof = <<0, 0>> /\ sumEof = 0
      /\ cmd = <<{}, {}>> /\ first = TRUE /\ at = <<1, 1>>
      /\ buffer = << <<>>, <<>> >>
      /\ out = <<>>
  BY DEF Init
<1>4. rest \in [1 .. 2 -> Seq(JoinRecord)]
  <2>1. PICK s, t : input = <<s, t>>
    BY DEF Init
  <2>2. input = [n \in 1 .. 2 |-> input[n]]
    BY <2>1
  <2> QED BY <1>2, <1>3, <2>2
<1>5. \A n \in 1 .. 2 : /\ group[n] \in Seq(JoinRecord)
                        /\ eof[n] \in 0 .. 2
                        /\ cmd[n] \subseteq {"R", "W"}
                        /\ at[n] \in Nat
  <2> SUFFICES ASSUME NEW n \in 1 .. 2
               PROVE  /\ group[n] \in Seq(JoinRecord)
                      /\ eof[n] \in 0 .. 2
                      /\ cmd[n] \subseteq {"R", "W"}
                      /\ at[n] \in Nat
    OBVIOUS
  <2>1. group[n] = <<>> /\ eof[n] = 0 /\ cmd[n] = {} /\ at[n] = 1
    BY <1>3
  <2>2. <<>> \in Seq(JoinRecord)
    OBVIOUS
  <2>3. 0 \in 0 .. 2 /\ 1 \in Nat
    OBVIOUS
  <2> QED BY <2>1, <2>2, <2>3
<1>6. sumEof \in 0 .. MaxFiles + 2
  BY <1>3, JoinAssumption
<1>7. StateInv
  BY <1>3, <1>4, <1>5, <1>6 DEF StateInv
<1>8. PhaseInv
  BY <1>3 DEF PhaseInv, Waiting, Running
<1> QED BY <1>7, <1>8 DEF ReadInv

(* A state in which the join has stopped.                                  *)
LEMMA GoneRead ==
    ASSUME ReadInv, UNCHANGED <<reading, looping>>, pc' \in {"final", "done", "abend"},
           out' \in Seq(OutRow)
    PROVE  ReadInv'
<1>1. /\ rest' = rest /\ group' = group /\ eof' = eof /\ sumEof' = sumEof /\ cmd' = cmd
      /\ first' = first /\ at' = at /\ buffer' = buffer
  BY DEF reading, looping
<1>2. StateInv'
  BY <1>1 DEF StateInv, ReadInv
<1>3. PhaseInv'
  BY DEF PhaseInv, Waiting, Running
<1> QED BY <1>2, <1>3 DEF ReadInv

(* What the sort of a file does.                                           *)
LEMMA SortIs ==
    ASSUME InputInv, StateInv, NEW n \in 1 .. 2, NEW h, NEW t, Sort(n, h, t),
           rest[n] = input[n]
    PROVE  /\ rest' \in [1 .. 2 -> Seq(JoinRecord)]
           /\ \A m \in 1 .. 2 : m # n => rest'[m] = rest[m]
           /\ Ordered => KeySorted(rest'[n])
           /\ Distinct(rest'[n]) /\ ToSet(rest'[n]) = Joined(n)
<1>1. /\ input[n] \in Seq(JoinRecord) /\ Distinct(input[n])
      /\ IsFiniteSet(Joined(n)) /\ Joined(n) \in SUBSET JoinRecord
      /\ \A q, r \in Joined(n) : q.at = r.at => q = r
      /\ sorted[n] => Joined(n) = ToSet(input[n])
      /\ ~ sorted[n] => Joined(n) = ToSet(input[n]) \ leave
      /\ sorted[n] \in BOOLEAN
  BY JoinedIs DEF InputInv
<1>2. rest \in [1 .. 2 -> Seq(JoinRecord)]
  BY DEF StateInv
<1>3. CASE sorted[n]
  <2>1. rest' = rest
    BY <1>3 DEF Sort
  <2>2. Ordered => KeySorted(input[n])
    BY <1>3 DEF Ordered
  <2> QED BY <2>1, <2>2, <1>1, <1>2, <1>3
<1>4. CASE ~ sorted[n]
  <2>1. rest' = [rest EXCEPT ![n] = Keyed(Joined(n))]
    BY <1>1, <1>4 DEF Sort
  <2>2. /\ Keyed(Joined(n)) \in Seq(JoinRecord) /\ KeySorted(Keyed(Joined(n)))
        /\ Distinct(Keyed(Joined(n))) /\ ToSet(Keyed(Joined(n))) = Joined(n)
    BY <1>1, KeyedIs, RecordFields
  <2>3. rest'[n] = Keyed(Joined(n)) /\ \A m \in 1 .. 2 : m # n => rest'[m] = rest[m]
    BY <2>1, <1>2
  <2>4. rest' \in [1 .. 2 -> Seq(JoinRecord)]
    BY <2>1, <2>2, <1>2
  <2> QED BY <2>2, <2>3, <2>4
<1> QED BY <1>1, <1>3, <1>4

(* ... after a sort. *)
LEMMA SortRead ==
    ASSUME InputInv, ReadInv, SortedInv, SortF1 \/ SortF2
    PROVE  ReadInv'
<1>1. StateInv
  BY DEF ReadInv
<1>2. pc \in {"sort1", "sort2"} /\ pc' \in {"sort2", "open"}
  BY DEF SortF1, SortF2, Sort
<1>3. /\ group' = group /\ eof' = eof /\ sumEof' = sumEof /\ cmd' = cmd
      /\ first' = first /\ at' = at /\ buffer' = buffer /\ out' = out
  BY DEF SortF1, SortF2, Sort, looping
<1>4. rest' \in [1 .. 2 -> Seq(JoinRecord)]
  <2>1. CASE SortF1
    <3>1. rest[1] = input[1] /\ 1 \in 1 .. 2
      BY <2>1 DEF SortF1, Sort, SortedInv
    <3> QED BY <3>1, <2>1, <1>1, SortIs DEF SortF1
  <2>2. CASE SortF2
    <3>1. rest[2] = input[2] /\ 2 \in 1 .. 2
      BY <2>2 DEF SortF2, Sort, SortedInv
    <3> QED BY <3>1, <2>2, <1>1, SortIs DEF SortF2
  <2> QED BY <2>1, <2>2
<1>5. StateInv'
  BY <1>1, <1>2, <1>3, <1>4 DEF StateInv
<1>6. PhaseInv'
  BY <1>2, <1>3 DEF ReadInv, PhaseInv, Waiting, Running
<1> QED BY <1>5, <1>6 DEF ReadInv

(* What the reading of groups does.                                        *)
LEMMA ReadGroupsIs ==
    ASSUME StateInv, NEW F \in SUBSET (1 .. 2), ReadGroups(F), \A n \in F : rest[n] # <<>>
    PROVE  /\ rest' \in [1 .. 2 -> Seq(JoinRecord)]
           /\ \A n \in F : /\ group'[n] = GroupOf(rest[n]) /\ rest'[n] = RestOf(rest[n])
                           /\ group'[n] \in Seq(JoinRecord) /\ group'[n] # <<>>
                           /\ eof'[n] \in {0, 1} /\ (eof'[n] = 0 <=> rest'[n] # <<>>)
           /\ \A n \in 1 .. 2 \ F :
                 group'[n] = group[n] /\ rest'[n] = rest[n] /\ eof'[n] = eof[n]
<1>1. rest \in [1 .. 2 -> Seq(JoinRecord)]
  BY DEF StateInv
<1>2. \A n \in F : n \in 1 .. 2
  OBVIOUS
<1>3. ASSUME NEW n \in F
      PROVE  /\ group'[n] = GroupOf(rest[n]) /\ rest'[n] = RestOf(rest[n])
             /\ group'[n] \in Seq(JoinRecord) /\ group'[n] # <<>>
             /\ rest'[n] \in Seq(JoinRecord)
             /\ eof'[n] \in {0, 1} /\ (eof'[n] = 0 <=> rest'[n] # <<>>)
  <2>1. rest[n] \in Seq(JoinRecord) /\ rest[n] # <<>>
    BY <1>1, <1>2
  <2>2. /\ group'[n] = GroupOf(rest[n]) /\ rest'[n] = RestOf(rest[n])
        /\ eof'[n] = EofOf(rest[n])
    BY <1>2 DEF ReadGroups
  <2>3. GroupOf(rest[n]) \in Seq(JoinRecord) /\ GroupOf(rest[n]) # <<>>
        /\ RestOf(rest[n]) \in Seq(JoinRecord)
    BY <2>1, GroupIs
  <2> QED BY <2>2, <2>3 DEF EofOf
<1>4. ASSUME NEW n \in 1 .. 2 \ F
      PROVE  group'[n] = group[n] /\ rest'[n] = rest[n] /\ eof'[n] = eof[n]
  BY DEF ReadGroups
<1>5. \A n \in 1 .. 2 : rest'[n] \in Seq(JoinRecord)
  BY <1>1, <1>3, <1>4
<1>6. rest' = [n \in 1 .. 2 |-> rest'[n]]
  BY DEF ReadGroups
<1>7. rest' \in [1 .. 2 -> Seq(JoinRecord)]
  BY <1>5, <1>6
<1> QED BY <1>3, <1>4, <1>7

(* The sum of the two end of file flags.                                   *)
LEMMA SumEof ==
    ASSUME NEW e \in 0 .. 2, NEW f \in 0 .. 2
    PROVE  MaxFiles - 2 + e + f \in 0 .. MaxFiles + 2
BY JoinAssumption

(* ... when the two files have been opened. *)
LEMMA OpenRead ==
    ASSUME ReadInv, Open
    PROVE  ReadInv'
<1>1. StateInv /\ PhaseInv /\ pc = "open" /\ pc' = "round"
  BY DEF ReadInv, Open
<1>2. /\ cmd' = cmd /\ first' = first /\ at' = at /\ buffer' = buffer /\ out' = out
      /\ sumEof' = MaxFiles - 2 + eof'[1] + eof'[2]
  BY DEF Open, looping
<1>3. /\ rest' \in [1 .. 2 -> Seq(JoinRecord)]
      /\ \A n \in 1 .. 2 : /\ group'[n] \in Seq(JoinRecord) /\ group'[n] # <<>>
                           /\ eof'[n] \in {0, 1} /\ (eof'[n] = 0 <=> rest'[n] # <<>>)
  <2>1. ReadGroups({1, 2}) /\ \A n \in {1, 2} : rest[n] # <<>>
    BY DEF Open, BothHaveRecords
  <2>2. {1, 2} \in SUBSET (1 .. 2) /\ \A n \in 1 .. 2 : n \in {1, 2}
    OBVIOUS
  <2> QED BY <2>1, <2>2, <1>1, ReadGroupsIs
<1>4. \A n \in 1 .. 2 : eof'[n] \in 0 .. 2
  <2>1. {0, 1} \subseteq 0 .. 2
    OBVIOUS
  <2> QED BY <1>3, <2>1
<1>5. sumEof' \in 0 .. MaxFiles + 2
  <2>1. eof'[1] \in 0 .. 2 /\ eof'[2] \in 0 .. 2
    BY <1>4
  <2> QED BY <2>1, <1>2, SumEof
<1>6. StateInv'
  BY <1>1, <1>2, <1>3, <1>4, <1>5 DEF StateInv
<1>7. eof'[1] # 2 /\ eof'[2] # 2
  BY <1>3
<1>8. PhaseInv'
  BY <1>1, <1>2, <1>3, <1>7 DEF PhaseInv, Waiting, Running
<1> QED BY <1>6, <1>8 DEF ReadInv

(* The files that the head of the loop reads.                              *)
LEMMA RoundRead ==
    ASSUME ReadInv, Round
    PROVE  ReadInv'
<1>1. StateInv /\ PhaseInv /\ pc = "round" /\ pc' = "pair"
  BY DEF ReadInv, Round
<1>2. /\ first' = FALSE /\ at' = <<1, 1>> /\ buffer' = buffer /\ out' = out
      /\ sumEof' = sumEof + (eof'[1] - eof[1]) + (eof'[2] - eof[2])
  BY DEF Round
<1>3. PICK F \in SUBSET (1 .. 2) : ReadGroups(F) /\ \A n \in F : eof[n] = 0
  <2>1. PICK b, c : ReadGroups({n \in 1 .. 2 : eof[n] = 0 /\ <<b, c>>[n]})
    BY DEF Round
  <2>2. {n \in 1 .. 2 : eof[n] = 0 /\ <<b, c>>[n]} \in SUBSET (1 .. 2)
    OBVIOUS
  <2> QED BY <2>1, <2>2
<1>4. /\ sumEof = MaxFiles - 2 + eof[1] + eof[2]
      /\ \A n \in 1 .. 2 : group[n] # <<>> /\ (eof[n] = 0 <=> rest[n] # <<>>)
  BY <1>1 DEF PhaseInv, Running
<1>5. /\ rest' \in [1 .. 2 -> Seq(JoinRecord)]
      /\ \A n \in F : /\ group'[n] \in Seq(JoinRecord) /\ group'[n] # <<>>
                      /\ eof'[n] \in {0, 1} /\ (eof'[n] = 0 <=> rest'[n] # <<>>)
      /\ \A n \in 1 .. 2 \ F :
            group'[n] = group[n] /\ rest'[n] = rest[n] /\ eof'[n] = eof[n]
  <2>1. \A n \in F : rest[n] # <<>>
    BY <1>3, <1>4
  <2> QED BY <2>1, <1>1, <1>3, ReadGroupsIs
<1>6. \A n \in 1 .. 2 : /\ group'[n] \in Seq(JoinRecord) /\ group'[n] # <<>>
                        /\ eof'[n] \in 0 .. 2 /\ (eof'[n] = 0 <=> rest'[n] # <<>>)
  <2> SUFFICES ASSUME NEW n \in 1 .. 2
               PROVE  /\ group'[n] \in Seq(JoinRecord) /\ group'[n] # <<>>
                      /\ eof'[n] \in 0 .. 2 /\ (eof'[n] = 0 <=> rest'[n] # <<>>)
    OBVIOUS
  <2>1. CASE n \in F
    <3>1. {0, 1} \subseteq 0 .. 2
      OBVIOUS
    <3> QED BY <2>1, <3>1, <1>5
  <2>2. CASE n \notin F
    BY <2>2, <1>1, <1>4, <1>5 DEF StateInv
  <2> QED BY <2>1, <2>2
<1>7. \A n \in 1 .. 2 : cmd'[n] \subseteq {"R", "W"}
  <2>1. cmd[1] \subseteq {"R", "W"} /\ cmd[2] \subseteq {"R", "W"}
    BY <1>1 DEF StateInv
  <2>2. PICK c1, c2 : cmd' = <<c1, c2>> /\ c1 \in {{"R"}, cmd[1]} /\ c2 \in {{"R"}, cmd[2]}
    BY DEF Round
  <2>3. cmd'[1] = c1 /\ cmd'[2] = c2
    BY <2>2
  <2>4. \A n \in 1 .. 2 : n = 1 \/ n = 2
    OBVIOUS
  <2> QED BY <2>1, <2>2, <2>3, <2>4
<1>8. sumEof' = MaxFiles - 2 + eof'[1] + eof'[2] /\ sumEof' \in 0 .. MaxFiles + 2
  <2>1. PICK e1 \in 0 .. 2, e2 \in 0 .. 2 : eof[1] = e1 /\ eof[2] = e2
    BY <1>1 DEF StateInv
  <2>2. PICK f1 \in 0 .. 2, f2 \in 0 .. 2 : eof'[1] = f1 /\ eof'[2] = f2
    BY <1>6
  <2>3. sumEof' = MaxFiles - 2 + f1 + f2
    BY <2>1, <2>2, <1>2, <1>4, JoinAssumption
  <2> QED BY <2>2, <2>3, SumEof
<1>9. \A n \in 1 .. 2 : at'[n] = 1 /\ 1 \in DOMAIN group'[n]
  <2> SUFFICES ASSUME NEW n \in 1 .. 2 PROVE at'[n] = 1 /\ 1 \in DOMAIN group'[n]
    OBVIOUS
  <2>1. at'[n] = 1
    BY <1>2
  <2>2. group'[n] \in Seq(JoinRecord) /\ group'[n] # <<>>
    BY <1>6
  <2> QED BY <2>1, <2>2
<1>10. \A n \in 1 .. 2 : at'[n] \in Nat
  BY <1>9
<1>11. StateInv'
  BY <1>1, <1>2, <1>5, <1>6, <1>7, <1>8, <1>10 DEF StateInv
<1>12. PhaseInv'
  BY <1>1, <1>2, <1>6, <1>8, <1>9 DEF PhaseInv, Waiting, Running
<1> QED BY <1>11, <1>12 DEF ReadInv

(* On from a pair: the next record of F2, the next one of F1 with the first *)
(* of F2, or back to the head of the loop.                                 *)
LEMMA OnwardIs ==
    ASSUME NEW b, NEW cm, NEW ef, NEW c, Onward(b, cm, ef, c), pc = "pair",
           \A n \in 1 .. 2 : group[n] \in Seq(JoinRecord) /\ at[n] \in DOMAIN group[n]
    PROVE  \/ /\ pc' = "round" /\ at' = <<1, 1>>
              /\ (~ b /\ "R" \in c[1] /\ ~ (cm > 0))
                    => at[1] = Len(group[1]) /\ at[2] = Len(group[2])
              /\ \A n \in 1 .. 2 : at'[n] \in Nat
           \/ /\ pc' = "pair" /\ ~ b /\ at'[1] = at[1] /\ at'[2] = at[2] + 1
              /\ at[2] < Len(group[2])
              /\ \A n \in 1 .. 2 : at'[n] \in DOMAIN group[n] /\ at'[n] \in Nat
           \/ /\ pc' = "pair" /\ at'[1] = at[1] + 1 /\ at'[2] = 1
              /\ at[1] < Len(group[1]) /\ (~ b => at[2] = Len(group[2]))
              /\ \A n \in 1 .. 2 : at'[n] \in DOMAIN group[n] /\ at'[n] \in Nat
<1>1. PICK a1 \in Nat, a2 \in Nat, l1 \in Nat, l2 \in Nat :
         /\ at[1] = a1 /\ at[2] = a2 /\ l1 = Len(group[1]) /\ l2 = Len(group[2])
         /\ DOMAIN group[1] = 1 .. l1 /\ DOMAIN group[2] = 1 .. l2
         /\ a1 \in 1 .. l1 /\ a2 \in 1 .. l2
  <2>1. \A n \in 1 .. 2 : /\ Len(group[n]) \in Nat /\ DOMAIN group[n] = 1 .. Len(group[n])
                          /\ at[n] \in Nat /\ at[n] \in 1 .. Len(group[n])
    OBVIOUS
  <2>2. 1 \in 1 .. 2 /\ 2 \in 1 .. 2
    OBVIOUS
  <2> QED BY <2>1, <2>2
<1>2. CASE ~ b /\ a2 < l2
  <2>1. at' = <<a1, a2 + 1>> /\ pc' = "pair"
    BY <1>1, <1>2 DEF Onward
  <2>2. a2 + 1 \in 1 .. l2 /\ a2 + 1 \in Nat
    BY <1>1, <1>2
  <2>3. at'[1] = a1 /\ at'[2] = a2 + 1
    BY <2>1
  <2>4. \A n \in 1 .. 2 : at'[n] \in DOMAIN group[n] /\ at'[n] \in Nat
    BY <1>1, <2>2, <2>3
  <2> QED BY <1>1, <1>2, <2>1, <2>3, <2>4
<1>3. CASE ~ (~ b /\ a2 < l2)
  <2>0. ~ b => a2 = l2
    BY <1>1, <1>3
  <2>1. CASE ("R" \notin c[1] /\ ef[1] = 0) \/ (cm > 0 /\ ef[2] = 0) \/ a1 = l1
    <3>1. at' = <<1, 1>> /\ pc' = "round"
      BY <1>1, <1>3, <2>1 DEF Onward
    <3>2. \A n \in 1 .. 2 : at'[n] \in Nat
      BY <3>1
    <3> QED BY <1>1, <2>0, <2>1, <3>1, <3>2
  <2>2. CASE ~ (("R" \notin c[1] /\ ef[1] = 0) \/ (cm > 0 /\ ef[2] = 0) \/ a1 = l1)
    <3>1. at' = <<a1 + 1, 1>> /\ pc' = "pair"
      BY <1>1, <1>3, <2>2 DEF Onward
    <3>2. a1 < l1 /\ a1 + 1 \in 1 .. l1 /\ a1 + 1 \in Nat /\ 1 \in 1 .. l2 /\ 1 \in Nat
      BY <1>1, <2>2
    <3>3. at'[1] = a1 + 1 /\ at'[2] = 1
      BY <3>1
    <3>4. \A n \in 1 .. 2 : at'[n] \in DOMAIN group[n] /\ at'[n] \in Nat
      BY <1>1, <3>2, <3>3
    <3> QED BY <1>1, <2>0, <3>1, <3>2, <3>3, <3>4
  <2> QED BY <2>1, <2>2
<1> QED BY <1>2, <1>3

(* What a pair leaves of the two end of file flags.                        *)
LEMMA EofAfterIs ==
    ASSUME NEW c
    PROVE  \A n \in 1 .. 2 : /\ EofAfter(c)[n] = IF Ends(n, c) THEN 2 ELSE eof[n]
                             /\ Ends(n, c) => eof[n] = 1
BY DEF EofAfter, Ends

(* The commands are R, W, both or none.                                    *)
LEMMA CommandsType ==
    ASSUME NEW n, NEW c
    PROVE  Commands(n, c) \subseteq {"R", "W"}
BY DEF Commands, Unmatched

(* The step of a pair that is compared.                                    *)
LEMMA PairRead ==
    ASSUME ReadInv, Pair
    PROVE  /\ ReadInv'
           /\ UNCHANGED <<ret, rest, group, first>>
           /\ \A n \in 1 .. 2 : Record(n) \in JoinRecord
<1>1. StateInv /\ PhaseInv /\ pc = "pair" /\ UNCHANGED <<ret, rest, group, first>>
  BY DEF ReadInv, Pair, InSequence
<1>2. PICK c : /\ c = Compare(Record(1), Record(2))
               /\ cmd' = <<Commands(1, c), Commands(2, c)>>
               /\ eof' = EofAfter(c)
               /\ sumEof' = sumEof + Cardinality({n \in 1 .. 2 : Ends(n, c)})
               /\ buffer' = << <<Row(c).f1>>, <<Row(c).f2>> >>
               /\ out' \in {out, Append(out, Row(c))}
               /\ \E b : Onward(b, cmp', eof', <<Commands(1, c), Commands(2, c)>>)
  BY DEF Pair
<1>3. /\ sumEof = MaxFiles - 2 + eof[1] + eof[2]
      /\ \A n \in 1 .. 2 : group[n] # <<>> /\ (eof[n] = 0 <=> rest[n] # <<>>)
      /\ ~ first /\ \A n \in 1 .. 2 : at[n] \in DOMAIN group[n]
  BY <1>1 DEF PhaseInv, Running
<1>4. \A n \in 1 .. 2 : group[n] \in Seq(JoinRecord) /\ eof[n] \in 0 .. 2
  BY <1>1 DEF StateInv
<1>5. \A n \in 1 .. 2 : Record(n) \in JoinRecord
  BY <1>3, <1>4 DEF Record
<1>6. Row(c) \in OutRow
  <2>1. {n \in 1 .. 2 : "W" \in Commands(n, c)} \in SUBSET (1 .. 2)
    OBVIOUS
  <2>2. Record(1) \in JoinRecord /\ Record(2) \in JoinRecord
    BY <1>5
  <2>3. (IF Fills(1, c) THEN Blank ELSE Record(1)) \in JoinRecord \cup {Blank}
    BY <2>2
  <2>4. (IF Fills(2, c) THEN Blank ELSE Record(2)) \in JoinRecord \cup {Blank}
    BY <2>2
  <2> QED BY <2>1, <2>3, <2>4 DEF Row, OutRow
<1>7. out' \in Seq(OutRow)
  <2>1. out \in Seq(OutRow)
    BY <1>1 DEF StateInv
  <2>2. Append(out, Row(c)) \in Seq(OutRow)
    BY <2>1, <1>6
  <2> QED BY <2>1, <2>2, <1>2
<1>8. \A n \in 1 .. 2 : cmd'[n] \subseteq {"R", "W"}
  <2> SUFFICES ASSUME NEW n \in 1 .. 2 PROVE cmd'[n] \subseteq {"R", "W"}
    OBVIOUS
  <2>1. n = 1 \/ n = 2
    OBVIOUS
  <2>2. cmd'[n] = Commands(n, c)
    BY <1>2, <2>1
  <2> QED BY <2>2, CommandsType
<1>9. \A n \in 1 .. 2 : eof'[n] \in 0 .. 2 /\ (eof'[n] = 0 <=> eof[n] = 0)
  <2> SUFFICES ASSUME NEW n \in 1 .. 2 PROVE eof'[n] \in 0 .. 2 /\ (eof'[n] = 0 <=> eof[n] = 0)
    OBVIOUS
  <2>1. eof'[n] = (IF Ends(n, c) THEN 2 ELSE eof[n]) /\ (Ends(n, c) => eof[n] = 1)
    BY <1>2, EofAfterIs
  <2> QED BY <2>1, <1>4
<1>10. sumEof' = MaxFiles - 2 + eof'[1] + eof'[2] /\ sumEof' \in 0 .. MaxFiles + 2
  <2>1. PICK e1 \in 0 .. 2, e2 \in 0 .. 2 : eof[1] = e1 /\ eof[2] = e2
    BY <1>4
  <2>2. PICK f1 \in 0 .. 2, f2 \in 0 .. 2 : eof'[1] = f1 /\ eof'[2] = f2
    BY <1>9
  <2>3. PICK d1 \in {0, 1}, d2 \in {0, 1} :
           d1 = (IF Ends(1, c) THEN 1 ELSE 0) /\ d2 = (IF Ends(2, c) THEN 1 ELSE 0)
    OBVIOUS
  <2>4. f1 = e1 + d1 /\ f2 = e2 + d2
    <3>1. /\ f1 = (IF Ends(1, c) THEN 2 ELSE e1) /\ (Ends(1, c) => e1 = 1)
          /\ f2 = (IF Ends(2, c) THEN 2 ELSE e2) /\ (Ends(2, c) => e2 = 1)
      BY <1>2, <2>1, <2>2, EofAfterIs
    <3> QED BY <2>3, <3>1
  <2>5. Cardinality({n \in 1 .. 2 : Ends(n, c)}) = d1 + d2
    <3>1. PICK S \in SUBSET (1 .. 2) : S = {n \in 1 .. 2 : Ends(n, c)}
      OBVIOUS
    <3>2. (1 \in S <=> Ends(1, c)) /\ (2 \in S <=> Ends(2, c))
      BY <3>1
    <3> QED BY <2>3, <3>1, <3>2, PairCount
  <2>6. sumEof' = (MaxFiles - 2 + e1 + e2) + (d1 + d2)
    BY <1>2, <1>3, <2>1, <2>5
  <2>7. sumEof' = MaxFiles - 2 + f1 + f2
    BY <2>4, <2>6, JoinAssumption
  <2> QED BY <2>2, <2>7, SumEof
<1>11. DOMAIN buffer' = 1 .. 2
  BY <1>2
<1>12. /\ pc' \in {"round", "pair"} /\ \A n \in 1 .. 2 : at'[n] \in Nat
       /\ pc' = "pair" => \A n \in 1 .. 2 : at'[n] \in DOMAIN group[n]
  BY <1>1, <1>2, <1>3, <1>4, OnwardIs
<1>13. StateInv'
  BY <1>1, <1>7, <1>8, <1>9, <1>10, <1>11, <1>12 DEF StateInv
<1>14. PhaseInv'
  BY <1>1, <1>3, <1>9, <1>10, <1>12 DEF PhaseInv, Waiting, Running
<1> QED BY <1>1, <1>5, <1>13, <1>14 DEF ReadInv

(* The step of a pair that is left out.                                    *)
LEMMA OmittedRead ==
    ASSUME ReadInv, Omitted
    PROVE  /\ ReadInv'
           /\ UNCHANGED <<ret, rest, group, eof, first, out>>
           /\ \A n \in 1 .. 2 : Record(n) \in JoinRecord
<1>1. /\ StateInv /\ PhaseInv /\ pc = "pair"
      /\ UNCHANGED <<ret, rest, group, eof, sumEof, cmd, first, out>>
      /\ buffer' = << <<Record(1)>>, <<Record(2)>> >>
      /\ Onward(FALSE, cmp, eof, cmd)
  BY DEF ReadInv, Omitted, InSequence, reading
<1>2. /\ ~ first /\ \A n \in 1 .. 2 : at[n] \in DOMAIN group[n]
      /\ \A n \in 1 .. 2 : group[n] \in Seq(JoinRecord)
  BY <1>1 DEF StateInv, PhaseInv
<1>3. \A n \in 1 .. 2 : Record(n) \in JoinRecord
  BY <1>2 DEF Record
<1>4. /\ pc' \in {"round", "pair"} /\ \A n \in 1 .. 2 : at'[n] \in Nat
      /\ pc' = "pair" => \A n \in 1 .. 2 : at'[n] \in DOMAIN group[n]
  BY <1>1, <1>2, OnwardIs
<1>5. DOMAIN buffer' = 1 .. 2
  BY <1>1
<1>6. StateInv'
  BY <1>1, <1>4, <1>5 DEF StateInv
<1>7. PhaseInv'
  BY <1>1, <1>2, <1>4 DEF PhaseInv, Waiting, Running
<1> QED BY <1>1, <1>3, <1>6, <1>7 DEF ReadInv

(* A row of a file that is alone.                                          *)
LEMMA AloneRead ==
    ASSUME ReadInv, NEW n \in 1 .. 2, Alone(n)
    PROVE  /\ ReadInv'
           /\ out' = IF TestedAlone(n) \in omit THEN out
                     ELSE Append(out, AloneRow(n, Head(rest[n])))
           /\ rest[n] # <<>> /\ rest[n] \in Seq(JoinRecord) /\ rest'[n] = Tail(rest[n])
           /\ \A m \in 1 .. 2 : m # n => rest'[m] = rest[m]
           /\ AloneRow(n, Head(rest[n])) \in OutRow
<1>1. /\ StateInv /\ PhaseInv /\ pc = "open" /\ rest[n] # <<>>
      /\ UNCHANGED <<ret, group, eof, sumEof, cmd, first, at, cmp>>
      /\ out' = IF TestedAlone(n) \in omit THEN out
                ELSE Append(out, AloneRow(n, Head(rest[n])))
      /\ buffer' = [buffer EXCEPT ![n] = <<Head(rest[n])>>]
      /\ rest' = [rest EXCEPT ![n] = Tail(@)]
      /\ pc' \in {"open", "final", "abend"}
  <2>1. out' = IF TestedAlone(n) \in omit THEN out
               ELSE Append(out, AloneRow(n, Head(rest[n])))
    <3>1. n = 1 \/ n = 2
      OBVIOUS
    <3>2. CASE n = 1
      BY <3>2 DEF Alone, AloneRow
    <3>3. CASE n = 2
      BY <3>3 DEF Alone, AloneRow
    <3> QED BY <3>1, <3>2, <3>3
  <2> QED BY <2>1 DEF ReadInv, Alone, Full
<1>2. rest \in [1 .. 2 -> Seq(JoinRecord)]
  BY <1>1 DEF StateInv
<1>3. Head(rest[n]) \in JoinRecord /\ Tail(rest[n]) \in Seq(JoinRecord)
  BY <1>1, <1>2, TailOf
<1>4. rest' \in [1 .. 2 -> Seq(JoinRecord)]
  BY <1>1, <1>2, <1>3
<1>5. rest'[n] = Tail(rest[n]) /\ \A m \in 1 .. 2 : m # n => rest'[m] = rest[m]
  BY <1>1, <1>2
<1>6. AloneRow(n, Head(rest[n])) \in OutRow
  <2>1. {n} \in SUBSET (1 .. 2)
    OBVIOUS
  <2> QED BY <1>3, <2>1 DEF AloneRow, OutRow
<1>7. out' \in Seq(OutRow)
  <2>1. out \in Seq(OutRow)
    BY <1>1 DEF StateInv
  <2>2. Append(out, AloneRow(n, Head(rest[n]))) \in Seq(OutRow)
    BY <2>1, <1>6
  <2> QED BY <2>1, <2>2, <1>1
<1>8. StateInv'
  <2>1. DOMAIN buffer' = 1 .. 2
    BY <1>1 DEF StateInv
  <2> QED BY <2>1, <1>1, <1>4, <1>7 DEF StateInv
<1>9. PhaseInv'
  BY <1>1 DEF PhaseInv, Waiting, Running
<1> QED BY <1>1, <1>2, <1>5, <1>6, <1>8, <1>9 DEF ReadInv

(* The final sort.                                                         *)
LEMMA FinalRead ==
    ASSUME ReadInv, FinalSort
    PROVE  /\ ReadInv'
           /\ ToSet(out') = ToSet(out)
           /\ \E p \in [DOMAIN out -> DOMAIN out] :
                 /\ Distinct(p) /\ DOMAIN out' = DOMAIN out
                 /\ \A i \in DOMAIN out : out'[i] = out[p[i]]
<1>1. /\ pc' = "done" /\ UNCHANGED <<reading, looping>>
      /\ out' = IF resort THEN KeyedByF1(out) ELSE out
  BY DEF FinalSort
<1>2. out \in Seq(OutRow)
  BY DEF ReadInv, StateInv
<1>3. CASE resort
  <2>1. \A i \in DOMAIN out : out[i].f1.key \in Int
    <3>1. \A i \in DOMAIN out : out[i] \in OutRow
      BY <1>2
    <3>2. \A x \in OutRow : x.f1 \in JoinRecord \cup {Blank}
      BY DEF OutRow
    <3> QED BY <3>1, <3>2, RecordFields
  <2>2. /\ KeyedByF1(out) \in Seq(OutRow)
        /\ ToSet(KeyedByF1(out)) = ToSet(out)
        /\ \E p \in [DOMAIN out -> DOMAIN out] :
              Distinct(p) /\ KeyedByF1(out) = [i \in DOMAIN out |-> out[p[i]]]
    BY <1>2, <2>1, KeyedByF1Is
  <2>3. PICK p \in [DOMAIN out -> DOMAIN out] :
           Distinct(p) /\ KeyedByF1(out) = [i \in DOMAIN out |-> out[p[i]]]
    BY <2>2
  <2>4. out' = KeyedByF1(out)
    BY <1>1, <1>3
  <2>5. DOMAIN out' = DOMAIN out /\ \A i \in DOMAIN out : out'[i] = out[p[i]]
    BY <2>3, <2>4
  <2>6. ReadInv'
    BY <1>1, <2>2, <2>4, GoneRead
  <2> QED BY <2>2, <2>3, <2>4, <2>5, <2>6
<1>4. CASE ~ resort
  <2>1. out' = out
    BY <1>1, <1>4
  <2>2. ReadInv'
    BY <1>1, <1>2, <2>1, GoneRead
  <2>3. PICK p \in [DOMAIN out -> DOMAIN out] : p = [i \in DOMAIN out |-> i]
    OBVIOUS
  <2>4. Distinct(p) /\ \A i \in DOMAIN out : out[i] = out[p[i]]
    BY <2>3 DEF Distinct
  <2> QED BY <2>1, <2>2, <2>4
<1> QED BY <1>3, <1>4

(* The steps that only stop the join.                                      *)
Stops ==
    \/ OpenFails \/ WriteFails \/ Abend \/ JoinEnd \/ NothingToDo

(* A step that stops changes nothing of the files and the output. *)
LEMMA StopsRead ==
    ASSUME ReadInv, Stops
    PROVE  ReadInv' /\ UNCHANGED <<reading, looping, out>> /\ pc' \in {"final", "abend"}
<1>1. UNCHANGED <<reading, looping, out>> /\ pc' \in {"final", "abend"}
  BY DEF Stops, OpenFails, WriteFails, Abend, JoinEnd, NothingToDo
<1>2. out' \in Seq(OutRow)
  BY <1>1 DEF ReadInv, StateInv
<1> QED BY <1>1, <1>2, GoneRead

(* The kinds of steps.                                                     *)
LEMMA Steps ==
    [Next]_vars =>
        \/ SortF1 \/ SortF2 \/ Open \/ Round \/ Omitted \/ Pair
        \/ (\E n \in 1 .. 2 : Alone(n)) \/ FinalSort \/ Stops \/ UNCHANGED vars
BY DEF Next, Step, Stops, Stopped

(* ReadInv is kept. *)
LEMMA ReadStep ==
    ASSUME InputInv, ReadInv, SortedInv, [Next]_vars
    PROVE  ReadInv'
<1>1. CASE UNCHANGED vars
  BY <1>1 DEF vars, settings, reading, looping, ReadInv, StateInv, PhaseInv, Waiting, Running
<1> QED BY <1>1, Steps, SortRead, OpenRead, RoundRead, OmittedRead, PairRead, AloneRead,
     FinalRead, StopsRead

-----------------------------------------------------------------------------
(* Before the join. *)

LEMMA SortedInit == Init => SortedInv
BY DEF Init, SortedInv

(* What is left of a file that is alone is in order.                       *)
LEMMA AloneSorted ==
    ASSUME InputInv, ReadInv, SortedInv, Ordered, NEW n \in 1 .. 2, Alone(n)
    PROVE  \A m \in 1 .. 2 : /\ KeySorted(rest'[m]) /\ Distinct(rest'[m])
                             /\ ToSet(rest'[m]) \subseteq Joined(m)
<1>1. \A m \in 1 .. 2 : /\ KeySorted(rest[m]) /\ Distinct(rest[m])
                        /\ ToSet(rest[m]) \subseteq Joined(m)
  <2>1. pc = "open"
    BY DEF Alone
  <2>2. \A m \in 1 .. 2 : m = 1 \/ m = 2
    OBVIOUS
  <2> QED BY <2>1, <2>2 DEF SortedInv
<1>2. /\ rest[n] # <<>> /\ rest[n] \in Seq(JoinRecord) /\ rest'[n] = Tail(rest[n])
      /\ \A m \in 1 .. 2 : m # n => rest'[m] = rest[m]
  BY AloneRead
<1>3. /\ KeySorted(Tail(rest[n])) /\ Distinct(Tail(rest[n]))
      /\ ToSet(Tail(rest[n])) \subseteq ToSet(rest[n])
  <2>1. KeySorted(Tail(rest[n]))
    BY <1>1, <1>2, TailSorted
  <2>2. /\ ToSet(rest[n]) = {Head(rest[n])} \cup ToSet(Tail(rest[n]))
        /\ Distinct(rest[n]) => Distinct(Tail(rest[n]))
    BY <1>2, TailOf
  <2> QED BY <1>1, <2>1, <2>2
<1> SUFFICES ASSUME NEW m \in 1 .. 2
             PROVE  /\ KeySorted(rest'[m]) /\ Distinct(rest'[m])
                    /\ ToSet(rest'[m]) \subseteq Joined(m)
  OBVIOUS
<1>4. CASE m = n
  BY <1>1, <1>2, <1>3, <1>4
<1>5. CASE m # n
  BY <1>1, <1>2, <1>5
<1> QED BY <1>4, <1>5

(* SortedInv is kept. *)
LEMMA SortedStep ==
    ASSUME InputInv, ReadInv, SortedInv, [Next]_vars
    PROVE  SortedInv'
<1>1. UNCHANGED settings
  BY SettingsStay
<1>2. /\ input' = input /\ (Ordered' <=> Ordered) /\ \A n : Joined(n)' = Joined(n)
  BY <1>1, SettingsSame
<1>3. StateInv
  BY DEF ReadInv
<1>4. CASE UNCHANGED vars
  <2>1. pc' = pc /\ rest' = rest
    BY <1>4 DEF vars, reading
  <2> QED BY <2>1, <1>2 DEF SortedInv
<1>5. CASE SortF1
  <2>1. /\ pc = "sort1" /\ pc' = "sort2" /\ Sort(1, "sort1", "sort2")
        /\ rest[1] = input[1] /\ rest[2] = input[2]
    BY <1>5 DEF SortF1, Sort, SortedInv
  <2>2. 1 \in 1 .. 2 /\ 2 \in 1 .. 2
    OBVIOUS
  <2>3. /\ rest'[2] = rest[2] /\ (Ordered => KeySorted(rest'[1]))
        /\ Distinct(rest'[1]) /\ ToSet(rest'[1]) = Joined(1)
    BY <2>1, <2>2, <1>3, SortIs
  <2> QED BY <2>1, <2>3, <1>2 DEF SortedInv
<1>6. CASE SortF2
  <2>1. /\ pc = "sort2" /\ pc' = "open" /\ Sort(2, "sort2", "open")
        /\ rest[2] = input[2]
        /\ Ordered => KeySorted(rest[1]) /\ Distinct(rest[1]) /\ ToSet(rest[1]) = Joined(1)
    BY <1>6 DEF SortF2, Sort, SortedInv
  <2>2. 1 \in 1 .. 2 /\ 2 \in 1 .. 2
    OBVIOUS
  <2>3. /\ rest'[1] = rest[1] /\ (Ordered => KeySorted(rest'[2]))
        /\ Distinct(rest'[2]) /\ ToSet(rest'[2]) = Joined(2)
    BY <2>1, <2>2, <1>3, SortIs
  <2>4. Ordered => \A n \in 1 .. 2 : ToSet(rest'[n]) \subseteq Joined(n)
    <3>1. \A n \in 1 .. 2 : n = 1 \/ n = 2
      OBVIOUS
    <3> QED BY <3>1, <2>1, <2>3
  <2> QED BY <2>1, <2>3, <2>4, <1>2 DEF SortedInv
<1>7. CASE \E n \in 1 .. 2 : Alone(n)
  <2>1. PICK n \in 1 .. 2 : Alone(n)
    BY <1>7
  <2>2. pc' \in {"open", "final", "abend"}
    BY <2>1 DEF Alone
  <2>3. Ordered => \A m \in 1 .. 2 : /\ KeySorted(rest'[m]) /\ Distinct(rest'[m])
                                     /\ ToSet(rest'[m]) \subseteq Joined(m)
    BY <2>1, AloneSorted
  <2> QED BY <2>2, <2>3, <1>2 DEF SortedInv
<1>8. CASE Open \/ Round \/ Omitted \/ Pair \/ FinalSort \/ Stops
  <2>1. pc' \notin {"sort1", "sort2", "open"}
    <3>1. CASE Open \/ Round \/ FinalSort \/ Stops
      BY <3>1, StopsRead DEF Open, Round, FinalSort
    <3>2. CASE Omitted \/ Pair
      BY <3>2 DEF Omitted, Pair, Onward, InSequence
    <3> QED BY <1>8, <3>1, <3>2
  <2> QED BY <2>1 DEF SortedInv
<1> QED BY <1>4, <1>5, <1>6, <1>7, <1>8, Steps

-----------------------------------------------------------------------------
(* The place of the groups in their files. *)

(* The first group of a file.                                              *)
LEMMA PlacedFirst ==
    ASSUME NEW s \in Seq(JoinRecord), s # <<>>, KeySorted(s), Distinct(s)
    PROVE  /\ Placed(ToSet(s), GroupOf(s), RestOf(s))
           /\ Behind(ToSet(s), GroupOf(s), RestOf(s)) = {}
<1>1. /\ Distinct(GroupOf(s)) /\ Distinct(RestOf(s)) /\ KeySorted(RestOf(s))
      /\ ToSet(s) = ToSet(GroupOf(s)) \cup ToSet(RestOf(s))
      /\ \A i \in DOMAIN GroupOf(s) : GroupOf(s)[i].key = s[1].key
      /\ \A i \in DOMAIN RestOf(s) : s[1].key < RestOf(s)[i].key
  BY GroupSorted, RecordFields
<1>2. GroupOf(s)[1] = s[1]
  BY GroupIs
<1>3. Behind(ToSet(s), GroupOf(s), RestOf(s)) = {}
  BY <1>1 DEF Behind
<1> QED BY <1>1, <1>2, <1>3 DEF Placed

(* The next one: the group before it has been passed.                      *)
LEMMA PlacedNext ==
    ASSUME NEW J \in SUBSET JoinRecord, NEW g \in Seq(JoinRecord), NEW r \in Seq(JoinRecord),
           g # <<>>, r # <<>>, Placed(J, g, r)
    PROVE  /\ Placed(J, GroupOf(r), RestOf(r))
           /\ Behind(J, GroupOf(r), RestOf(r)) = Behind(J, g, r) \cup ToSet(g)
           /\ g[1].key < GroupOf(r)[1].key
           /\ GroupOf(r)[1] = r[1] /\ 1 \in DOMAIN r
           /\ ToSet(RestOf(r)) \subseteq ToSet(r)
           /\ \A i \in DOMAIN RestOf(r) : GroupOf(r)[1].key < RestOf(r)[i].key
<1> DEFINE h == GroupOf(r)
           t == RestOf(r)
<1>1. /\ ToSet(g) \subseteq J /\ ToSet(r) \subseteq J
      /\ Distinct(g) /\ Distinct(r) /\ KeySorted(r)
      /\ \A i \in DOMAIN g : g[i].key = g[1].key
      /\ \A i \in DOMAIN r : g[1].key < r[i].key
      /\ \A p \in Behind(J, g, r) : p.key < g[1].key
  BY DEF Placed
<1>2. /\ Distinct(h) /\ Distinct(t) /\ KeySorted(t)
      /\ ToSet(r) = ToSet(h) \cup ToSet(t)
      /\ \A i \in DOMAIN h : h[i].key = r[1].key
      /\ \A i \in DOMAIN t : r[1].key < t[i].key
  BY <1>1, GroupSorted, RecordFields
<1>3. h[1] = r[1]
  BY GroupIs
<1>4. 1 \in DOMAIN r /\ 1 \in DOMAIN g /\ r[1] \in JoinRecord /\ g[1] \in JoinRecord
  OBVIOUS
<1>5. g[1].key < r[1].key
  BY <1>1, <1>4
<1> HIDE DEF h, t
<1>6. ToSet(g) \cap ToSet(r) = {}
  <2> SUFFICES ASSUME NEW i \in DOMAIN g, NEW j \in DOMAIN r, g[i] = r[j] PROVE FALSE
    BY DEF ToSet
  <2>1. g[i].key = g[1].key /\ g[1].key < r[j].key
    BY <1>1
  <2>2. g[1].key \in Int
    BY <1>4, RecordFields
  <2> QED BY <2>1, <2>2
<1>7. Behind(J, h, t) = Behind(J, g, r) \cup ToSet(g)
  BY <1>1, <1>2, <1>6 DEF Behind
<1>8. \A p \in Behind(J, h, t) : p.key < h[1].key
  <2> SUFFICES ASSUME NEW p \in Behind(J, g, r) \cup ToSet(g) PROVE p.key < r[1].key
    BY <1>3, <1>7
  <2>1. p \in J /\ p \in JoinRecord
    BY <1>1 DEF Behind
  <2>2. p.key <= g[1].key
    <3>1. CASE p \in Behind(J, g, r)
      <4>1. p.key < g[1].key
        BY <3>1, <1>1
      <4> QED BY <4>1, <2>1, <1>4, RecordFields
    <3>2. CASE p \in ToSet(g)
      <4>1. p.key = g[1].key
        BY <3>2, <1>1 DEF ToSet
      <4> QED BY <4>1, <1>4, RecordFields
    <3> QED BY <3>1, <3>2
  <2>3. p.key \in Int /\ g[1].key \in Int /\ r[1].key \in Int
    BY <2>1, <1>4, RecordFields
  <2> QED BY <2>2, <2>3, <1>5
<1>9. Placed(J, h, t)
  BY <1>1, <1>2, <1>3, <1>8 DEF Placed
<1> QED BY <1>2, <1>3, <1>4, <1>5, <1>7, <1>9 DEF h, t

(* When the join begins, nothing has been taken from the files.            *)
LEMMA OpenWhole ==
    ASSUME InputInv, ReadInv, SortedInv, AloneInv, Ordered, Open
    PROVE  \A n \in 1 .. 2 : /\ ToSet(rest[n]) = Joined(n) /\ Taken(n) = {}
                             /\ rest[n] \in Seq(JoinRecord) /\ rest[n] # <<>>
                             /\ KeySorted(rest[n]) /\ Distinct(rest[n])
<1>1. pc = "open" /\ rest[1] # <<>> /\ rest[2] # <<>>
  BY DEF Open, BothHaveRecords
<1>2. rest \in [1 .. 2 -> Seq(JoinRecord)]
  BY DEF ReadInv, StateInv
<1>3. \A n \in 1 .. 2 : n = 1 \/ n = 2
  OBVIOUS
<1>4. \A n \in 1 .. 2 : /\ KeySorted(rest[n]) /\ Distinct(rest[n])
                        /\ ToSet(rest[n]) \subseteq Joined(n)
  BY <1>1, <1>3 DEF SortedInv
<1>5. \A n \in 1 .. 2 : Joined(n) # {}
  <2> SUFFICES ASSUME NEW n \in 1 .. 2 PROVE Joined(n) # {}
    OBVIOUS
  <2>1. rest[n] \in Seq(JoinRecord) /\ rest[n] # <<>>
    BY <1>1, <1>2, <1>3
  <2>2. 1 \in DOMAIN rest[n]
    BY <2>1
  <2>3. rest[n][1] \in ToSet(rest[n])
    BY <2>2 DEF ToSet
  <2> QED BY <2>3, <1>4
<1>6. \A n \in 1 .. 2 : Taken(n) = {}
  <2>1. \A n \in 1 .. 2 : 3 - n \in 1 .. 2
    OBVIOUS
  <2> QED BY <2>1, <1>1, <1>5 DEF AloneInv
<1>7. \A n \in 1 .. 2 : ToSet(rest[n]) = Joined(n)
  BY <1>4, <1>6 DEF Taken
<1> QED BY <1>1, <1>2, <1>3, <1>4, <1>6, <1>7

(* The step at the head of the loop: which files are read.                 *)
LEMMA RoundIs ==
    ASSUME ReadInv, Round
    PROVE  /\ pc = "round" /\ pc' = "pair" /\ UNCHANGED <<ret, buffer, out>>
           /\ first' = FALSE /\ at' = <<1, 1>> /\ sumEof < MaxFiles + 2
           /\ \E F \in SUBSET (1 .. 2) :
                 /\ 1 \in F <=> eof[1] = 0 /\ ~ first /\ ("R" \in cmd[1] \/ eof[2] = 1)
                 /\ 2 \in F <=> eof[2] = 0 /\ ~ first
                                /\ ("R" \in cmd[2] \/ ("R" \in cmd[1] /\ eof[1] # 0))
                 /\ \A n \in F : /\ eof[n] = 0 /\ rest[n] # <<>>
                                 /\ group'[n] = GroupOf(rest[n]) /\ rest'[n] = RestOf(rest[n])
                                 /\ eof'[n] \in {0, 1}
                 /\ \A n \in 1 .. 2 \ F :
                       group'[n] = group[n] /\ rest'[n] = rest[n] /\ eof'[n] = eof[n]
<1> DEFINE Reads1 == Reads(1, cmd, eof)
           c2 == IF Reads1 /\ eof[1] # 0 THEN {"R"} ELSE cmd[2]
           Reads2 == Reads(2, <<cmd[1], c2>>, eof)
<1>1. PICK r1 \in BOOLEAN, r2 \in BOOLEAN :
         /\ r1 <=> Reads1
         /\ r2 <=> Reads2
         /\ ReadGroups({n \in 1 .. 2 : eof[n] = 0 /\ <<r1, r2>>[n]})
  <2>1. ReadGroups({n \in 1 .. 2 : eof[n] = 0 /\ <<Reads1, Reads2>>[n]})
    BY DEF Round
  <2>2. Reads1 \in BOOLEAN /\ Reads2 \in BOOLEAN
    BY DEF Reads
  <2> HIDE DEF Reads1, Reads2
  <2> QED BY <2>1, <2>2
<1>2. /\ pc = "round" /\ pc' = "pair" /\ UNCHANGED <<ret, buffer, out>>
      /\ first' = FALSE /\ at' = <<1, 1>> /\ sumEof < MaxFiles + 2
  BY DEF Round
<1>3. PICK F \in SUBSET (1 .. 2) : F = {n \in 1 .. 2 : eof[n] = 0 /\ <<r1, r2>>[n]}
  OBVIOUS
<1>4. (1 \in F <=> eof[1] = 0 /\ r1) /\ (2 \in F <=> eof[2] = 0 /\ r2)
  BY <1>3
<1>5. r1 <=> ~ first /\ ("R" \in cmd[1] \/ eof[2] = 1)
  BY <1>1 DEF Reads
<1>6. r2 <=> ~ first /\ "R" \in c2
  <2>1. <<cmd[1], c2>>[2] = c2
    OBVIOUS
  <2>2. Reads2 <=> ~ first /\ "R" \in c2
    <3> HIDE DEF c2
    <3> QED BY <2>1 DEF Reads
  <2> QED BY <2>2, <1>1
<1>7. "R" \in c2 <=> IF r1 /\ eof[1] # 0 THEN TRUE ELSE "R" \in cmd[2]
  BY <1>1
<1> HIDE DEF c2
<1>8. 2 \in F <=> eof[2] = 0 /\ ~ first /\ ("R" \in cmd[2] \/ ("R" \in cmd[1] /\ eof[1] # 0))
  BY <1>4, <1>5, <1>6, <1>7
<1>9. 1 \in F <=> eof[1] = 0 /\ ~ first /\ ("R" \in cmd[1] \/ eof[2] = 1)
  BY <1>4, <1>5
<1>10. \A n \in F : eof[n] = 0 /\ rest[n] # <<>>
  <2>1. \A n \in 1 .. 2 : eof[n] = 0 => rest[n] # <<>>
    BY <1>2 DEF ReadInv, PhaseInv, Running
  <2> QED BY <2>1, <1>3
<1>11. /\ \A n \in F : /\ group'[n] = GroupOf(rest[n]) /\ rest'[n] = RestOf(rest[n])
                       /\ eof'[n] \in {0, 1}
       /\ \A n \in 1 .. 2 \ F :
             group'[n] = group[n] /\ rest'[n] = rest[n] /\ eof'[n] = eof[n]
  BY <1>1, <1>3, <1>10, ReadGroupsIs DEF ReadInv
<1> QED BY <1>2, <1>8, <1>9, <1>10, <1>11

(* PlaceInv is kept. *)
LEMMA PlaceStep ==
    ASSUME InputInv, ReadInv, SortedInv, AloneInv, PlaceInv, [Next]_vars
    PROVE  PlaceInv'
<1>1. (Ordered' <=> Ordered) /\ \A n : Joined(n)' = Joined(n)
  BY SettingsStay, SettingsSame
<1> SUFFICES ASSUME Ordered, Running'
             PROVE  \A n \in 1 .. 2 : Placed(Joined(n), group'[n], rest'[n])
  BY <1>1 DEF PlaceInv
<1>2. CASE UNCHANGED vars \/ Pair \/ Omitted
  <2>1. group' = group /\ rest' = rest /\ Running
    BY <1>2 DEF vars, reading, Pair, Omitted, Running, InSequence
  <2> QED BY <2>1 DEF PlaceInv
<1>3. CASE Open
  <2>1. \A n \in 1 .. 2 : group'[n] = GroupOf(rest[n]) /\ rest'[n] = RestOf(rest[n])
    BY <1>3 DEF Open, ReadGroups
  <2>2. \A n \in 1 .. 2 : /\ ToSet(rest[n]) = Joined(n)
                          /\ rest[n] \in Seq(JoinRecord) /\ rest[n] # <<>>
                          /\ KeySorted(rest[n]) /\ Distinct(rest[n])
    BY <1>3, OpenWhole
  <2> SUFFICES ASSUME NEW n \in 1 .. 2 PROVE Placed(Joined(n), group'[n], rest'[n])
    OBVIOUS
  <2>3. Placed(ToSet(rest[n]), GroupOf(rest[n]), RestOf(rest[n]))
    BY <2>2, PlacedFirst
  <2> QED BY <2>1, <2>2, <2>3
<1>4. CASE Round
  <2>1. PICK F \in SUBSET (1 .. 2) :
           /\ \A n \in F : /\ rest[n] # <<>>
                           /\ group'[n] = GroupOf(rest[n]) /\ rest'[n] = RestOf(rest[n])
           /\ \A n \in 1 .. 2 \ F : group'[n] = group[n] /\ rest'[n] = rest[n]
    BY <1>4, RoundIs
  <2> SUFFICES ASSUME NEW n \in 1 .. 2 PROVE Placed(Joined(n), group'[n], rest'[n])
    OBVIOUS
  <2>2. Running
    BY <1>4 DEF Round, Running
  <2>3. /\ Placed(Joined(n), group[n], rest[n])
        /\ group[n] \in Seq(JoinRecord) /\ rest[n] \in Seq(JoinRecord) /\ group[n] # <<>>
    BY <2>2 DEF PlaceInv, ReadInv, StateInv, PhaseInv
  <2>4. CASE n \in F
    <3>1. Joined(n) \in SUBSET JoinRecord
      BY JoinedIs
    <3>2. Placed(Joined(n), GroupOf(rest[n]), RestOf(rest[n]))
      BY <3>1, <2>1, <2>3, <2>4, PlacedNext
    <3> QED BY <3>2, <2>1, <2>4
  <2>5. CASE n \notin F
    BY <2>1, <2>3, <2>5
  <2> QED BY <2>4, <2>5
<1>5. CASE SortF1 \/ SortF2 \/ (\E n \in 1 .. 2 : Alone(n)) \/ FinalSort \/ Stops
  <2>1. ~ Running'
    BY <1>5, StopsRead DEF SortF1, SortF2, Sort, Alone, FinalSort, Running
  <2> QED BY <2>1
<1> QED BY <1>2, <1>3, <1>4, <1>5, Steps

-----------------------------------------------------------------------------
(* One file is alone. *)

LEMMA AloneInit == Init => AloneInv
BY DEF Init, AloneInv

(* The rows of what has been taken from the files.                         *)
AloneRows(n, S) == {AloneRow(n, r) : r \in S}

(* A record taken from a file that is alone.                               *)
LEMMA AloneIs ==
    ASSUME InputInv, ReadInv, SortedInv, AloneInv, Ordered, NEW n \in 1 .. 2, Alone(n)
    PROVE  /\ Joined(3 - n) = {} /\ type[n] \in {"U", "O"}
           /\ Head(rest[n]) \in Joined(n) /\ Head(rest[n]) \notin Taken(n)
           /\ Taken(n)' = Taken(n) \cup {Head(rest[n])}
           /\ Taken(3 - n) = {} /\ Taken(3 - n)' = {}
           /\ omit = {} =>
                 /\ ToSet(out) = AloneRows(n, Taken(n)) /\ Distinct(out)
                 /\ out' = Append(out, AloneRow(n, Head(rest[n])))
                 /\ ToSet(out') = AloneRows(n, Taken(n)') /\ Distinct(out')
<1>1. /\ pc = "open" /\ rest[n] # <<>> /\ rest[3 - n] = <<>> /\ type[n] \in {"U", "O"}
  BY DEF Alone, Full
<1>2. /\ n = 1 \/ n = 2
      /\ 3 - n \in 1 .. 2 /\ 3 - n # n
  OBVIOUS
<1>3. /\ Distinct(rest[n]) /\ ToSet(rest[n]) \subseteq Joined(n)
  BY <1>1, <1>2 DEF SortedInv
<1>4. Joined(3 - n) = {}
  <2>1. Taken(3 - n) = Joined(3 - n)
    BY <1>1 DEF Taken, ToSet
  <2> QED BY <2>1, <1>1, <1>2 DEF AloneInv
<1>5. /\ rest[n] \in Seq(JoinRecord) /\ rest'[n] = Tail(rest[n])
      /\ out' = IF TestedAlone(n) \in omit THEN out
                ELSE Append(out, AloneRow(n, Head(rest[n])))
      /\ AloneRow(n, Head(rest[n])) \in OutRow
  BY AloneRead
<1>6. /\ ToSet(rest[n]) = {Head(rest[n])} \cup ToSet(Tail(rest[n]))
      /\ Head(rest[n]) \notin ToSet(Tail(rest[n]))
  BY <1>1, <1>3, <1>5, TailOf
<1>7. \A m : Joined(m)' = Joined(m)
  BY SettingsStay, SettingsSame DEF Next, Step, Alone
<1>8. /\ Head(rest[n]) \in Joined(n) /\ Head(rest[n]) \notin Taken(n)
      /\ Taken(n)' = Taken(n) \cup {Head(rest[n])}
  BY <1>3, <1>5, <1>6, <1>7 DEF Taken
<1>9. Taken(3 - n) = {} /\ Taken(3 - n)' = {}
  BY <1>4, <1>7 DEF Taken
<1>10. ASSUME omit = {}
       PROVE  /\ ToSet(out) = AloneRows(n, Taken(n)) /\ Distinct(out)
              /\ out' = Append(out, AloneRow(n, Head(rest[n])))
              /\ ToSet(out') = AloneRows(n, Taken(n)') /\ Distinct(out')
  <2>1. Distinct(out) /\ ToSet(out) = AloneRows(1, Taken(1)) \cup AloneRows(2, Taken(2))
    BY <1>1, <1>10 DEF AloneInv, AloneRows
  <2>2. ToSet(out) = AloneRows(n, Taken(n))
    <3>1. AloneRows(3 - n, Taken(3 - n)) = {}
      BY <1>9 DEF AloneRows
    <3>2. ToSet(out) = AloneRows(n, Taken(n)) \cup AloneRows(3 - n, Taken(3 - n))
      <4>1. CASE n = 1
        BY <2>1, <4>1
      <4>2. CASE n = 2
        BY <2>1, <4>2
      <4> QED BY <4>1, <4>2, <1>2
    <3> QED BY <3>1, <3>2
  <2>3. out' = Append(out, AloneRow(n, Head(rest[n])))
    BY <1>5, <1>10
  <2>4. AloneRow(n, Head(rest[n])) \notin ToSet(out)
    <3> SUFFICES ASSUME NEW r \in Taken(n), AloneRow(n, Head(rest[n])) = AloneRow(n, r)
                 PROVE  FALSE
      BY <2>2 DEF AloneRows
    <3>1. r = Head(rest[n])
      BY <1>2 DEF AloneRow
    <3> QED BY <3>1, <1>8
  <2>5. out \in Seq(OutRow)
    BY DEF ReadInv, StateInv
  <2>6. ToSet(out') = ToSet(out) \cup {AloneRow(n, Head(rest[n]))} /\ Distinct(out')
    BY <2>1, <2>3, <2>4, <2>5, <1>5, ToSetAppend
  <2>7. AloneRows(n, Taken(n)') = AloneRows(n, Taken(n)) \cup {AloneRow(n, Head(rest[n]))}
    BY <1>8 DEF AloneRows
  <2> QED BY <2>1, <2>2, <2>3, <2>6, <2>7
<1> QED BY <1>1, <1>4, <1>8, <1>9, <1>10

(* The steps that enter the state in which the files are looked at.        *)
LEMMA OpenBefore ==
    ASSUME [Next]_vars, pc' = "open"
    PROVE  SortF2 \/ (\E n \in 1 .. 2 : Alone(n)) \/ UNCHANGED vars
<1>1. ~ (SortF1 \/ Open \/ Round \/ FinalSort \/ OpenFails \/ WriteFails \/ Abend
         \/ JoinEnd \/ NothingToDo)
  BY DEF SortF1, Sort, Open, Round, FinalSort, OpenFails, WriteFails, Abend,
     JoinEnd, NothingToDo
<1>2. ~ (Omitted \/ Pair)
  BY DEF Omitted, Pair, Onward, InSequence
<1> QED BY <1>1, <1>2, Steps DEF Stops

(* AloneInv is kept. *)
LEMMA AloneStep ==
    ASSUME InputInv, ReadInv, SortedInv, AloneInv, [Next]_vars
    PROVE  AloneInv'
<1>1. /\ (Ordered' <=> Ordered) /\ type' = type /\ omit' = omit
      /\ \A n : Joined(n)' = Joined(n)
  BY SettingsStay, SettingsSame
<1>2. \A n \in 1 .. 2 : n = 1 \/ n = 2
  OBVIOUS
<1> SUFFICES ASSUME Ordered, pc' = "open"
             PROVE  /\ \A n \in 1 .. 2 : Taken(n)' # {} =>
                          Joined(3 - n) = {} /\ type[n] \in {"U", "O"} /\ rest'[n] # <<>>
                    /\ omit = {} =>
                          /\ Distinct(out')
                          /\ ToSet(out') = AloneRows(1, Taken(1)') \cup AloneRows(2, Taken(2)')
  BY <1>1 DEF AloneInv, AloneRows
<1>3. CASE UNCHANGED vars
  <2>1. pc = "open" /\ out' = out /\ rest' = rest
    BY <1>3 DEF vars, reading
  <2>2. \A n : Taken(n)' = Taken(n)
    BY <2>1, <1>1 DEF Taken
  <2> QED BY <2>1, <2>2 DEF AloneInv, AloneRows
<1>4. CASE SortF2
  <2>1. SortedInv'
    BY SortedStep
  <2>2. /\ pc = "sort2" /\ out' = out /\ Sort(2, "sort2", "open") /\ rest[2] = input[2]
        /\ ToSet(rest[1]) = Joined(1)
    BY <1>4 DEF SortF2, Sort, SortedInv
  <2>3. out' = <<>>
    BY <2>2 DEF ReadInv, PhaseInv
  <2>4. 1 \in 1 .. 2 /\ 2 \in 1 .. 2 /\ StateInv
    BY DEF ReadInv
  <2>5. rest'[1] = rest[1] /\ ToSet(rest'[2]) = Joined(2)
    BY <2>2, <2>4, SortIs
  <2>6. Taken(1)' = {} /\ Taken(2)' = {}
    BY <2>2, <2>5, <1>1 DEF Taken
  <2>7. ToSet(out') = {} /\ Distinct(out')
    BY <2>3 DEF ToSet, Distinct
  <2> QED BY <2>6, <2>7, <1>2 DEF AloneRows
<1>5. CASE \E n \in 1 .. 2 : Alone(n)
  <2>1. PICK n \in 1 .. 2 : Alone(n)
    BY <1>5
  <2>2. /\ Joined(3 - n) = {} /\ type[n] \in {"U", "O"}
        /\ Taken(3 - n)' = {}
        /\ omit = {} => ToSet(out') = AloneRows(n, Taken(n)') /\ Distinct(out')
    BY <2>1, AloneIs
  <2>3. rest'[n] # <<>>
    BY <2>1 DEF Alone
  <2>4. AloneRows(3 - n, Taken(3 - n)') = {}
    BY <2>2 DEF AloneRows
  <2>5. CASE n = 1
    <3>1. Taken(2)' = {} /\ AloneRows(2, Taken(2)') = {} /\ Joined(2) = {}
      BY <2>2, <2>4, <2>5
    <3> QED BY <3>1, <2>2, <2>3, <2>5, <1>2
  <2>6. CASE n = 2
    <3>1. Taken(1)' = {} /\ AloneRows(1, Taken(1)') = {} /\ Joined(1) = {}
      BY <2>2, <2>4, <2>6
    <3> QED BY <3>1, <2>2, <2>3, <2>6, <1>2
  <2> QED BY <2>5, <2>6, <1>2
<1> QED BY <1>3, <1>4, <1>5, OpenBefore

-----------------------------------------------------------------------------
(* The buffers. *)

LEMMA BufferInit == Init => BufferInv
BY DEF Init, BufferInv, Running

(* BufferInv is kept. *)
LEMMA BufferStep ==
    ASSUME InputInv, ReadInv, SortedInv, AloneInv, PlaceInv, BufferInv, [Next]_vars
    PROVE  BufferInv'
<1>1. Ordered' <=> Ordered
  BY SettingsStay, SettingsSame
<1>2. \A n \in 1 .. 2 : n = 1 \/ n = 2
  OBVIOUS
<1>3. rest \in [1 .. 2 -> Seq(JoinRecord)] /\ DOMAIN buffer = 1 .. 2
  BY DEF ReadInv, StateInv
<1> SUFFICES ASSUME Ordered
             PROVE  /\ pc' = "open" =>
                          \A n \in 1 .. 2 : buffer'[n] # <<>> => buffer'[n][1] \in Taken(n)'
                    /\ Running' =>
                          \A n \in 1 .. 2 : buffer'[n] # <<>> =>
                              \/ buffer'[n] = <<Blank>>
                              \/ /\ buffer'[n][1].key \in Int
                                 /\ buffer'[n][1].key <= group'[n][1].key
  BY <1>1 DEF BufferInv, Key
<1>4. ASSUME pc' = "open", NEW n \in 1 .. 2, buffer'[n] # <<>>
      PROVE  buffer'[n][1] \in Taken(n)'
  <2>1. CASE UNCHANGED vars
    <3>1. pc = "open" /\ buffer' = buffer /\ Taken(n)' = Taken(n)
      BY <2>1, <1>4, SettingsSame DEF vars, reading, looping, Taken
    <3> QED BY <3>1, <1>4 DEF BufferInv
  <2>2. CASE SortF2
    <3>1. buffer' = << <<>>, <<>> >>
      BY <2>2 DEF SortF2, Sort, looping, ReadInv, PhaseInv
    <3> QED BY <3>1, <1>2, <1>4
  <2>3. CASE \E m \in 1 .. 2 : Alone(m)
    <3>1. PICK m \in 1 .. 2 : Alone(m)
      BY <2>3
    <3>2. pc = "open" /\ buffer' = [buffer EXCEPT ![m] = <<Head(rest[m])>>]
      BY <3>1 DEF Alone
    <3>3. Head(rest[m]) \in Taken(m)' /\ Taken(3 - m) = {}
      BY <3>1, AloneIs
    <3>4. CASE n = m
      BY <3>2, <3>3, <3>4, <1>3
    <3>5. CASE n # m
      <4>1. buffer'[n] = buffer[n] /\ n = 3 - m
        BY <3>2, <3>5, <1>2, <1>3
      <4> QED BY <3>2, <3>3, <4>1, <1>4 DEF BufferInv
    <3> QED BY <3>4, <3>5
  <2> QED BY <2>1, <2>2, <2>3, <1>4, OpenBefore
<1>5. ASSUME Running', NEW n \in 1 .. 2, buffer'[n] # <<>>
      PROVE  \/ buffer'[n] = <<Blank>>
             \/ buffer'[n][1].key \in Int /\ buffer'[n][1].key <= group'[n][1].key
  <2>1. CASE UNCHANGED vars
    <3>1. Running /\ buffer' = buffer /\ group' = group
      BY <2>1, <1>5 DEF vars, reading, looping, Running
    <3> QED BY <3>1, <1>5 DEF BufferInv, Key
  <2>2. CASE Open
    <3>1. /\ pc = "open" /\ buffer' = buffer /\ rest[3 - n] # <<>> /\ 3 - n \in 1 .. 2
      BY <2>2, <1>2 DEF Open, looping, BothHaveRecords
    <3>2. Joined(3 - n) = {}
      BY <3>1, <1>5 DEF BufferInv, AloneInv
    <3>3. ToSet(rest[3 - n]) = {}
      BY <3>1, <3>2 DEF SortedInv
    <3>4. rest[3 - n] \in Seq(JoinRecord) /\ 1 \in DOMAIN rest[3 - n]
      <4>1. rest[3 - n] \in Seq(JoinRecord)
        BY <3>1, <1>3
      <4> QED BY <3>1, <4>1
    <3> QED BY <3>3, <3>4 DEF ToSet
  <2>3. CASE Round
    <3>1. PICK F \in SUBSET (1 .. 2) :
             /\ \A m \in F : rest[m] # <<>> /\ group'[m] = GroupOf(rest[m])
             /\ \A m \in 1 .. 2 \ F : group'[m] = group[m]
      BY <2>3, RoundIs
    <3>2. buffer' = buffer /\ Running
      BY <2>3 DEF Round, Running
    <3>3. \/ buffer[n] = <<Blank>>
          \/ buffer[n][1].key \in Int /\ buffer[n][1].key <= group[n][1].key
      BY <3>2, <1>5 DEF BufferInv, Key
    <3>4. CASE n \notin F
      BY <3>1, <3>2, <3>3, <3>4
    <3>5. CASE n \in F
      <4>1. /\ Placed(Joined(n), group[n], rest[n]) /\ Joined(n) \in SUBSET JoinRecord
            /\ group[n] \in Seq(JoinRecord) /\ group[n] # <<>> /\ rest[n] \in Seq(JoinRecord)
        BY <3>2, <1>3, JoinedIs DEF PlaceInv, ReadInv, StateInv, PhaseInv
      <4>2. group[n][1].key < group'[n][1].key
        BY <4>1, <3>1, <3>5, PlacedNext
      <4>3. group[n][1].key \in Int /\ group'[n][1].key \in Int
        <5>1. group[n][1] \in JoinRecord
          BY <4>1
        <5>2. rest[n][1] \in JoinRecord /\ group'[n][1] = rest[n][1]
          BY <4>1, <3>1, <3>5, GroupIs
        <5> QED BY <5>1, <5>2, RecordFields
      <4> QED BY <3>2, <3>3, <4>2, <4>3
    <3> QED BY <3>4, <3>5
  <2>4. CASE Pair \/ Omitted
    <3>1. Running /\ group' = group
      BY <2>4 DEF Pair, Omitted, InSequence, Running, reading
    <3>2. buffer'[n] \in {<<Blank>>, <<Record(n)>>}
      <4>1. CASE Pair
        <5>1. \E c : buffer' = << <<Row(c).f1>>, <<Row(c).f2>> >>
          BY <4>1 DEF Pair
        <5> QED BY <5>1, <1>2 DEF Row
      <4>2. CASE Omitted
        BY <4>2, <1>2 DEF Omitted
      <4> QED BY <4>1, <4>2, <2>4
    <3>3. /\ at[n] \in DOMAIN group[n] /\ group[n] \in Seq(JoinRecord)
          /\ Placed(Joined(n), group[n], rest[n])
      BY <2>4, <3>1 DEF Pair, Omitted, InSequence, ReadInv, StateInv, PhaseInv, PlaceInv
    <3>4. Record(n).key = group[n][1].key
      BY <3>3 DEF Record, Placed
    <3>5. Record(n) \in JoinRecord
      BY <3>3 DEF Record
    <3>6. Record(n).key \in Int
      BY <3>5, RecordFields
    <3> QED BY <3>1, <3>2, <3>4, <3>6
  <2>5. CASE SortF1 \/ SortF2 \/ (\E m \in 1 .. 2 : Alone(m)) \/ FinalSort \/ Stops
    <3>1. ~ Running'
      BY <2>5, StopsRead DEF SortF1, SortF2, Sort, Alone, FinalSort, Running
    <3> QED BY <3>1, <1>5
  <2> QED BY <2>1, <2>2, <2>3, <2>4, <2>5, Steps
<1> QED BY <1>4, <1>5

-----------------------------------------------------------------------------
(* The alarm. *)

(* The keys of the groups in memory are numbers. *)
LEMMA KeyIs ==
    ASSUME ReadInv, Running, NEW n \in 1 .. 2
    PROVE  /\ Key(n) \in Int /\ group[n] \in Seq(JoinRecord) /\ group[n] # <<>>
           /\ 1 \in DOMAIN group[n] /\ group[n][1] \in JoinRecord
<1>1. group[n] \in Seq(JoinRecord) /\ group[n] # <<>>
  BY DEF ReadInv, StateInv, PhaseInv
<1>2. 1 \in DOMAIN group[n] /\ group[n][1] \in JoinRecord
  BY <1>1
<1> QED BY <1>1, <1>2, RecordFields DEF Key

(* The record the loop is at belongs to the group and has its key. *)
LEMMA RecordIs ==
    ASSUME ReadInv, PlaceInv, Ordered, pc = "pair", NEW n \in 1 .. 2
    PROVE  /\ at[n] \in DOMAIN group[n] /\ Record(n) = group[n][at[n]]
           /\ Record(n) \in JoinRecord /\ Record(n) \in ToSet(group[n])
           /\ Record(n) \in Joined(n)
           /\ Record(n).key = Key(n) /\ Key(n) \in Int
<1>1. Running
  BY DEF Running
<1>2. at[n] \in DOMAIN group[n] /\ group[n] \in Seq(JoinRecord)
  BY DEF ReadInv, StateInv, PhaseInv
<1>3. Placed(Joined(n), group[n], rest[n])
  BY <1>1 DEF PlaceInv
<1>4. Record(n) = group[n][at[n]] /\ Record(n) \in JoinRecord
  BY <1>2 DEF Record
<1>5. Record(n) \in ToSet(group[n])
  BY <1>2, <1>4 DEF ToSet
<1>6. Record(n) \in Joined(n)
  BY <1>3, <1>5 DEF Placed
<1>7. Record(n).key = Key(n)
  BY <1>2, <1>3 DEF Placed, Record, Key
<1> QED BY <1>1, <1>2, <1>4, <1>5, <1>6, <1>7, KeyIs

(* No step takes a file in order for one that is not, but for the two      *)
(* cases.                                                                  *)
LEMMA AlarmStep ==
    ASSUME InputInv, ReadInv, SortedInv, AloneInv, PlaceInv, BufferInv, NoFalseAlarm,
           [Next]_vars
    PROVE  NoFalseAlarm'
<1>1. (Ordered' <=> Ordered) /\ input' = input /\ sorted' = sorted /\ Joined(1)' = Joined(1)
  BY SettingsStay, SettingsSame DEF settings
<1> SUFFICES ASSUME pc' = "abend", Ordered
             PROVE  \/ FillKey > MaxKey /\ \E n \in 1 .. 2 : sorted[n] /\ buffer'[n] = <<Blank>>
                    \/ /\ LineFiles /\ sorted[2] /\ Joined(1) = {}
                       /\ Len(input[2]) > 1 /\ rest'[2] = <<>>
  BY <1>1 DEF NoFalseAlarm
<1>2. CASE Abend
  <2>1. PICK n \in 1 .. 2 : OutOfSequence(n)
    BY <1>2 DEF Abend
  <2>2. pc = "pair" /\ Running /\ buffer' = buffer
    BY <1>2 DEF Abend, Running, looping
  <2>3. sorted[n] /\ buffer[n] # <<>> /\ buffer[n][1].key > Record(n).key
    BY <2>1 DEF OutOfSequence
  <2>4. Record(n).key = Key(n) /\ Key(n) \in Int /\ Record(n) \in JoinRecord
    BY <2>2, RecordIs
  <2>5. buffer[n] = <<Blank>>
    BY <2>2, <2>3, <2>4 DEF BufferInv
  <2>6. FillKey > Record(n).key /\ Record(n).key >= 1
    BY <2>3, <2>4, <2>5, RecordFields DEF Blank
  <2>7. FillKey > MaxKey
    BY <2>4, <2>6, JoinAssumption
  <2> QED BY <2>2, <2>3, <2>5, <2>7
<1>3. CASE \E n \in 1 .. 2 : Alone(n)
  <2>1. PICK n \in 1 .. 2 : Alone(n) /\ AloneOutOfSequence(n)
    BY <1>3 DEF Alone
  <2>2. n = 2 /\ sorted[2] /\ buffer[2] # <<>> /\ pc = "open"
    BY <2>1 DEF AloneOutOfSequence, Alone
  <2>3. /\ Joined(1) = {} /\ Head(rest[2]) \in Joined(2) /\ Head(rest[2]) \notin Taken(2)
        /\ rest[2] # <<>> /\ rest[2] \in Seq(JoinRecord) /\ rest'[2] = Tail(rest[2])
    BY <2>1, <2>2, AloneIs, AloneRead
  <2>4. ~ (Len(rest[2]) > 1)
    <3> SUFFICES ASSUME Len(rest[2]) > 1, rest[2][1].key > rest[2][2].key PROVE FALSE
      BY <2>1, <2>2 DEF AloneOutOfSequence
    <3>1. KeySorted(rest[2])
      BY <2>2 DEF SortedInv
    <3>2. 1 \in DOMAIN rest[2] /\ 2 \in DOMAIN rest[2]
      BY <2>3
    <3>3. rest[2][1].key \in Int /\ rest[2][2].key \in Int
      BY <2>3, <3>2, RecordFields
    <3>4. rest[2][1].key <= rest[2][2].key
      BY <3>1, <3>2 DEF KeySorted
    <3> QED BY <3>3, <3>4
  <2>5. LineFiles
    BY <2>1, <2>4 DEF AloneOutOfSequence
  <2>6. rest'[2] = <<>>
    BY <2>3, <2>4
  <2>7. Len(input[2]) > 1
    <3>1. buffer[2][1] \in Joined(2) /\ buffer[2][1] # Head(rest[2])
      BY <2>2, <2>3 DEF BufferInv, Taken
    <3>2. \A r \in Joined(2) : \E i \in DOMAIN input[2] : r = input[2][i]
      BY DEF Joined, Records, ToSet
    <3>3. PICK i \in DOMAIN input[2], j \in DOMAIN input[2] : i # j
      BY <2>3, <3>1, <3>2
    <3>4. DOMAIN input[2] = 1 .. Len(input[2]) /\ Len(input[2]) \in Nat
      BY DEF InputInv
    <3> QED BY <3>3, <3>4
  <2> QED BY <2>2, <2>3, <2>5, <2>6, <2>7
<1>4. CASE UNCHANGED vars \/ Stopped
  <2>1. pc = "abend" /\ buffer' = buffer /\ rest' = rest
    BY <1>4 DEF vars, Stopped, reading, looping
  <2> QED BY <2>1 DEF NoFalseAlarm
<1>5. CASE Omitted \/ Pair
  <2>1. \E b, cm, ef, c : Onward(b, cm, ef, c)
    BY <1>5 DEF Omitted, Pair
  <2> QED BY <2>1, <1>5 DEF Onward, Omitted, Pair, InSequence
<1>6. CASE SortF1 \/ SortF2 \/ Open \/ Round
  BY <1>6 DEF SortF1, SortF2, Sort, Open, Round
<1>7. CASE JoinEnd
  BY <1>7 DEF JoinEnd
<1>8. CASE NothingToDo \/ FinalSort \/ OpenFails \/ WriteFails
  BY <1>8 DEF NothingToDo, FinalSort, OpenFails, WriteFails
<1> QED BY <1>2, <1>3, <1>4, <1>5, <1>6, <1>7, <1>8 DEF Next, Step

-----------------------------------------------------------------------------
(* What has been passed. *)

(* Which files the head of the loop reads: one with the lower key, both,   *)
(* when the keys are equal, or one when the other is at its end.           *)
LEMMA RoundReads ==
    ASSUME ReadInv, CmdInv, Plain, Round, NEW F \in SUBSET (1 .. 2),
           1 \in F <=> eof[1] = 0 /\ ~ first /\ ("R" \in cmd[1] \/ eof[2] = 1),
           2 \in F <=> eof[2] = 0 /\ ~ first /\ ("R" \in cmd[2] \/ ("R" \in cmd[1] /\ eof[1] # 0)),
           NEW n \in F
    PROVE  \/ Key(n) < Key(3 - n)
           \/ eof[3 - n] = 2
           \/ Key(n) = Key(3 - n) /\ 3 - n \in F
<1>1. pc = "round" /\ Running
  BY DEF Round, Running
<1>2. PICK k1 \in Int, k2 \in Int : k1 = Key(1) /\ k2 = Key(2)
  BY <1>1, KeyIs
<1>3. eof[1] \in 0 .. 2 /\ eof[2] \in 0 .. 2
  BY DEF ReadInv, StateInv
<1>4. ~ first
  BY DEF Round
<1>5. /\ k1 = k2 => "R" \in cmd[1] /\ "R" \in cmd[2] /\ eof[1] # 1 /\ eof[2] # 1
      /\ k1 < k2 => ("R" \in cmd[2] => eof[1] = 2) /\ ("R" \in cmd[1] => eof[1] # 1)
      /\ k1 > k2 => ("R" \in cmd[1] => eof[2] = 2) /\ eof[2] # 1
  BY <1>1, <1>2, <1>4 DEF CmdInv
<1>6. k1 < k2 \/ k1 = k2 \/ k1 > k2
  OBVIOUS
<1>7. CASE n = 1
  BY <1>2, <1>3, <1>4, <1>5, <1>6, <1>7
<1>8. CASE n = 2
  BY <1>2, <1>3, <1>4, <1>5, <1>6, <1>8
<1> QED BY <1>7, <1>8

(* What a round passes is below all that is left of the other file. *)
LEMMA FrontRound ==
    ASSUME InputInv, ReadInv, PlaceInv, FrontInv, CmdInv, Plain, Round, NEW n \in 1 .. 2,
           NEW p \in Behind(Joined(n), group'[n], rest'[n])
    PROVE  /\ \A i \in DOMAIN rest'[3 - n] : p.key < rest'[3 - n][i].key
           /\ p.key < group'[3 - n][1].key \/ eof'[3 - n] = 2
<1> DEFINE m == 3 - n
<1>1. m \in 1 .. 2 /\ Running
  BY DEF Round, Running
<1>2. PICK F \in SUBSET (1 .. 2) :
         /\ 1 \in F <=> eof[1] = 0 /\ ~ first /\ ("R" \in cmd[1] \/ eof[2] = 1)
         /\ 2 \in F <=> eof[2] = 0 /\ ~ first
                        /\ ("R" \in cmd[2] \/ ("R" \in cmd[1] /\ eof[1] # 0))
         /\ \A k \in F : /\ eof[k] = 0 /\ rest[k] # <<>>
                         /\ group'[k] = GroupOf(rest[k]) /\ rest'[k] = RestOf(rest[k])
         /\ \A k \in 1 .. 2 \ F :
               group'[k] = group[k] /\ rest'[k] = rest[k] /\ eof'[k] = eof[k]
  BY RoundIs
<1>3. n \in F => \/ Key(n) < Key(m) \/ eof[m] = 2
                 \/ Key(n) = Key(m) /\ m \in F
  BY <1>2, RoundReads
<1> HIDE DEF m
<1>4. \A k \in 1 .. 2 :
         /\ Placed(Joined(k), group[k], rest[k]) /\ Joined(k) \in SUBSET JoinRecord
         /\ group[k] \in Seq(JoinRecord) /\ group[k] # <<>> /\ rest[k] \in Seq(JoinRecord)
         /\ Key(k) \in Int
         /\ eof[k] = 0 <=> rest[k] # <<>>
  <2> SUFFICES ASSUME NEW k \in 1 .. 2
               PROVE  /\ Placed(Joined(k), group[k], rest[k]) /\ Joined(k) \in SUBSET JoinRecord
                      /\ group[k] \in Seq(JoinRecord) /\ group[k] # <<>>
                      /\ rest[k] \in Seq(JoinRecord) /\ Key(k) \in Int
                      /\ eof[k] = 0 <=> rest[k] # <<>>
    OBVIOUS
  <2>1. Joined(k) \in SUBSET JoinRecord
    BY JoinedIs
  <2>2. Key(k) \in Int
    BY <1>1, KeyIs
  <2> QED BY <2>1, <2>2, <1>1 DEF Plain, PlaceInv, ReadInv, StateInv, PhaseInv
(* The next group of a file and what follows it. *)
<1>5. \A k \in F :
          /\ Behind(Joined(k), group'[k], rest'[k])
                 = Behind(Joined(k), group[k], rest[k]) \cup ToSet(group[k])
          /\ Key(k) < group'[k][1].key /\ group'[k][1] = rest[k][1]
          /\ 1 \in DOMAIN rest[k]
          /\ ToSet(rest'[k]) \subseteq ToSet(rest[k])
          /\ \A i \in DOMAIN rest'[k] : group'[k][1].key < rest'[k][i].key
  <2> SUFFICES ASSUME NEW k \in F
               PROVE  /\ Behind(Joined(k), group'[k], rest'[k])
                             = Behind(Joined(k), group[k], rest[k]) \cup ToSet(group[k])
                      /\ Key(k) < group'[k][1].key /\ group'[k][1] = rest[k][1]
                      /\ 1 \in DOMAIN rest[k]
                      /\ ToSet(rest'[k]) \subseteq ToSet(rest[k])
                      /\ \A i \in DOMAIN rest'[k] : group'[k][1].key < rest'[k][i].key
    OBVIOUS
  <2>1. /\ Placed(Joined(k), group[k], rest[k]) /\ Joined(k) \in SUBSET JoinRecord
        /\ group[k] \in Seq(JoinRecord) /\ group[k] # <<>> /\ rest[k] \in Seq(JoinRecord)
    BY <1>4
  <2>2. rest[k] # <<>> /\ group'[k] = GroupOf(rest[k]) /\ rest'[k] = RestOf(rest[k])
    BY <1>2
  <2>3. /\ Behind(Joined(k), GroupOf(rest[k]), RestOf(rest[k]))
               = Behind(Joined(k), group[k], rest[k]) \cup ToSet(group[k])
        /\ group[k][1].key < GroupOf(rest[k])[1].key
        /\ GroupOf(rest[k])[1] = rest[k][1] /\ 1 \in DOMAIN rest[k]
        /\ ToSet(RestOf(rest[k])) \subseteq ToSet(rest[k])
        /\ \A i \in DOMAIN RestOf(rest[k]) : GroupOf(rest[k])[1].key < RestOf(rest[k])[i].key
    BY <2>1, <2>2, PlacedNext
  <2> QED BY <2>2, <2>3 DEF Key
<1>6. /\ m \in F => /\ Key(m) < group'[m][1].key /\ group'[m][1] = rest[m][1]
                    /\ 1 \in DOMAIN rest[m]
                    /\ ToSet(rest'[m]) \subseteq ToSet(rest[m])
                    /\ \A i \in DOMAIN rest'[m] : group'[m][1].key < rest'[m][i].key
      /\ m \notin F => group'[m] = group[m] /\ rest'[m] = rest[m] /\ eof'[m] = eof[m]
  BY <1>1, <1>2, <1>5
<1>7. \A i \in DOMAIN rest[m] : Key(m) < rest[m][i].key /\ rest[m][i].key \in Int
  <2>1. \A i \in DOMAIN rest[m] : rest[m][i] \in JoinRecord
    BY <1>1, <1>4
  <2> QED BY <2>1, <1>1, <1>4, RecordFields DEF Placed, Key
<1>8. \A i \in DOMAIN rest'[m] : \E j \in DOMAIN rest[m] : rest'[m][i] = rest[m][j]
  BY <1>6 DEF ToSet
<1>9. CASE p \in Behind(Joined(n), group[n], rest[n])
  <2>1. /\ \A i \in DOMAIN rest[m] : p.key < rest[m][i].key
        /\ p.key < Key(m) \/ eof[m] = 2
    BY <1>1, <1>9 DEF FrontInv, Passed, m
  <2>2. \A i \in DOMAIN rest'[m] : p.key < rest'[m][i].key
    BY <2>1, <1>8
  <2>3. m \in F => p.key < group'[m][1].key
    BY <2>1, <1>6
  <2>4. m \notin F => p.key < group'[m][1].key \/ eof'[m] = 2
    BY <2>1, <1>6 DEF Key
  <2> QED BY <2>2, <2>3, <2>4 DEF m
<1>10. CASE p \notin Behind(Joined(n), group[n], rest[n])
  <2>1. n \in F
    BY <1>2, <1>10
  <2>2. p \in ToSet(group[n])
    <3>1. Behind(Joined(n), group'[n], rest'[n])
              = Behind(Joined(n), group[n], rest[n]) \cup ToSet(group[n])
      BY <2>1, <1>5
    <3> QED BY <3>1, <1>10
  <2>3. p.key = Key(n)
    BY <2>2, <1>4 DEF ToSet, Placed, Key
  <2>4. CASE Key(n) < Key(m) \/ (Key(n) = Key(m) /\ m \in F)
    <3>1. PICK kn \in Int, km \in Int : kn = Key(n) /\ km = Key(m)
      BY <1>1, <1>4
    <3>2. \A i \in DOMAIN rest[m] : p.key < rest[m][i].key
      <4> SUFFICES ASSUME NEW i \in DOMAIN rest[m] PROVE p.key < rest[m][i].key
        OBVIOUS
      <4>1. PICK ki \in Int : ki = rest[m][i].key
        BY <1>7
      <4>2. kn <= km /\ km < ki
        BY <4>1, <3>1, <2>4, <1>7
      <4> QED BY <4>1, <4>2, <3>1, <2>3
    <3>3. \A i \in DOMAIN rest'[m] : p.key < rest'[m][i].key
      BY <3>2, <1>8
    <3>4. m \in F => p.key < group'[m][1].key
      BY <3>2, <1>6
    <3>5. m \notin F => p.key < group'[m][1].key
      BY <2>3, <2>4, <1>6 DEF Key
    <3> QED BY <3>3, <3>4, <3>5 DEF m
  <2>5. CASE eof[m] = 2
    <3>1. m \notin F /\ rest[m] = <<>>
      BY <2>5, <1>1, <1>2, <1>4
    <3>2. eof'[m] = 2 /\ rest'[m] = <<>>
      BY <2>5, <3>1, <1>6
    <3> QED BY <3>2 DEF m
  <2> QED BY <2>1, <2>4, <2>5, <1>3
<1> QED BY <1>9, <1>10

(* The end of a file flag 2 stays. *)
LEMMA EndStays ==
    ASSUME ReadInv, Pair \/ Omitted, NEW n \in 1 .. 2
    PROVE  (eof[n] = 2 => eof'[n] = 2) /\ (eof[n] = 0 => eof'[n] = 0)
<1>1. CASE Pair
  <2>1. PICK c : eof' = EofAfter(c)
    BY <1>1 DEF Pair
  <2> QED BY <2>1, EofAfterIs
<1>2. CASE Omitted
  BY <1>2 DEF Omitted, reading
<1> QED BY <1>1, <1>2

(* FrontInv is kept. *)
LEMMA FrontStep ==
    ASSUME InputInv, ReadInv, SortedInv, AloneInv, PlaceInv, FrontInv, CmdInv, [Next]_vars
    PROVE  FrontInv'
<1>1. (Plain' <=> Plain) /\ \A n : Joined(n)' = Joined(n)
  BY SettingsStay, SettingsSame
<1> SUFFICES ASSUME Plain, Running', NEW n \in 1 .. 2,
                    NEW p \in Behind(Joined(n), group'[n], rest'[n])
             PROVE  /\ \A i \in DOMAIN rest'[3 - n] : p.key < rest'[3 - n][i].key
                    /\ p.key < group'[3 - n][1].key \/ eof'[3 - n] = 2
  BY <1>1 DEF FrontInv, Passed, Key
<1>2. 3 - n \in 1 .. 2
  OBVIOUS
<1>3. CASE UNCHANGED vars \/ Pair \/ Omitted
  <2>1. group' = group /\ rest' = rest /\ Running
    BY <1>3 DEF vars, reading, Pair, Omitted, Running, InSequence
  <2>2. eof[3 - n] = 2 => eof'[3 - n] = 2
    BY <1>2, <1>3, EndStays DEF vars, reading
  <2>3. p \in Passed(n)
    BY <2>1 DEF Passed
  <2> QED BY <2>1, <2>2, <2>3 DEF FrontInv, Key
<1>4. CASE Open
  <2>1. group'[n] = GroupOf(rest[n]) /\ rest'[n] = RestOf(rest[n])
    BY <1>4 DEF Open, ReadGroups
  <2>2. /\ ToSet(rest[n]) = Joined(n)
        /\ rest[n] \in Seq(JoinRecord) /\ rest[n] # <<>>
        /\ KeySorted(rest[n]) /\ Distinct(rest[n])
    BY <1>4, OpenWhole DEF Plain
  <2>3. Behind(ToSet(rest[n]), GroupOf(rest[n]), RestOf(rest[n])) = {}
    BY <2>2, PlacedFirst
  <2> QED BY <2>1, <2>2, <2>3
<1>5. CASE Round
  BY <1>5, FrontRound
<1>6. CASE SortF1 \/ SortF2 \/ (\E m \in 1 .. 2 : Alone(m)) \/ FinalSort \/ Stops
  <2>1. ~ Running'
    BY <1>6, StopsRead DEF SortF1, SortF2, Sort, Alone, FinalSort, Running
  <2> QED BY <2>1
<1> QED BY <1>3, <1>4, <1>5, <1>6, Steps

-----------------------------------------------------------------------------
(* A pair. *)

(* The table of commands, for a type that there is. *)
LEMMA CommandsIs ==
    ASSUME InputInv, NEW c, NEW n \in 1 .. 2
    PROVE  /\ Turn(c) \in 1 .. 2
           /\ c = 0 => /\ "R" \in Commands(n, c)
                       /\ "W" \in Commands(n, c) <=> type[1] \in {"I", "U"}
           /\ c # 0 /\ n # Turn(c) => Commands(n, c) = {}
           /\ c # 0 /\ n = Turn(c) => /\ "W" \in Commands(n, c) <=> type[n] \in {"U", "O"}
                                      /\ "R" \in Commands(n, c) <=> ~ Stays(n, c)
<1>1. Turn(c) \in 1 .. 2
  BY DEF Turn
<1>2. type[1] \in {"I", "U", "O", "S"} /\ type[2] \in {"I", "U", "O", "S"}
  BY DEF InputInv, Types
<1>3. CASE c = 0
  BY <1>1, <1>2, <1>3 DEF Commands
<1>4. CASE c # 0 /\ n # Turn(c)
  BY <1>1, <1>4 DEF Commands
<1>5. CASE c # 0 /\ n = Turn(c) /\ Stays(n, c)
  <2>1. Commands(n, c) = {"W"} /\ type[n] = "U"
    BY <1>5 DEF Commands, Stays
  <2> QED BY <1>1, <1>5, <2>1
<1>6. CASE c # 0 /\ n = Turn(c) /\ ~ Stays(n, c)
  <2>1. Commands(n, c) = Unmatched(n) \cup {"R"}
    BY <1>6 DEF Commands
  <2>2. "W" \in Unmatched(n) <=> type[n] \in {"U", "O"}
    BY DEF Unmatched
  <2> QED BY <1>1, <1>6, <2>1, <2>2
<1> QED BY <1>3, <1>4, <1>5, <1>6

(* What is done with a pair, c being how the keys of the two groups stand, *)
(* and where the loops go from it: on equal keys, through all pairs.       *)
LEMMA PairIs ==
    ASSUME InputInv, ReadInv, PlaceInv, Plain, Pair
    PROVE  /\ pc = "pair" /\ UNCHANGED <<ret, rest, group, first>>
           /\ \E c \in -1 .. 1 :
                 /\ c < 0 <=> Key(1) < Key(2)
                 /\ c = 0 <=> Key(1) = Key(2)
                 /\ c > 0 <=> Key(1) > Key(2)
                 /\ cmd'[1] = Commands(1, c) /\ cmd'[2] = Commands(2, c)
                 /\ eof' = EofAfter(c)
                 /\ out' = IF Row(c).from # {} /\ (Len(out) < MaxRows \/ Row(c) \notin ToSet(out))
                           THEN Append(out, Row(c)) ELSE out
                 /\ out \in Seq(OutRow) /\ Row(c) \in OutRow
                 /\ \/ /\ pc' = "round"
                       /\ c = 0 => at[1] = Len(group[1]) /\ at[2] = Len(group[2])
                    \/ /\ pc' = "pair" /\ at'[1] = at[1] /\ at'[2] = at[2] + 1
                       /\ at[2] < Len(group[2])
                    \/ /\ pc' = "pair" /\ at'[1] = at[1] + 1 /\ at'[2] = 1
                       /\ at[1] < Len(group[1])
                       /\ c = 0 => at[2] = Len(group[2])
<1>1. pc = "pair" /\ UNCHANGED <<ret, rest, group, first>>
  BY DEF Pair, InSequence
<1>2. PICK c : /\ c = Compare(Record(1), Record(2))
               /\ cmd' = <<Commands(1, c), Commands(2, c)>>
               /\ eof' = EofAfter(c)
               /\ out' = IF Row(c).from # {} /\ (Len(out) < MaxRows \/ Row(c) \notin ToSet(out))
                         THEN Append(out, Row(c)) ELSE out
               /\ cmp' \in {0, c}
               /\ \E b \in BOOLEAN :
                     /\ Onward(b, cmp', eof', <<Commands(1, c), Commands(2, c)>>)
                     /\ c = 0 => (b => "R" \notin Commands(2, c))
  <2> DEFINE d == Compare(Record(1), Record(2))
             cs == <<Commands(1, d), Commands(2, d)>>
             writes == Row(d).from # {}
             leaves == \/ ~ writes /\ "R" \notin cs[2]
                       \/ ~ writes /\ d < 0
                       \/ writes /\ d < 0 /\ EofAfter(d)[1] = 0
  <2>1. /\ cmd' = cs /\ eof' = EofAfter(d)
        /\ out' = IF writes /\ (Len(out) < MaxRows \/ Row(d) \notin ToSet(out))
                  THEN Append(out, Row(d)) ELSE out
        /\ cmp' \in {0, d}
        /\ Onward(leaves, cmp', eof', cs)
    BY DEF Pair
  <2>2. leaves \in BOOLEAN
    OBVIOUS
  <2>3. d = 0 /\ leaves => "R" \notin Commands(2, d)
    <3> HIDE DEF d
    <3> QED OBVIOUS
  <2> HIDE DEF d, leaves
  <2>4. \E b \in BOOLEAN : /\ Onward(b, cmp', eof', cs)
                           /\ d = 0 => (b => "R" \notin Commands(2, d))
    BY <2>1, <2>2, <2>3
  <2> QED BY <2>1, <2>4 DEF d
<1>3. \A n \in 1 .. 2 : /\ Record(n).key = Key(n) /\ Key(n) \in Int
                        /\ at[n] \in DOMAIN group[n] /\ group[n] \in Seq(JoinRecord)
                        /\ Record(n) \in JoinRecord
  BY <1>1, RecordIs DEF Plain, ReadInv, StateInv
<1>4. /\ c \in -1 .. 1 /\ (c < 0 <=> Key(1) < Key(2)) /\ (c = 0 <=> Key(1) = Key(2))
      /\ c > 0 <=> Key(1) > Key(2)
  <2>1. PICK k1 \in Int, k2 \in Int :
           /\ k1 = Key(1) /\ k2 = Key(2) /\ Record(1).key = k1 /\ Record(2).key = k2
    BY <1>3
  <2>2. c = IF k1 < k2 THEN -1 ELSE IF k1 = k2 THEN 0 ELSE 1
    BY <1>2, <2>1 DEF Compare
  <2> QED BY <2>1, <2>2
<1>5. cmd'[1] = Commands(1, c) /\ cmd'[2] = Commands(2, c)
  BY <1>2
<1>6. out \in Seq(OutRow) /\ Row(c) \in OutRow
  <2>1. out \in Seq(OutRow)
    BY DEF ReadInv, StateInv
  <2>2. {n \in 1 .. 2 : "W" \in Commands(n, c)} \in SUBSET (1 .. 2)
    OBVIOUS
  <2>3. Record(1) \in JoinRecord /\ Record(2) \in JoinRecord
    BY <1>3
  <2>4. (IF Fills(1, c) THEN Blank ELSE Record(1)) \in JoinRecord \cup {Blank}
    BY <2>3
  <2>5. (IF Fills(2, c) THEN Blank ELSE Record(2)) \in JoinRecord \cup {Blank}
    BY <2>3
  <2> QED BY <2>1, <2>2, <2>4, <2>5 DEF Row, OutRow
<1>7. PICK b \in BOOLEAN :
         /\ Onward(b, cmp', eof', <<Commands(1, c), Commands(2, c)>>)
         /\ c = 0 => (b => "R" \notin Commands(2, c))
  BY <1>2
<1>8. c = 0 => ~ b /\ "R" \in <<Commands(1, c), Commands(2, c)>>[1] /\ ~ (cmp' > 0)
  BY <1>2, <1>7, CommandsIs
<1>9. \/ /\ pc' = "round"
         /\ c = 0 => at[1] = Len(group[1]) /\ at[2] = Len(group[2])
      \/ /\ pc' = "pair" /\ at'[1] = at[1] /\ at'[2] = at[2] + 1
         /\ at[2] < Len(group[2])
      \/ /\ pc' = "pair" /\ at'[1] = at[1] + 1 /\ at'[2] = 1
         /\ at[1] < Len(group[1])
         /\ c = 0 => at[2] = Len(group[2])
  <2>1. \A n \in 1 .. 2 : group[n] \in Seq(JoinRecord) /\ at[n] \in DOMAIN group[n]
    BY <1>3
  <2> QED BY <1>1, <1>7, <1>8, <2>1, OnwardIs
<1> QED BY <1>1, <1>2, <1>4, <1>5, <1>6, <1>9

(* Nothing of a pair is left out when there is no INCLUDE or OMIT. *)
LEMMA NotOmitted ==
    ASSUME Plain
    PROVE  ~ Omitted
BY DEF Plain, Omitted, LeftOut

(* CmdInv is kept. *)
LEMMA CmdStep ==
    ASSUME InputInv, ReadInv, PlaceInv, CmdInv, [Next]_vars
    PROVE  CmdInv'
<1>1. Plain' <=> Plain
  BY SettingsStay, SettingsSame
<1> SUFFICES ASSUME Plain, pc' = "round", ~ first'
             PROVE  LET k1 == group'[1][1].key
                        k2 == group'[2][1].key
                    IN  /\ k1 = k2 => /\ "R" \in cmd'[1] /\ "R" \in cmd'[2]
                                      /\ eof'[1] # 1 /\ eof'[2] # 1
                        /\ k1 < k2 => /\ "R" \in cmd'[2] => eof'[1] = 2
                                      /\ "R" \in cmd'[1] => eof'[1] # 1
                        /\ k1 > k2 => /\ "R" \in cmd'[1] => eof'[2] = 2
                                      /\ eof'[2] # 1
  BY <1>1 DEF CmdInv, Key
<1>2. CASE UNCHANGED vars
  <2>1. pc = "round" /\ ~ first /\ group' = group /\ cmd' = cmd /\ eof' = eof
    BY <1>2 DEF vars, reading, looping
  <2> QED BY <2>1 DEF CmdInv, Key
<1>3. CASE Pair
  <2>1. UNCHANGED group
    BY <1>3, PairIs
  <2>2. PICK c \in -1 .. 1 :
           /\ c < 0 <=> Key(1) < Key(2)
           /\ c = 0 <=> Key(1) = Key(2)
           /\ c > 0 <=> Key(1) > Key(2)
           /\ cmd'[1] = Commands(1, c) /\ cmd'[2] = Commands(2, c)
           /\ eof' = EofAfter(c)
    BY <1>3, PairIs
  <2>3. \A n \in 1 .. 2 : /\ eof'[n] = (IF Ends(n, c) THEN 2 ELSE eof[n])
                          /\ (Ends(n, c) => eof[n] = 1)
    BY <2>2, EofAfterIs
  <2>4. c = 0 => /\ "R" \in cmd'[1] /\ "R" \in cmd'[2]
                 /\ eof'[1] # 1 /\ eof'[2] # 1
    <3>1. c = 0 => (Ends(1, c) <=> eof[1] = 1) /\ (Ends(2, c) <=> eof[2] = 1)
      BY DEF Ends
    <3> QED BY <2>2, <2>3, <3>1, CommandsIs
  <2>5. c < 0 => /\ "R" \in cmd'[2] => eof'[1] = 2
                 /\ "R" \in cmd'[1] => eof'[1] # 1
    <3>1. c < 0 /\ Turn(c) = 1 => (Ends(1, c) <=> eof[1] = 1)
      BY DEF Ends
    <3>2. c < 0 /\ Turn(c) # 1 => eof[1] = 2
      BY DEF Turn
    <3>3. c < 0 => ("R" \in cmd'[2] => Turn(c) = 2) /\ ("R" \in cmd'[1] => Turn(c) = 1)
      BY <2>2, CommandsIs
    <3> QED BY <2>3, <3>1, <3>2, <3>3
  <2>6. c > 0 => /\ "R" \in cmd'[1] => eof'[2] = 2
                 /\ eof'[2] # 1
    <3>1. c > 0 /\ Turn(c) = 2 => (Ends(2, c) <=> eof[2] = 1)
      BY DEF Ends
    <3>2. c > 0 /\ Turn(c) # 2 => eof[2] = 2
      BY DEF Turn
    <3>3. c > 0 => ("R" \in cmd'[1] => Turn(c) = 1)
      BY <2>2, CommandsIs
    <3> QED BY <2>3, <3>1, <3>2, <3>3
  <2> QED BY <2>1, <2>2, <2>4, <2>5, <2>6 DEF Key
<1>4. CASE Open
  <2>1. first
    BY <1>4 DEF Open, ReadInv, PhaseInv, Waiting
  <2> QED BY <1>4, <2>1 DEF Open, looping
<1>5. CASE SortF1 \/ SortF2 \/ Round \/ (\E n \in 1 .. 2 : Alone(n)) \/ FinalSort \/ Stops
  <2>1. pc' # "round"
    BY <1>5, StopsRead DEF SortF1, SortF2, Sort, Round, Alone, FinalSort
  <2> QED BY <2>1
<1> QED BY <1>2, <1>3, <1>4, <1>5, Steps, NotOmitted

-----------------------------------------------------------------------------
(* The pairs of equal keys. *)

(* What a matched row is made of. *)
LEMMA MatchedIs ==
    ASSUME NEW x \in MatchedRows
    PROVE  /\ type[1] \in {"I", "U"}
           /\ x.from = {1, 2} /\ x.f1 \in Joined(1) /\ x.f2 \in Joined(2) /\ x.f1.key = x.f2.key
           /\ x = [from |-> {1, 2}, f1 |-> x.f1, f2 |-> x.f2]
<1>1. type[1] \in {"I", "U"}
  BY DEF MatchedRows
<1>2. x \in [from : {{1, 2}}, f1 : Joined(1), f2 : Joined(2)] /\ x.f1.key = x.f2.key
  BY <1>1 DEF MatchedRows
<1>3. x.from \in {{1, 2}} /\ x.f1 \in Joined(1) /\ x.f2 \in Joined(2)
  BY <1>2
<1>4. x = [from |-> x.from, f1 |-> x.f1, f2 |-> x.f2]
  BY <1>2
<1> QED BY <1>1, <1>2, <1>3, <1>4

(* The row of a pair. *)
LEMMA RowIs ==
    ASSUME InputInv, NEW c \in -1 .. 1
    PROVE  /\ c = 0 => /\ type[1] \in {"I", "U"} =>
                             Row(c) = [from |-> {1, 2}, f1 |-> Record(1), f2 |-> Record(2)]
                       /\ type[1] \notin {"I", "U"} => Row(c).from = {}
           /\ c # 0 => /\ Turn(c) \in 1 .. 2
                       /\ Row(c).from = IF type[Turn(c)] \in {"U", "O"} THEN {Turn(c)} ELSE {}
                       /\ Turn(c) = 1 => Row(c).f1 = Record(1)
                       /\ Turn(c) = 2 => Row(c).f2 = Record(2)
<1>1. Row(c).from = {n \in 1 .. 2 : "W" \in Commands(n, c)}
  BY DEF Row
<1>2. ASSUME c = 0
      PROVE  /\ type[1] \in {"I", "U"} =>
                    Row(c) = [from |-> {1, 2}, f1 |-> Record(1), f2 |-> Record(2)]
             /\ type[1] \notin {"I", "U"} => Row(c).from = {}
  <2>1. \A n \in 1 .. 2 : "W" \in Commands(n, c) <=> type[1] \in {"I", "U"}
    BY <1>2, CommandsIs
  <2>2. ~ Fills(1, c) /\ ~ Fills(2, c)
    BY <1>2 DEF Fills
  <2>3. type[1] \in {"I", "U"} => {n \in 1 .. 2 : "W" \in Commands(n, c)} = {1, 2}
    BY <2>1
  <2>4. type[1] \notin {"I", "U"} => {n \in 1 .. 2 : "W" \in Commands(n, c)} = {}
    BY <2>1
  <2> QED BY <1>1, <2>2, <2>3, <2>4 DEF Row
<1>3. ASSUME c # 0
      PROVE  /\ Turn(c) \in 1 .. 2
             /\ Row(c).from = IF type[Turn(c)] \in {"U", "O"} THEN {Turn(c)} ELSE {}
             /\ Turn(c) = 1 => Row(c).f1 = Record(1)
             /\ Turn(c) = 2 => Row(c).f2 = Record(2)
  <2>1. Turn(c) \in 1 .. 2
    BY DEF Turn
  <2>2. \A n \in 1 .. 2 :
           "W" \in Commands(n, c) <=> (n = Turn(c) /\ type[n] \in {"U", "O"})
    <3> SUFFICES ASSUME NEW n \in 1 .. 2
                 PROVE  "W" \in Commands(n, c) <=> (n = Turn(c) /\ type[n] \in {"U", "O"})
      OBVIOUS
    <3>1. CASE n = Turn(c)
      BY <1>3, <3>1, CommandsIs
    <3>2. CASE n # Turn(c)
      <4>1. Commands(n, c) = {}
        BY <1>3, <3>2, CommandsIs
      <4> QED BY <4>1, <3>2
    <3> QED BY <3>1, <3>2
  <2>3. Row(c).from = IF type[Turn(c)] \in {"U", "O"} THEN {Turn(c)} ELSE {}
    BY <1>1, <2>1, <2>2
  <2>4. (Turn(c) = 1 => ~ Fills(1, c)) /\ (Turn(c) = 2 => ~ Fills(2, c))
    BY DEF Fills
  <2>5. (Turn(c) = 1 => Row(c).f1 = Record(1)) /\ (Turn(c) = 2 => Row(c).f2 = Record(2))
    BY <2>4 DEF Row
  <2> QED BY <2>1, <2>3, <2>5
<1> QED BY <1>2, <1>3

(* A record that matches one the head of the loop reads past is in the     *)
(* other group, or has been passed before.                                 *)
LEMMA RoundMatch ==
    ASSUME InputInv, ReadInv, PlaceInv, CmdInv, Plain, Round, NEW F \in SUBSET (1 .. 2),
           1 \in F <=> eof[1] = 0 /\ ~ first /\ ("R" \in cmd[1] \/ eof[2] = 1),
           2 \in F <=> eof[2] = 0 /\ ~ first /\ ("R" \in cmd[2] \/ ("R" \in cmd[1] /\ eof[1] # 0)),
           NEW n \in F, NEW r \in ToSet(group[n]), NEW s \in Joined(3 - n), s.key = r.key
    PROVE  s \in Passed(3 - n) \/ s \in ToSet(group[3 - n])
<1> SUFFICES ASSUME s \in ToSet(rest[3 - n]) PROVE FALSE
  BY DEF Passed, Behind
<1>1. 3 - n \in 1 .. 2 /\ n \in 1 .. 2 /\ Running
  BY DEF Round, Running
<1>2. /\ Placed(Joined(n), group[n], rest[n])
      /\ Placed(Joined(3 - n), group[3 - n], rest[3 - n])
      /\ rest[3 - n] \in Seq(JoinRecord) /\ group[n] \in Seq(JoinRecord)
      /\ eof[3 - n] = 0 <=> rest[3 - n] # <<>>
  BY <1>1 DEF Plain, PlaceInv, ReadInv, StateInv, PhaseInv
<1>3. PICK i \in DOMAIN rest[3 - n] : s = rest[3 - n][i]
  BY DEF ToSet
<1>4. rest[3 - n] # <<>> /\ s \in JoinRecord
  BY <1>2, <1>3
<1>5. Key(3 - n) < s.key
  BY <1>2, <1>3 DEF Placed, Key
<1>6. r.key = Key(n)
  BY <1>2 DEF ToSet, Placed, Key
<1>7. Key(n) \in Int /\ Key(3 - n) \in Int
  BY <1>1, KeyIs
<1>8. Key(3 - n) < Key(n)
  BY <1>5, <1>6
<1>9. eof[3 - n] # 2
  BY <1>2, <1>4
<1>10. \/ Key(n) < Key(3 - n)
       \/ Key(n) = Key(3 - n)
  BY <1>9, RoundReads
<1>11. PICK a \in Int, b \in Int : a = Key(n) /\ b = Key(3 - n)
  BY <1>7
<1> QED BY <1>8, <1>10, <1>11

(* What has been passed when the next group of a file is read. *)
LEMMA ReadPast ==
    ASSUME InputInv, ReadInv, PlaceInv, Ordered, Running, NEW n \in 1 .. 2, rest[n] # <<>>
    PROVE  Behind(Joined(n), GroupOf(rest[n]), RestOf(rest[n])) = Passed(n) \cup ToSet(group[n])
<1>1. /\ Placed(Joined(n), group[n], rest[n])
      /\ group[n] \in Seq(JoinRecord) /\ group[n] # <<>> /\ rest[n] \in Seq(JoinRecord)
  BY DEF PlaceInv, ReadInv, StateInv, PhaseInv
<1>2. Joined(n) \in SUBSET JoinRecord
  BY JoinedIs
<1>3. PICK J \in SUBSET JoinRecord, g \in Seq(JoinRecord), r \in Seq(JoinRecord) :
         J = Joined(n) /\ g = group[n] /\ r = rest[n]
  BY <1>1, <1>2
<1>4. Placed(J, g, r) /\ g # <<>> /\ r # <<>>
  BY <1>1, <1>3
<1>5. Behind(J, GroupOf(r), RestOf(r)) = Behind(J, g, r) \cup ToSet(g)
  BY <1>4, PlacedNext
<1> QED BY <1>3, <1>5 DEF Passed

(* The records passed by a round. *)
LEMMA RoundPasses ==
    ASSUME InputInv, ReadInv, PlaceInv, Plain, Round, NEW F \in SUBSET (1 .. 2),
           \A k \in F : /\ rest[k] # <<>>
                        /\ group'[k] = GroupOf(rest[k]) /\ rest'[k] = RestOf(rest[k]),
           \A k \in 1 .. 2 \ F : group'[k] = group[k] /\ rest'[k] = rest[k],
           NEW n \in 1 .. 2
    PROVE  /\ n \in F => Passed(n)' = Passed(n) \cup ToSet(group[n])
           /\ n \notin F => Passed(n)' = Passed(n)
<1>1. Joined(n)' = Joined(n)
  BY SettingsSame DEF Round
<1>2. Passed(n)' = Behind(Joined(n), group'[n], rest'[n])
  BY <1>1 DEF Passed
<1>3. ASSUME n \in F PROVE Passed(n)' = Passed(n) \cup ToSet(group[n])
  <2>1. Running
    BY DEF Round, Running
  <2>2. rest[n] # <<>> /\ group'[n] = GroupOf(rest[n]) /\ rest'[n] = RestOf(rest[n])
    BY <1>3
  <2>3. Behind(Joined(n), GroupOf(rest[n]), RestOf(rest[n])) = Passed(n) \cup ToSet(group[n])
    BY <2>1, <2>2, ReadPast DEF Plain
  <2> QED BY <1>2, <2>2, <2>3
<1>4. ASSUME n \notin F PROVE Passed(n)' = Passed(n)
  BY <1>2, <1>4 DEF Passed
<1> QED BY <1>3, <1>4

(* A round passes a match of the groups once all pairs have been visited. *)
LEMMA WrittenRound ==
    ASSUME InputInv, ReadInv, PlaceInv, CmdInv, WrittenInv, Plain, Round, NEW x \in MatchedRows
    PROVE  x \in ToSet(out') <=>
              x.f1 \in Passed(1)' \/ x.f2 \in Passed(2)' \/ Met(x.f1, x.f2)'
<1>1. PICK F \in SUBSET (1 .. 2) :
         /\ 1 \in F <=> eof[1] = 0 /\ ~ first /\ ("R" \in cmd[1] \/ eof[2] = 1)
         /\ 2 \in F <=> eof[2] = 0 /\ ~ first
                        /\ ("R" \in cmd[2] \/ ("R" \in cmd[1] /\ eof[1] # 0))
         /\ \A k \in F : /\ rest[k] # <<>>
                         /\ group'[k] = GroupOf(rest[k]) /\ rest'[k] = RestOf(rest[k])
         /\ \A k \in 1 .. 2 \ F : group'[k] = group[k] /\ rest'[k] = rest[k]
  BY RoundIs
<1>2. /\ pc = "round" /\ Running /\ pc' = "pair" /\ at' = <<1, 1>> /\ out' = out
      /\ sumEof < MaxFiles + 2
  BY RoundIs DEF Running
<1>3. \A n \in 1 .. 2 : /\ n \in F => Passed(n)' = Passed(n) \cup ToSet(group[n])
                        /\ n \notin F => Passed(n)' = Passed(n)
  BY <1>1, RoundPasses
<1>4. ~ Met(x.f1, x.f2)'
  <2>1. ReadInv'
    BY RoundRead
  <2>2. group'[1] \in Seq(JoinRecord) /\ group'[2] \in Seq(JoinRecord)
    BY <2>1 DEF ReadInv, StateInv
  <2>3. \A i \in DOMAIN group'[1], j \in DOMAIN group'[2] :
           i \in Nat /\ i >= 1 /\ j \in Nat /\ j >= 1
    BY <2>2
  <2>4. \A i \in DOMAIN group'[1], j \in DOMAIN group'[2] : ~ Visited(i, j)'
    BY <1>2, <2>3 DEF Visited
  <2> QED BY <2>4 DEF Met
<1>5. x \in ToSet(out) <=> x.f1 \in Passed(1) \/ x.f2 \in Passed(2) \/ Met(x.f1, x.f2)
  BY <1>2 DEF WrittenInv
<1>6. /\ x.f1 \in Joined(1) /\ x.f2 \in Joined(2) /\ x.f1.key = x.f2.key
  BY MatchedIs
<1>7. x.f1 \in ToSet(group[1]) /\ x.f2 \in ToSet(group[2]) /\ ~ first => Met(x.f1, x.f2)
  BY <1>2 DEF ToSet, Met, Visited
<1>8. Met(x.f1, x.f2) =>
         x.f1 \in ToSet(group[1]) /\ x.f2 \in ToSet(group[2]) /\ ~ first
  BY <1>2 DEF ToSet, Met, Visited
(* Either of the two files is read. *)
<1>9. Met(x.f1, x.f2) => 1 \in F \/ 2 \in F
  <2> SUFFICES ASSUME Met(x.f1, x.f2) PROVE 1 \in F \/ 2 \in F
    OBVIOUS
  <2>1. Placed(Joined(1), group[1], rest[1]) /\ Placed(Joined(2), group[2], rest[2])
    BY <1>2 DEF PlaceInv, Plain
  <2>2. Key(1) = Key(2)
    BY <1>6, <1>8, <2>1 DEF ToSet, Placed, Key
  <2>3. "R" \in cmd[1] /\ "R" \in cmd[2] /\ eof[1] # 1 /\ eof[2] # 1
    BY <1>2, <1>8, <2>2 DEF CmdInv
  <2>4. eof[1] = 0 \/ eof[2] = 0
    <3>1. PICK e1 \in 0 .. 2, e2 \in 0 .. 2 : e1 = eof[1] /\ e2 = eof[2]
      BY DEF ReadInv, StateInv
    <3>2. MaxFiles - 2 + e1 + e2 < MaxFiles + 2
      BY <1>2, <3>1 DEF ReadInv, PhaseInv
    <3>3. e1 # 2 \/ e2 # 2
      BY <3>2, JoinAssumption
    <3> QED BY <2>3, <3>1, <3>3
  <2> QED BY <1>1, <1>8, <2>3, <2>4
<1>10. 1 \in F /\ x.f1 \in ToSet(group[1]) => x.f2 \in Passed(2) \/ Met(x.f1, x.f2)
  <2> SUFFICES ASSUME 1 \in F, x.f1 \in ToSet(group[1])
               PROVE  x.f2 \in Passed(2) \/ Met(x.f1, x.f2)
    OBVIOUS
  <2>1. x.f2 \in Passed(2) \/ x.f2 \in ToSet(group[2])
    <3>1. x.f2 \in Joined(3 - 1) /\ 3 - 1 = 2
      BY <1>6
    <3> QED BY <1>1, <1>6, <3>1, RoundMatch
  <2> QED BY <1>1, <1>7, <2>1
<1>11. 2 \in F /\ x.f2 \in ToSet(group[2]) => x.f1 \in Passed(1) \/ Met(x.f1, x.f2)
  <2> SUFFICES ASSUME 2 \in F, x.f2 \in ToSet(group[2])
               PROVE  x.f1 \in Passed(1) \/ Met(x.f1, x.f2)
    OBVIOUS
  <2>1. x.f1 \in Passed(1) \/ x.f1 \in ToSet(group[1])
    <3>1. x.f1 \in Joined(3 - 2) /\ 3 - 2 = 1
      BY <1>6
    <3> QED BY <1>1, <1>6, <3>1, RoundMatch
  <2> QED BY <1>1, <1>7, <2>1
<1>12. /\ x.f1 \in Passed(1)' <=> (x.f1 \in Passed(1) \/ (1 \in F /\ x.f1 \in ToSet(group[1])))
       /\ x.f2 \in Passed(2)' <=> (x.f2 \in Passed(2) \/ (2 \in F /\ x.f2 \in ToSet(group[2])))
  BY <1>3
<1> QED BY <1>2, <1>4, <1>5, <1>8, <1>9, <1>10, <1>11, <1>12

(* The next pair of the loops: one more pair has been visited. *)
LEMMA VisitedNext ==
    ASSUME NEW l1 \in Nat, NEW l2 \in Nat, NEW a1 \in 1 .. l1, NEW a2 \in 1 .. l2,
           NEW b1, NEW b2, NEW i \in 1 .. l1, NEW j \in 1 .. l2,
           \/ b1 = a1 /\ b2 = a2 + 1
           \/ b1 = a1 + 1 /\ b2 = 1 /\ a2 = l2
    PROVE  (i < b1 \/ (i = b1 /\ j < b2)) <=> (i < a1 \/ (i = a1 /\ j < a2) \/ (i = a1 /\ j = a2))
OBVIOUS

(* The last pair of the loops: all pairs are it or before it. *)
LEMMA VisitedLast ==
    ASSUME NEW l1 \in Nat, NEW l2 \in Nat, NEW i \in 1 .. l1, NEW j \in 1 .. l2
    PROVE  i < l1 \/ (i = l1 /\ j < l2) \/ (i = l1 /\ j = l2)
OBVIOUS

(* On equal keys a pair is visited after the other. *)
LEMMA MetNext ==
    ASSUME ReadInv, pc = "pair", ~ first', UNCHANGED group,
           \/ /\ pc' = "round"
              /\ at[1] = Len(group[1]) /\ at[2] = Len(group[2])
           \/ pc' = "pair" /\ at'[1] = at[1] /\ at'[2] = at[2] + 1
           \/ /\ pc' = "pair" /\ at'[1] = at[1] + 1 /\ at'[2] = 1
              /\ at[2] = Len(group[2]),
           NEW r, NEW s
    PROVE  Met(r, s)' <=> Met(r, s) \/ (r = Record(1) /\ s = Record(2))
<1>1. \A n \in 1 .. 2 : group[n] \in Seq(JoinRecord) /\ at[n] \in DOMAIN group[n]
  BY DEF ReadInv, StateInv, PhaseInv
<1>2. PICK l1 \in Nat, l2 \in Nat : /\ l1 = Len(group[1]) /\ l2 = Len(group[2])
                                    /\ DOMAIN group[1] = 1 .. l1 /\ DOMAIN group[2] = 1 .. l2
  BY <1>1
<1>3. PICK a1 \in 1 .. l1, a2 \in 1 .. l2 : a1 = at[1] /\ a2 = at[2]
  BY <1>1, <1>2
<1>4. \A i \in 1 .. l1, j \in 1 .. l2 :
         Visited(i, j)' <=> Visited(i, j) \/ (i = a1 /\ j = a2)
  <2> SUFFICES ASSUME NEW i \in 1 .. l1, NEW j \in 1 .. l2
               PROVE  Visited(i, j)' <=> Visited(i, j) \/ (i = a1 /\ j = a2)
    OBVIOUS
  <2>1. Visited(i, j) <=> i < a1 \/ (i = a1 /\ j < a2)
    BY <1>3 DEF Visited
  <2>2. CASE pc' = "round"
    <3>1. Visited(i, j)'
      BY <2>2 DEF Visited
    <3>2. a1 = l1 /\ a2 = l2
      BY <2>2, <1>2, <1>3
    <3>3. i < l1 \/ (i = l1 /\ j < l2) \/ (i = l1 /\ j = l2)
      BY VisitedLast
    <3> QED BY <2>1, <3>1, <3>2, <3>3
  <2>3. CASE pc' # "round"
    <3>1. PICK b1, b2 : b1 = at'[1] /\ b2 = at'[2]
      OBVIOUS
    <3>2. \/ b1 = a1 /\ b2 = a2 + 1
          \/ b1 = a1 + 1 /\ b2 = 1 /\ a2 = l2
      BY <2>3, <1>2, <1>3, <3>1
    <3>3. Visited(i, j)' <=> i < b1 \/ (i = b1 /\ j < b2)
      BY <2>3, <3>1 DEF Visited
    <3>4. (i < b1 \/ (i = b1 /\ j < b2))
              <=> (i < a1 \/ (i = a1 /\ j < a2) \/ (i = a1 /\ j = a2))
      BY <3>2, VisitedNext
    <3> QED BY <2>1, <3>3, <3>4
  <2> QED BY <2>2, <2>3
<1>5. Record(1) = group[1][a1] /\ Record(2) = group[2][a2]
  BY <1>3 DEF Record
<1>6. Met(r, s)' <=> \E i \in 1 .. l1, j \in 1 .. l2 :
                        r = group[1][i] /\ s = group[2][j] /\ Visited(i, j)'
  BY <1>2 DEF Met
<1>7. Met(r, s) <=> \E i \in 1 .. l1, j \in 1 .. l2 :
                       r = group[1][i] /\ s = group[2][j] /\ Visited(i, j)
  BY <1>2 DEF Met
<1> QED BY <1>4, <1>5, <1>6, <1>7

(* The row that a pair writes, of equal keys or not. *)
LEMMA WrittenPair ==
    ASSUME InputInv, ReadInv, PlaceInv, WrittenInv, Plain, Pair, NEW x \in MatchedRows
    PROVE  x \in ToSet(out') <=>
              x.f1 \in Passed(1)' \/ x.f2 \in Passed(2)' \/ Met(x.f1, x.f2)'
<1>1. pc = "pair" /\ Running /\ ~ first /\ UNCHANGED <<rest, group, first>>
  BY PairIs DEF Running, ReadInv, PhaseInv
<1>2. PICK c \in -1 .. 1 :
         /\ c = 0 <=> Key(1) = Key(2)
         /\ out' = IF Row(c).from # {} /\ (Len(out) < MaxRows \/ Row(c) \notin ToSet(out))
                   THEN Append(out, Row(c)) ELSE out
         /\ out \in Seq(OutRow) /\ Row(c) \in OutRow
         /\ \/ /\ pc' = "round"
               /\ c = 0 => at[1] = Len(group[1]) /\ at[2] = Len(group[2])
            \/ pc' = "pair" /\ at'[1] = at[1] /\ at'[2] = at[2] + 1
            \/ /\ pc' = "pair" /\ at'[1] = at[1] + 1 /\ at'[2] = 1
               /\ c = 0 => at[2] = Len(group[2])
  BY PairIs
<1>3. Passed(1)' = Passed(1) /\ Passed(2)' = Passed(2)
  <2>1. Joined(1)' = Joined(1) /\ Joined(2)' = Joined(2)
    BY SettingsSame DEF Pair
  <2> QED BY <1>1, <2>1 DEF Passed
<1>4. x \in ToSet(out) <=> x.f1 \in Passed(1) \/ x.f2 \in Passed(2) \/ Met(x.f1, x.f2)
  BY <1>1 DEF WrittenInv
<1>5. /\ type[1] \in {"I", "U"} /\ x.from = {1, 2} /\ x.f1.key = x.f2.key
      /\ x = [from |-> {1, 2}, f1 |-> x.f1, f2 |-> x.f2]
  BY MatchedIs
<1>6. \A n \in 1 .. 2 : Placed(Joined(n), group[n], rest[n])
  BY <1>1 DEF PlaceInv, Plain
<1>7. CASE c = 0
  <2>1. Row(c) = [from |-> {1, 2}, f1 |-> Record(1), f2 |-> Record(2)]
    BY <1>5, <1>7, RowIs
  <2>2. out' = Append(out, Row(c)) \/ (out' = out /\ Row(c) \in ToSet(out))
    <3>1. Row(c).from # {}
      BY <2>1
    <3> QED BY <1>2, <3>1
  <2>3. x \in ToSet(out') <=> x \in ToSet(out) \/ x = Row(c)
    BY <1>2, <2>2, ToSetAppend
  <2>4. x = Row(c) <=> x.f1 = Record(1) /\ x.f2 = Record(2)
    BY <1>5, <2>1
  <2>5. Met(x.f1, x.f2)' <=> Met(x.f1, x.f2) \/ (x.f1 = Record(1) /\ x.f2 = Record(2))
    BY <1>1, <1>2, <1>7, MetNext
  <2> QED BY <1>3, <1>4, <2>3, <2>4, <2>5
<1>8. CASE c # 0
  <2>1. Row(c) # x
    <3>1. Turn(c) \in 1 .. 2 /\ Row(c).from = IF type[Turn(c)] \in {"U", "O"} THEN {Turn(c)} ELSE {}
      BY <1>8, RowIs
    <3>2. Row(c).from # {1, 2}
      BY <3>1
    <3> QED BY <1>5, <3>2
  <2>2. x \in ToSet(out') <=> x \in ToSet(out)
    BY <1>2, <2>1, ToSetAppend
  <2>3. Key(1) # Key(2)
    BY <1>2, <1>8
  <2>4. \A r \in ToSet(group[1]), s \in ToSet(group[2]) : r.key # s.key
    BY <1>6, <2>3 DEF ToSet, Placed, Key
  <2>5. \A i \in DOMAIN group[1], j \in DOMAIN group[2] :
           ~ (x.f1 = group[1][i] /\ x.f2 = group[2][j])
    BY <1>5, <2>4 DEF ToSet
  <2>6. ~ Met(x.f1, x.f2) /\ ~ Met(x.f1, x.f2)'
    BY <1>1, <2>5 DEF Met
  <2> QED BY <1>3, <1>4, <2>2, <2>6
<1> QED BY <1>7, <1>8

(* WrittenInv is kept. *)
LEMMA WrittenStep ==
    ASSUME InputInv, ReadInv, SortedInv, AloneInv, PlaceInv, CmdInv, WrittenInv, [Next]_vars
    PROVE  WrittenInv'
<1>1. UNCHANGED settings /\ (Plain' <=> Plain) /\ MatchedRows' = MatchedRows
  BY SettingsStay, SettingsSame
<1>2. \A n \in 1 .. 2 : Joined(n)' = Joined(n)
  BY SettingsStay, SettingsSame
<1> SUFFICES ASSUME Plain, Running', NEW x \in MatchedRows
             PROVE  x \in ToSet(out') <=>
                       x.f1 \in Passed(1)' \/ x.f2 \in Passed(2)' \/ Met(x.f1, x.f2)'
  BY <1>1 DEF WrittenInv
<1>3. CASE UNCHANGED vars
  <2>1. /\ UNCHANGED <<out, group, rest, pc, first, at>> /\ Running
    BY <1>3 DEF vars, reading, looping, Running
  <2>2. Passed(1)' = Passed(1) /\ Passed(2)' = Passed(2)
    BY <1>2, <2>1 DEF Passed
  <2>3. Met(x.f1, x.f2)' <=> Met(x.f1, x.f2)
    BY <2>1 DEF Met, Visited
  <2> QED BY <2>1, <2>2, <2>3 DEF WrittenInv
<1>4. CASE Open
  <2>1. \A n \in 1 .. 2 : group'[n] = GroupOf(rest[n]) /\ rest'[n] = RestOf(rest[n])
    BY <1>4 DEF Open, ReadGroups
  <2>2. \A n \in 1 .. 2 : /\ ToSet(rest[n]) = Joined(n) /\ Taken(n) = {}
                          /\ rest[n] \in Seq(JoinRecord) /\ rest[n] # <<>>
                          /\ KeySorted(rest[n]) /\ Distinct(rest[n])
    BY <1>4, OpenWhole DEF Plain
  <2>3. \A n \in 1 .. 2 : Passed(n)' = {}
    <3> SUFFICES ASSUME NEW n \in 1 .. 2 PROVE Passed(n)' = {}
      OBVIOUS
    <3>1. Behind(ToSet(rest[n]), GroupOf(rest[n]), RestOf(rest[n])) = {}
      BY <2>2, PlacedFirst
    <3> QED BY <1>2, <2>1, <2>2, <3>1 DEF Passed
  <2>4. pc = "open" /\ pc' = "round" /\ out' = out /\ first' = first
    BY <1>4 DEF Open, looping
  <2>5. ToSet(out') = {}
    BY <2>2, <2>4 DEF AloneInv, Plain
  <2>6. first
    BY <2>4 DEF ReadInv, PhaseInv, Waiting
  <2>7. ~ Met(x.f1, x.f2)'
    BY <2>4, <2>6 DEF Met, Visited
  <2> QED BY <2>3, <2>5, <2>7
<1>5. CASE Round
  BY <1>5, WrittenRound
<1>6. CASE Pair
  BY <1>6, WrittenPair
<1>7. CASE SortF1 \/ SortF2 \/ (\E m \in 1 .. 2 : Alone(m)) \/ FinalSort \/ Stops
  <2>1. ~ Running'
    BY <1>7, StopsRead DEF SortF1, SortF2, Sort, Alone, FinalSort, Running
  <2> QED BY <2>1
<1> QED BY <1>3, <1>4, <1>5, <1>6, <1>7, Steps, NotOmitted

-----------------------------------------------------------------------------
(* The rows. *)

GoodRow(x) ==
    \/ x \in MatchedRows
    \/ x.from = {1} /\ x.f1 \in Alones(1)
    \/ x.from = {2} /\ x.f2 \in Alones(2)

Once(s, M) == \A i, j \in DOMAIN s : s[i] \in M /\ s[i] = s[j] => i = j

(* A row that is appended. *)
LEMMA OnceAppend ==
    ASSUME NEW S, NEW s \in Seq(S), NEW e \in S, NEW M, Once(s, M),
           e \in M => e \notin ToSet(s)
    PROVE  /\ Once(Append(s, e), M)
           /\ \A i \in DOMAIN Append(s, e) :
                 Append(s, e)[i] = e \/ \E j \in DOMAIN s : Append(s, e)[i] = s[j]
<1>1. PICK n \in Nat : n = Len(s) /\ DOMAIN s = 1 .. n
  OBVIOUS
<1>2. DOMAIN Append(s, e) = 1 .. n + 1
  BY <1>1
<1>3. \A i \in 1 .. n : Append(s, e)[i] = s[i]
  BY <1>1
<1>4. Append(s, e)[n + 1] = e
  BY <1>1
<1>5. \A i \in 1 .. n + 1 : i \in 1 .. n \/ i = n + 1
  BY <1>1
<1>6. e \in M => \A i \in 1 .. n : s[i] # e
  BY <1>1 DEF ToSet
<1>7. \A i, j \in 1 .. n : s[i] \in M /\ s[i] = s[j] => i = j
  BY <1>1 DEF Once
<1>8. Once(Append(s, e), M)
  <2> SUFFICES ASSUME NEW i \in 1 .. n + 1, NEW j \in 1 .. n + 1,
                      Append(s, e)[i] \in M, Append(s, e)[i] = Append(s, e)[j]
               PROVE  i = j
    BY <1>2 DEF Once
  <2>1. CASE i \in 1 .. n /\ j \in 1 .. n
    BY <2>1, <1>3, <1>7
  <2>2. CASE i \in 1 .. n /\ j = n + 1
    <3>1. s[i] \in M /\ s[i] = e
      BY <2>2, <1>3, <1>4
    <3> QED BY <2>2, <3>1, <1>6
  <2>3. CASE i = n + 1 /\ j \in 1 .. n
    <3>1. e \in M /\ s[j] = e
      BY <2>3, <1>3, <1>4
    <3> QED BY <2>3, <3>1, <1>6
  <2>4. CASE i = n + 1 /\ j = n + 1
    BY <2>4
  <2> QED BY <2>1, <2>2, <2>3, <2>4, <1>5
<1> QED BY <1>1, <1>2, <1>3, <1>4, <1>5, <1>8

(* A permutation of the rows. *)
LEMMA OncePermuted ==
    ASSUME NEW s, NEW t, NEW M, Once(s, M), DOMAIN t = DOMAIN s,
           NEW p \in [DOMAIN s -> DOMAIN s], Distinct(p), \A i \in DOMAIN s : t[i] = s[p[i]]
    PROVE  Once(t, M)
<1>1. \A i, j \in DOMAIN s : p[i] = p[j] => i = j
  BY DEF Distinct
<1> QED BY <1>1 DEF Once

(* RowInv in these words. *)
LEMMA RowInvIs ==
    RowInv <=> (Plain => (\A i \in DOMAIN out : GoodRow(out[i])) /\ Once(out, MatchedRows))
BY DEF RowInv, GoodRow, Once

(* A record whose turn it is has no match, when it is written.             *)
LEMMA TurnAlone ==
    ASSUME InputInv, ReadInv, PlaceInv, FrontInv, Plain, pc = "pair", NEW c \in -1 .. 1, c # 0,
           c < 0 <=> Key(1) < Key(2), c > 0 <=> Key(1) > Key(2), c = 0 <=> Key(1) = Key(2),
           NEW t \in 1 .. 2, t = Turn(c), type[t] \in {"U", "O"}
    PROVE  Record(t) \in Alones(t)
<1> DEFINE m == 3 - t
<1>1. m \in 1 .. 2 /\ Running
  BY DEF Running
<1>2. /\ Record(t) \in Joined(t) /\ Record(t).key = Key(t) /\ Key(t) \in Int
      /\ Key(m) \in Int /\ Record(t).file = t
  BY <1>1, RecordIs, KeyIs, JoinedIs DEF Plain
<1> SUFFICES ASSUME NEW s \in Joined(m) PROVE s.key # Key(t)
  BY <1>2 DEF Alones, Matches
<1>3. PICK kt \in Int, km \in Int : kt = Key(t) /\ km = Key(m)
  BY <1>2
<1>4. /\ Placed(Joined(m), group[m], rest[m])
      /\ rest[m] \in Seq(JoinRecord)
      /\ eof[m] = 0 <=> rest[m] # <<>>
  BY <1>1 DEF Plain, PlaceInv, ReadInv, StateInv, PhaseInv
<1>5. s.key \in Int
  BY <1>1, JoinedIs, RecordFields
<1>6. \/ kt < km /\ eof[t] # 2
      \/ km < kt /\ eof[m] = 2
  <2>1. type # Inner
    BY DEF Inner
  <2>2. CASE t = 1
    <3>1. c < 0 => eof[1] # 2
      BY <2>2 DEF Turn
    <3>2. c > 0 => eof[2] = 2
      BY <2>2 DEF Turn
    <3>3. kt = Key(1) /\ km = Key(2) /\ m = 2
      BY <2>2, <1>3
    <3> QED BY <2>2, <3>1, <3>2, <3>3
  <2>3. CASE t = 2
    <3>1. c > 0 => eof[2] # 2
      BY <2>1, <2>3 DEF Turn
    <3>2. c < 0 => eof[1] = 2
      BY <2>3 DEF Turn
    <3>3. kt = Key(2) /\ km = Key(1) /\ m = 1
      BY <2>3, <1>3
    <3> QED BY <2>3, <3>1, <3>2, <3>3
  <2> QED BY <2>2, <2>3
<1>7. km # kt
  BY <1>6
<1>8. CASE s \in ToSet(group[m])
  <2>1. s.key = km
    BY <1>3, <1>4, <1>8 DEF ToSet, Placed, Key
  <2> QED BY <2>1, <1>3, <1>7
<1>9. CASE s \in ToSet(rest[m])
  <2>1. km < s.key /\ rest[m] # <<>>
    BY <1>3, <1>4, <1>9 DEF ToSet, Placed, Key
  <2>2. kt < km
    BY <2>1, <1>4, <1>6
  <2> QED BY <2>1, <2>2, <1>3, <1>5
<1>10. CASE s \in Passed(m)
  <2>1. s.key < km
    BY <1>3, <1>4, <1>10 DEF Passed, Placed, Key
  <2>2. CASE km < kt
    BY <2>1, <2>2, <1>3, <1>5
  <2>3. CASE kt < km /\ eof[t] # 2
    <3>1. 3 - m = t
      OBVIOUS
    <3>2. s.key < Key(3 - m) \/ eof[3 - m] = 2
      BY <1>1, <1>10 DEF FrontInv
    <3>3. s.key < kt
      BY <2>3, <3>1, <3>2, <1>3
    <3> QED BY <3>3, <1>3, <1>5
  <2> QED BY <2>2, <2>3, <1>6
<1> QED BY <1>8, <1>9, <1>10 DEF Passed, Behind

(* The row of a pair is one of the table, and a new one. *)
LEMMA PairRow ==
    ASSUME InputInv, ReadInv, PlaceInv, FrontInv, WrittenInv, Plain, pc = "pair",
           NEW c \in -1 .. 1,
           c < 0 <=> Key(1) < Key(2), c > 0 <=> Key(1) > Key(2), c = 0 <=> Key(1) = Key(2),
           Row(c).from # {}
    PROVE  GoodRow(Row(c)) /\ (Row(c) \in MatchedRows => Row(c) \notin ToSet(out))
<1>1. CASE c = 0
  <2>1. /\ type[1] \in {"I", "U"}
        /\ Row(c) = [from |-> {1, 2}, f1 |-> Record(1), f2 |-> Record(2)]
    BY <1>1, RowIs
  <2>2. /\ Record(1) \in Joined(1) /\ Record(2) \in Joined(2)
        /\ Record(1).key = Record(2).key
    BY <1>1, RecordIs DEF Plain
  <2>3. Row(c) \in MatchedRows
    BY <2>1, <2>2 DEF MatchedRows
  <2>4. Row(c) \in ToSet(out) =>
           Record(1) \in Passed(1) \/ Record(2) \in Passed(2) \/ Met(Record(1), Record(2))
    BY <2>1, <2>3 DEF WrittenInv, Running
  <2>5. \A n \in 1 .. 2 : /\ at[n] \in DOMAIN group[n] /\ group[n] \in Seq(JoinRecord)
                          /\ Record(n) = group[n][at[n]] /\ Record(n) \in ToSet(group[n])
                          /\ Distinct(group[n])
    BY RecordIs DEF Plain, PlaceInv, Placed, Running, ReadInv, StateInv
  <2>6. Record(1) \notin Passed(1) /\ Record(2) \notin Passed(2)
    BY <2>5 DEF Passed, Behind
  <2>7. ~ Met(Record(1), Record(2))
    <3>1. \A i \in DOMAIN group[1] : group[1][i] = Record(1) => i = at[1]
      BY <2>5 DEF Distinct
    <3>2. \A j \in DOMAIN group[2] : group[2][j] = Record(2) => j = at[2]
      BY <2>5 DEF Distinct
    <3>3. at[1] \in Int /\ at[2] \in Int
      BY <2>5
    <3>4. ~ Visited(at[1], at[2])
      BY <3>3 DEF Visited
    <3> QED BY <3>1, <3>2, <3>4 DEF Met
  <2> QED BY <2>3, <2>4, <2>6, <2>7 DEF GoodRow
<1>2. CASE c # 0
  <2>1. PICK t \in 1 .. 2 : t = Turn(c)
    BY <1>2, RowIs
  <2>2. /\ Row(c).from = {t} /\ type[t] \in {"U", "O"}
        /\ t = 1 => Row(c).f1 = Record(1)
        /\ t = 2 => Row(c).f2 = Record(2)
    BY <1>2, <2>1, RowIs
  <2>3. Record(t) \in Alones(t)
    BY <1>2, <2>1, <2>2, TurnAlone
  <2>4. GoodRow(Row(c))
    BY <2>2, <2>3 DEF GoodRow
  <2>5. Row(c) \notin MatchedRows
    <3>1. Row(c).from # {1, 2}
      BY <2>2
    <3> QED BY <3>1, MatchedIs
  <2> QED BY <2>4, <2>5
<1> QED BY <1>1, <1>2

(* RowInv is kept. *)
LEMMA RowStep ==
    ASSUME InputInv, ReadInv, SortedInv, AloneInv, PlaceInv, FrontInv, WrittenInv, RowInv,
           [Next]_vars
    PROVE  RowInv'
<1>1. /\ (Plain' <=> Plain) /\ MatchedRows' = MatchedRows
      /\ Alones(1)' = Alones(1) /\ Alones(2)' = Alones(2)
  BY SettingsStay, SettingsSame
<1> SUFFICES ASSUME Plain
             PROVE  (\A i \in DOMAIN out' : GoodRow(out'[i])) /\ Once(out', MatchedRows)
  BY <1>1 DEF RowInv, GoodRow, Once
<1>2. (\A i \in DOMAIN out : GoodRow(out[i])) /\ Once(out, MatchedRows)
  BY RowInvIs
<1>3. out \in Seq(OutRow)
  BY DEF ReadInv, StateInv
<1>4. CASE out' = out
  BY <1>2, <1>4
<1>5. ASSUME NEW e \in OutRow, out' = Append(out, e), GoodRow(e),
             e \in MatchedRows => e \notin ToSet(out)
      PROVE  (\A i \in DOMAIN out' : GoodRow(out'[i])) /\ Once(out', MatchedRows)
  <2>1. /\ Once(Append(out, e), MatchedRows)
        /\ \A i \in DOMAIN Append(out, e) :
              Append(out, e)[i] = e \/ \E j \in DOMAIN out : Append(out, e)[i] = out[j]
    BY <1>2, <1>3, <1>5, OnceAppend
  <2> QED BY <1>2, <1>5, <2>1
<1>6. CASE Pair
  <2>1. PICK c \in -1 .. 1 :
           /\ c < 0 <=> Key(1) < Key(2)
           /\ c = 0 <=> Key(1) = Key(2)
           /\ c > 0 <=> Key(1) > Key(2)
           /\ out' = IF Row(c).from # {} /\ (Len(out) < MaxRows \/ Row(c) \notin ToSet(out))
                     THEN Append(out, Row(c)) ELSE out
           /\ Row(c) \in OutRow
    BY <1>6, PairIs
  <2>2. pc = "pair"
    BY <1>6, PairIs
  <2>3. Row(c).from # {} => GoodRow(Row(c)) /\ (Row(c) \in MatchedRows => Row(c) \notin ToSet(out))
    BY <2>1, <2>2, PairRow
  <2>4. CASE Row(c).from # {} /\ out' = Append(out, Row(c))
    BY <2>1, <2>3, <2>4, <1>5
  <2> QED BY <2>1, <2>4, <1>4
<1>7. CASE \E n \in 1 .. 2 : Alone(n)
  <2>1. PICK n \in 1 .. 2 : Alone(n)
    BY <1>7
  <2>2. /\ Joined(3 - n) = {} /\ type[n] \in {"U", "O"} /\ Head(rest[n]) \in Joined(n)
        /\ out' = Append(out, AloneRow(n, Head(rest[n])))
    BY <2>1, AloneIs DEF Plain
  <2>3. AloneRow(n, Head(rest[n])) \in OutRow
    BY <2>1, AloneRead
  <2>4. Head(rest[n]).file = n
    BY <2>2, JoinedIs
  <2>5. Head(rest[n]) \in Alones(n)
    BY <2>2, <2>4 DEF Alones, Matches
  <2>6. GoodRow(AloneRow(n, Head(rest[n])))
    BY <2>5 DEF GoodRow, AloneRow
  <2>7. AloneRow(n, Head(rest[n])) \notin MatchedRows
    <3>1. AloneRow(n, Head(rest[n])).from # {1, 2}
      BY DEF AloneRow
    <3> QED BY <3>1, MatchedIs
  <2> QED BY <2>2, <2>3, <2>6, <2>7, <1>5
<1>8. CASE FinalSort
  <2>1. PICK p \in [DOMAIN out -> DOMAIN out] :
           Distinct(p) /\ DOMAIN out' = DOMAIN out /\ \A i \in DOMAIN out : out'[i] = out[p[i]]
    BY <1>8, FinalRead
  <2>2. Once(out', MatchedRows)
    BY <2>1, <1>2, OncePermuted
  <2>3. \A i \in DOMAIN out' : GoodRow(out'[i])
    BY <2>1, <1>2
  <2> QED BY <2>2, <2>3
<1>9. CASE SortF1 \/ SortF2 \/ Open \/ Round \/ Omitted \/ Stops \/ UNCHANGED vars
  <2>1. out' = out
    BY <1>9, StopsRead DEF SortF1, SortF2, Sort, Open, Round, Omitted, vars
  <2> QED BY <2>1, <1>4
<1> QED BY <1>6, <1>7, <1>8, <1>9, Steps

-----------------------------------------------------------------------------
(* The records of F1 alone, when no key comes twice in a file. *)

(* With unique keys a group is one record. *)
LEMMA OneInGroup ==
    ASSUME InputInv, ReadInv, PlaceInv, Plain, LeftOnly, Running, NEW n \in 1 .. 2
    PROVE  ToSet(group[n]) = {group[n][1]} /\ DOMAIN group[n] = {1} /\ Len(group[n]) = 1
<1>1. /\ Placed(Joined(n), group[n], rest[n]) /\ group[n] \in Seq(JoinRecord)
      /\ 1 \in DOMAIN group[n]
  BY KeyIs DEF Plain, PlaceInv
<1>2. \A q, r \in Joined(n) : q.key = r.key => q = r
  <2>1. Joined(n) \subseteq ToSet(input[n])
    BY JoinedIs
  <2>2. \A i, j \in DOMAIN input[n] : input[n][i].key = input[n][j].key => i = j
    BY DEF LeftOnly, UniqueKeys
  <2> QED BY <2>1, <2>2 DEF ToSet
<1>3. \A i \in DOMAIN group[n] : group[n][i] \in Joined(n) /\ group[n][i].key = group[n][1].key
  BY <1>1 DEF Placed, ToSet
<1>4. \A i \in DOMAIN group[n] : group[n][i] = group[n][1]
  BY <1>1, <1>2, <1>3
<1>5. \A i \in DOMAIN group[n] : i = 1
  BY <1>1, <1>4 DEF Placed, Distinct
<1>6. Len(group[n]) = 1
  <2>1. Len(group[n]) \in Nat /\ DOMAIN group[n] = 1 .. Len(group[n])
    BY <1>1
  <2>2. PICK l \in Nat : l = Len(group[n]) /\ DOMAIN group[n] = 1 .. l
    BY <2>1
  <2>3. 1 \in 1 .. l /\ \A i \in 1 .. l : i = 1
    BY <1>1, <1>5, <2>2
  <2>4. l \in 1 .. l
    BY <2>3
  <2> QED BY <2>2, <2>3, <2>4
<1> QED BY <1>1, <1>5, <1>6 DEF ToSet

(* The types that ask for records of F1 alone, and for none of F2. *)
LEMMA LeftTypes ==
    ASSUME InputInv, LeftOnly
    PROVE  /\ Alones(2) = {} /\ type[2] \notin {"U", "O"}
           /\ \A n, c : ~ Stays(n, c)
           /\ \A r \in Alones(1) : type[1] \in {"U", "O"} /\ r \in Joined(1)
                                   /\ \A s \in Joined(2) : s.key # r.key
           /\ type[1] \in {"U", "O"} => type \in {<<"U", "I">>, <<"O", "S">>}
<1>1. type[2] \in {"I", "S"} /\ type \in Types
  BY DEF LeftOnly, InputInv
<1>2. type[1] \in {"U", "O"} => type \in {<<"U", "I">>, <<"O", "S">>}
  BY <1>1 DEF Types
<1>3. Alones(2) = {} /\ type[2] \notin {"U", "O"} /\ \A n, c : ~ Stays(n, c)
  BY <1>1 DEF Alones, Stays
<1>4. ASSUME NEW r \in Alones(1)
      PROVE  type[1] \in {"U", "O"} /\ r \in Joined(1) /\ \A s \in Joined(2) : s.key # r.key
  <2>1. type[1] \in {"U", "O"} /\ r \in Joined(1) /\ Matches(r) = {}
    BY DEF Alones
  <2>2. r.file = 1
    BY <2>1, JoinedIs
  <2>3. 3 - r.file = 2
    BY <2>2
  <2>4. {s \in Joined(2) : s.key = r.key} = {}
    BY <2>1, <2>3 DEF Matches
  <2> QED BY <2>1, <2>4
<1> QED BY <1>2, <1>3, <1>4

(* LoneInv by its parts. *)
LoneRows ==
    /\ Distinct(out)
    /\ \A i \in DOMAIN out : out[i].from = {1} => out[i].f2 = Blank

LoneOut ==
    Running => \A r \in Alones(1) :
                  AloneRow(1, r) \in ToSet(out) <=>
                     r \in Passed(1) \/ (r = group[1][1] /\ LoneWritten)

LoneCmd ==
    /\ pc = "pair" => eof[1] # 2 \/ eof[2] # 2
    /\ pc = "round" /\ ~ first =>
          /\ "W" \in cmd[1] => "R" \in cmd[1] /\ eof[1] # 1
          /\ Key(1) # Key(2) /\ eof[1] = 0 /\ ("R" \in cmd[1] \/ eof[2] = 1)
               /\ type[1] \in {"U", "O"}
                => "W" \in cmd[1]

(* ... which it is the conjunction of. *)
LEMMA LoneInvIs == LoneInv <=> (Plain /\ LeftOnly => LoneRows /\ LoneOut /\ LoneCmd)
BY DEF LoneInv, LoneRows, LoneOut, LoneCmd

(* The row of a pair: the next match, or a record of F1 alone that has not *)
(* been written.                                                           *)
LEMMA LonePair ==
    ASSUME InputInv, ReadInv, PlaceInv, FrontInv, WrittenInv, LoneOut, LoneCmd,
           Plain, LeftOnly, pc = "pair", NEW c \in -1 .. 1,
           c < 0 <=> Key(1) < Key(2), c > 0 <=> Key(1) > Key(2), c = 0 <=> Key(1) = Key(2)
    PROVE  /\ Row(c).from # {} => Row(c) \notin ToSet(out)
           /\ Row(c).from = {1} => Row(c).f2 = Blank
           /\ c # 0 /\ Turn(c) = 1 /\ type[1] \in {"U", "O"} =>
                 Row(c) = AloneRow(1, group[1][1]) /\ group[1][1] \in Alones(1)
           /\ c # 0 /\ (Turn(c) # 1 \/ type[1] \notin {"U", "O"}) => Row(c).from = {}
           /\ c = 0 => Row(c).from \in {{1, 2}, {}}
<1>1. Record(1) = group[1][1]
  <2>1. Running
    BY DEF Running
  <2>2. at[1] = 1
    BY <2>1, OneInGroup, RecordIs DEF Plain
  <2> QED BY <2>2 DEF Record
<1>2. CASE c = 0
  <2>1. Row(c).from \in {{1, 2}, {}}
    BY <1>2, RowIs
  <2>2. Row(c).from # {} => Row(c) \notin ToSet(out)
    <3> SUFFICES ASSUME Row(c).from # {} PROVE Row(c) \notin ToSet(out)
      OBVIOUS
    <3>1. GoodRow(Row(c)) /\ (Row(c) \in MatchedRows => Row(c) \notin ToSet(out))
      BY PairRow
    <3>2. Row(c).from # {1} /\ Row(c).from # {2}
      BY <2>1
    <3> QED BY <3>1, <3>2 DEF GoodRow
  <2>3. Row(c).from # {1}
    BY <2>1
  <2> QED BY <1>2, <2>1, <2>2, <2>3
<1>3. CASE c # 0 /\ Turn(c) = 1 /\ type[1] \in {"U", "O"}
  <2>1. Row(c).from = {1} /\ Row(c).f1 = Record(1)
    BY <1>3, RowIs
  <2>2. Record(1) \in Alones(1)
    BY <1>3, TurnAlone
  <2>3. Row(c).f2 = Blank
    <3>1. type \in {<<"U", "I">>, <<"O", "S">>}
      BY <1>3, LeftTypes
    <3>2. Fills(2, c)
      BY <1>3, <3>1 DEF Fills
    <3> QED BY <3>2 DEF Row
  <2>4. Row(c) = AloneRow(1, group[1][1])
    <3>1. Row(c) = [from |-> Row(c).from, f1 |-> Row(c).f1, f2 |-> Row(c).f2]
      BY DEF Row
    <3> QED BY <1>1, <2>1, <2>3, <3>1 DEF AloneRow
  <2>5. eof[1] # 2
    <3>1. c < 0 => eof[1] # 2
      BY <1>3 DEF Turn
    <3>2. c > 0 => eof[2] = 2
      BY <1>3 DEF Turn
    <3> QED BY <1>3, <3>1, <3>2 DEF LoneCmd
  <2>6. group[1][1] \notin Passed(1)
    <3>1. Running
      BY DEF Running
    <3>2. group[1][1] \in ToSet(group[1])
      BY <3>1, KeyIs DEF ToSet
    <3> QED BY <3>2 DEF Passed, Behind
  <2>7. Row(c) \notin ToSet(out)
    <3>1. ~ LoneWritten
      BY <2>5 DEF LoneWritten
    <3>2. AloneRow(1, group[1][1]) \notin ToSet(out)
      BY <1>1, <2>2, <2>6, <3>1 DEF LoneOut, Running
    <3> QED BY <2>4, <3>2
  <2> QED BY <1>1, <1>3, <2>2, <2>3, <2>4, <2>7
<1>4. CASE c # 0 /\ (Turn(c) # 1 \/ type[1] \notin {"U", "O"})
  <2>1. Row(c).from = {}
    <3>1. Turn(c) \in 1 .. 2 /\ Row(c).from = IF type[Turn(c)] \in {"U", "O"} THEN {Turn(c)} ELSE {}
      BY <1>4, RowIs
    <3>2. type[2] \notin {"U", "O"}
      BY LeftTypes
    <3> QED BY <1>4, <3>1, <3>2
  <2> QED BY <1>4, <2>1
<1> QED BY <1>2, <1>3, <1>4

(* Every row is another one, and one of F1 alone has no data of F2. *)
LEMMA LoneRowsStep ==
    ASSUME InputInv, ReadInv, SortedInv, AloneInv, PlaceInv, FrontInv, WrittenInv,
           LoneRows, LoneOut, LoneCmd, Plain, LeftOnly, [Next]_vars
    PROVE  LoneRows'
<1>1. out \in Seq(OutRow)
  BY DEF ReadInv, StateInv
<1>2. Distinct(out) /\ \A i \in DOMAIN out : out[i].from = {1} => out[i].f2 = Blank
  BY DEF LoneRows
<1> SUFFICES Distinct(out') /\ \A i \in DOMAIN out' : out'[i].from = {1} => out'[i].f2 = Blank
  BY DEF LoneRows
<1>3. CASE out' = out
  BY <1>2, <1>3
<1>4. CASE Pair
  <2>1. PICK c \in -1 .. 1 :
           /\ c < 0 <=> Key(1) < Key(2)
           /\ c = 0 <=> Key(1) = Key(2)
           /\ c > 0 <=> Key(1) > Key(2)
           /\ out' = IF Row(c).from # {} /\ (Len(out) < MaxRows \/ Row(c) \notin ToSet(out))
                     THEN Append(out, Row(c)) ELSE out
           /\ Row(c) \in OutRow
    BY <1>4, PairIs
  <2>2. pc = "pair"
    BY <1>4, PairIs
  <2>3. /\ Row(c).from # {} => Row(c) \notin ToSet(out)
        /\ Row(c).from = {1} => Row(c).f2 = Blank
    BY <2>1, <2>2, LonePair
  <2>4. CASE Row(c).from # {} /\ out' = Append(out, Row(c))
    <3>1. Distinct(out') /\ ToSet(out') = ToSet(out) \cup {Row(c)}
      BY <1>1, <1>2, <2>1, <2>3, <2>4, ToSetAppend
    <3>2. \A x \in ToSet(out') : x.from = {1} => x.f2 = Blank
      BY <1>2, <2>3, <3>1 DEF ToSet
    <3> QED BY <3>1, <3>2 DEF ToSet
  <2> QED BY <2>1, <2>4, <1>3
<1>5. CASE \E n \in 1 .. 2 : Alone(n)
  <2>1. PICK n \in 1 .. 2 : Alone(n)
    BY <1>5
  <2>2. ToSet(out') = AloneRows(n, Taken(n)') /\ Distinct(out')
    BY <2>1, AloneIs DEF Plain
  <2>3. \A x \in ToSet(out') : \E r : x = AloneRow(n, r)
    BY <2>2 DEF AloneRows
  <2>4. \A r : AloneRow(n, r).from = {1} => AloneRow(n, r).f2 = Blank
    BY DEF AloneRow
  <2>5. \A x \in ToSet(out') : x.from = {1} => x.f2 = Blank
    BY <2>3, <2>4
  <2> QED BY <2>2, <2>5 DEF ToSet
<1>6. CASE FinalSort
  <2>1. PICK p \in [DOMAIN out -> DOMAIN out] :
           Distinct(p) /\ DOMAIN out' = DOMAIN out /\ \A i \in DOMAIN out : out'[i] = out[p[i]]
    BY <1>6, FinalRead
  <2> QED BY <2>1, <1>2 DEF Distinct
<1>7. CASE SortF1 \/ SortF2 \/ Open \/ Round \/ Omitted \/ Stops \/ UNCHANGED vars
  <2>1. out' = out
    BY <1>7, StopsRead DEF SortF1, SortF2, Sort, Open, Round, Omitted, vars
  <2> QED BY <2>1, <1>3
<1> QED BY <1>4, <1>5, <1>6, <1>7, Steps

(* A pair and the record of F1 alone: written when its turn comes. *)
LEMMA LoneOutPair ==
    ASSUME InputInv, ReadInv, PlaceInv, FrontInv, WrittenInv, LoneOut, LoneCmd,
           Plain, LeftOnly, Pair, NEW r \in Alones(1)
    PROVE  AloneRow(1, r) \in ToSet(out') <=>
              r \in Passed(1)' \/ (r = group'[1][1] /\ LoneWritten')
<1>1. pc = "pair" /\ Running /\ ~ first /\ UNCHANGED <<rest, group, first>>
  BY PairIs DEF Running, ReadInv, PhaseInv
<1>2. PICK c \in -1 .. 1 :
         /\ c < 0 <=> Key(1) < Key(2)
         /\ c = 0 <=> Key(1) = Key(2)
         /\ c > 0 <=> Key(1) > Key(2)
         /\ cmd'[1] = Commands(1, c)
         /\ eof' = EofAfter(c)
         /\ out' = IF Row(c).from # {} /\ (Len(out) < MaxRows \/ Row(c) \notin ToSet(out))
                   THEN Append(out, Row(c)) ELSE out
         /\ out \in Seq(OutRow) /\ Row(c) \in OutRow
         /\ \/ pc' = "round"
            \/ at[2] < Len(group[2])
            \/ at[1] < Len(group[1])
  BY PairIs
<1>3. pc' = "round"
  <2>1. /\ Len(group[1]) = 1 /\ DOMAIN group[1] = {1}
        /\ Len(group[2]) = 1 /\ DOMAIN group[2] = {1}
    BY <1>1, OneInGroup
  <2>2. at[1] = 1 /\ at[2] = 1
    BY <1>1, <2>1 DEF ReadInv, PhaseInv
  <2> QED BY <1>2, <2>1, <2>2
<1>4. Passed(1)' = Passed(1)
  <2>1. Joined(1)' = Joined(1)
    BY SettingsSame DEF Pair
  <2> QED BY <1>1, <2>1 DEF Passed
<1>5. AloneRow(1, r) \in ToSet(out) <=> r \in Passed(1) \/ (r = group[1][1] /\ eof[1] = 2)
  BY <1>1 DEF LoneOut, LoneWritten
<1>6. LoneWritten' <=> eof'[1] = 2 \/ "W" \in cmd'[1]
  BY <1>1, <1>3 DEF LoneWritten
<1>7. \/ out' = Append(out, Row(c)) /\ Row(c).from # {}
      \/ out' = out /\ (Row(c).from # {} => Row(c) \in ToSet(out))
  BY <1>2
<1>8. AloneRow(1, r) \in ToSet(out') <=>
         AloneRow(1, r) \in ToSet(out) \/ (Row(c).from # {} /\ AloneRow(1, r) = Row(c))
  BY <1>2, <1>7, ToSetAppend
<1>9. AloneRow(1, r).from = {1} /\ AloneRow(1, r).f1 = r
  BY DEF AloneRow
<1>10. /\ type[1] \in {"U", "O"} /\ type # Inner
       /\ r \in Joined(1) /\ \A s \in Joined(2) : s.key # r.key
  BY LeftTypes DEF Inner
<1>11. /\ eof'[1] = (IF Ends(1, c) THEN 2 ELSE eof[1])
       /\ Ends(1, c) => eof[1] = 1
  BY <1>2, EofAfterIs
<1>12. CASE r # group[1][1]
  <2>1. Row(c).from # {} => AloneRow(1, r) # Row(c)
    <3>1. CASE c = 0
      <4>1. Row(c).from \in {{1, 2}, {}}
        BY <1>1, <1>2, <3>1, LonePair
      <4> QED BY <4>1, <1>9
    <3>2. CASE c # 0
      <4>1. Row(c).from # {} => Row(c) = AloneRow(1, group[1][1])
        BY <1>1, <1>2, <3>2, LonePair
      <4>2. AloneRow(1, group[1][1]).f1 = group[1][1]
        BY DEF AloneRow
      <4> QED BY <4>1, <4>2, <1>9, <1>12
    <3> QED BY <3>1, <3>2
  <2> QED BY <2>1, <1>1, <1>4, <1>5, <1>8, <1>12
<1>13. CASE r = group[1][1]
  <2>1. c # 0
    <3>1. group[2][1] \in Joined(2)
      BY <1>1, KeyIs DEF PlaceInv, Placed, Plain, ToSet
    <3>2. Key(1) # Key(2)
      BY <3>1, <1>10, <1>13 DEF Key
    <3> QED BY <3>2, <1>2
  <2>2. "W" \in cmd'[1] <=> Turn(c) = 1
    BY <1>2, <1>10, <2>1, CommandsIs
  <2>3. Ends(1, c) <=> eof[1] = 1 /\ Turn(c) = 1
    BY <2>1, <1>10 DEF Ends
  <2>4. LoneWritten' <=> eof[1] = 2 \/ Turn(c) = 1
    BY <1>6, <1>11, <2>2, <2>3
  <2>5. CASE Turn(c) = 1
    <3>1. Row(c) = AloneRow(1, r)
      BY <1>1, <1>2, <1>10, <1>13, <2>1, <2>5, LonePair
    <3>2. AloneRow(1, r) \in ToSet(out')
      BY <3>1, <1>8, <1>9
    <3> QED BY <3>2, <2>4, <2>5, <1>1, <1>13
  <2>6. CASE Turn(c) # 1
    <3>1. Row(c).from = {}
      BY <1>1, <1>2, <2>1, <2>6, LonePair
    <3> QED BY <3>1, <1>1, <1>4, <1>5, <1>8, <1>13, <2>4, <2>6
  <2> QED BY <2>5, <2>6
<1> QED BY <1>12, <1>13

(* A round passes a record of F1 alone once it has been written. *)
LEMMA LoneOutRound ==
    ASSUME InputInv, ReadInv, PlaceInv, LoneOut, LoneCmd,
           Plain, LeftOnly, Round, NEW r \in Alones(1)
    PROVE  AloneRow(1, r) \in ToSet(out') <=>
              r \in Passed(1)' \/ (r = group'[1][1] /\ LoneWritten')
<1>1. PICK F \in SUBSET (1 .. 2) :
         /\ 1 \in F <=> eof[1] = 0 /\ ~ first /\ ("R" \in cmd[1] \/ eof[2] = 1)
         /\ \A k \in F : /\ rest[k] # <<>>
                         /\ group'[k] = GroupOf(rest[k]) /\ rest'[k] = RestOf(rest[k])
                         /\ eof'[k] \in {0, 1}
         /\ \A k \in 1 .. 2 \ F :
               group'[k] = group[k] /\ rest'[k] = rest[k] /\ eof'[k] = eof[k]
  BY RoundIs
<1>2. /\ pc = "round" /\ Running /\ pc' = "pair" /\ out' = out
  BY RoundIs DEF Running
<1>3. /\ 1 \in F => Passed(1)' = Passed(1) \cup ToSet(group[1])
      /\ 1 \notin F => Passed(1)' = Passed(1)
  BY <1>1, RoundPasses
<1>4. AloneRow(1, r) \in ToSet(out) <=> r \in Passed(1) \/ (r = group[1][1] /\ LoneWritten)
  BY <1>2 DEF LoneOut
<1>5. LoneWritten' <=> eof'[1] = 2
  BY <1>2 DEF LoneWritten
<1>6. LoneWritten <=> eof[1] = 2 \/ (~ first /\ "W" \in cmd[1])
  BY <1>2 DEF LoneWritten
<1>7. type[1] \in {"U", "O"} /\ \A s \in Joined(2) : s.key # r.key
  BY LeftTypes
<1>8. CASE 1 \in F
  <2>1. ~ LoneWritten'
    BY <1>1, <1>5, <1>8
  <2>2. ToSet(group[1]) = {group[1][1]}
    BY <1>2, OneInGroup
  <2>3. r = group[1][1] => LoneWritten
    <3> SUFFICES ASSUME r = group[1][1] PROVE LoneWritten
      OBVIOUS
    <3>1. group[2][1] \in Joined(2)
      BY <1>2, KeyIs DEF PlaceInv, Placed, Plain, ToSet
    <3>2. Key(1) # Key(2)
      BY <3>1, <1>7 DEF Key
    <3>3. "W" \in cmd[1]
      BY <1>1, <1>2, <1>7, <1>8, <3>2 DEF LoneCmd
    <3> QED BY <3>3, <1>1, <1>6, <1>8
  <2> QED BY <2>1, <2>2, <2>3, <1>2, <1>3, <1>4, <1>8
<1>9. CASE 1 \notin F
  <2>1. group'[1] = group[1] /\ eof'[1] = eof[1]
    BY <1>1, <1>9
  <2>2. ~ first /\ "W" \in cmd[1] => eof[1] = 2
    <3> SUFFICES ASSUME ~ first, "W" \in cmd[1] PROVE eof[1] = 2
      OBVIOUS
    <3>1. "R" \in cmd[1] /\ eof[1] # 1
      BY <1>2 DEF LoneCmd
    <3>2. eof[1] # 0
      BY <3>1, <1>1, <1>9
    <3>3. eof[1] \in 0 .. 2
      BY DEF ReadInv, StateInv
    <3> QED BY <3>1, <3>2, <3>3
  <2> QED BY <2>1, <2>2, <1>2, <1>3, <1>4, <1>5, <1>6, <1>9
<1> QED BY <1>8, <1>9

(* What the commands of the last pair say of F1. *)
LEMMA LoneCmdStep ==
    ASSUME InputInv, ReadInv, PlaceInv, LoneCmd, Plain, LeftOnly, [Next]_vars
    PROVE  LoneCmd'
<1>1. CASE UNCHANGED vars
  <2>1. UNCHANGED <<pc, eof, first, cmd, group, type>>
    BY <1>1 DEF vars, reading, looping, settings
  <2> QED BY <2>1 DEF LoneCmd, Key
<1>2. CASE Pair
  <2>1. /\ pc = "pair" /\ Running /\ group' = group /\ first' = first
        /\ \A n \in 1 .. 2 : Len(group[n]) = 1 /\ at[n] = 1
    <3>1. pc = "pair" /\ Running /\ group' = group /\ first' = first
      BY <1>2, PairIs DEF Running
    <3> SUFFICES ASSUME NEW n \in 1 .. 2 PROVE Len(group[n]) = 1 /\ at[n] = 1
      BY <3>1
    <3>2. Len(group[n]) = 1 /\ DOMAIN group[n] = {1}
      BY <3>1, OneInGroup
    <3> QED BY <3>1, <3>2 DEF ReadInv, PhaseInv
  <2>2. PICK c \in -1 .. 1 :
           /\ c = 0 <=> Key(1) = Key(2)
           /\ cmd'[1] = Commands(1, c)
           /\ eof' = EofAfter(c)
           /\ \/ pc' = "round"
              \/ at[2] < Len(group[2])
              \/ at[1] < Len(group[1])
    BY <1>2, PairIs
  <2>3. pc' = "round"
    <3>1. at[1] = 1 /\ Len(group[1]) = 1 /\ at[2] = 1 /\ Len(group[2]) = 1
      BY <2>1
    <3> QED BY <2>2, <3>1
  <2>4. type' = type /\ (Key(1)' = Key(2)' <=> c = 0)
    BY <1>2, <2>1, <2>2, SettingsSame DEF Key, Pair
  <2>5. \A n \in 1 .. 2 : /\ eof'[n] = (IF Ends(n, c) THEN 2 ELSE eof[n])
                          /\ Ends(n, c) => eof[n] = 1
    BY <2>2, EofAfterIs
  <2>6. /\ eof'[1] = (IF Ends(1, c) THEN 2 ELSE eof[1])
        /\ eof'[2] = (IF Ends(2, c) THEN 2 ELSE eof[2])
    BY <2>5
  <2>7. CASE c = 0
    <3>1. "R" \in cmd'[1]
      BY <2>2, <2>7, CommandsIs
    <3>2. Ends(1, c) <=> eof[1] = 1
      BY <2>7 DEF Ends
    <3> QED BY <2>3, <2>4, <2>6, <2>7, <3>1, <3>2 DEF LoneCmd
  <2>8. CASE c # 0
    <3>1. Turn(c) \in 1 .. 2
      BY CommandsIs
    <3>2. "W" \in cmd'[1] <=> Turn(c) = 1 /\ type[1] \in {"U", "O"}
      <4>1. CASE Turn(c) = 1
        BY <2>2, <2>8, <4>1, CommandsIs
      <4>2. CASE Turn(c) # 1
        <5>1. cmd'[1] = {}
          BY <2>2, <2>8, <4>2, CommandsIs
        <5> QED BY <4>2, <5>1
      <4> QED BY <4>1, <4>2
    <3>3. "R" \in cmd'[1] <=> Turn(c) = 1
      <4>1. CASE Turn(c) = 1
        <5>1. ~ Stays(1, c)
          BY LeftTypes
        <5> QED BY <2>2, <2>8, <4>1, <5>1, CommandsIs
      <4>2. CASE Turn(c) # 1
        <5>1. cmd'[1] = {}
          BY <2>2, <2>8, <4>2, CommandsIs
        <5> QED BY <4>2, <5>1
      <4> QED BY <4>1, <4>2
    <3>4. /\ Turn(c) = 1 => (Ends(1, c) <=> eof[1] = 1)
          /\ Turn(c) = 2 => (Ends(2, c) <=> eof[2] = 1)
      BY DEF Ends
    <3>5. "W" \in cmd'[1] => "R" \in cmd'[1] /\ eof'[1] # 1
      BY <2>6, <3>2, <3>3, <3>4
    <3>6. ("R" \in cmd'[1] \/ eof'[2] = 1) /\ type[1] \in {"U", "O"} => "W" \in cmd'[1]
      BY <2>6, <3>1, <3>2, <3>3, <3>4
    <3> QED BY <2>3, <2>4, <3>5, <3>6 DEF LoneCmd
  <2> QED BY <2>7, <2>8
<1>3. CASE Round
  <2>1. pc' = "pair" /\ sumEof < MaxFiles + 2
    BY <1>3, RoundIs
  <2>2. PICK F \in SUBSET (1 .. 2) :
           /\ \A n \in F : eof[n] = 0 /\ eof'[n] \in {0, 1}
           /\ \A n \in 1 .. 2 \ F : eof'[n] = eof[n]
    BY <1>3, RoundIs
  <2>3. eof'[1] = 2 => eof[1] = 2
    BY <2>2
  <2>4. eof'[2] = 2 => eof[2] = 2
    BY <2>2
  <2>5. eof[1] # 2 \/ eof[2] # 2
    <3>1. PICK e1 \in 0 .. 2, e2 \in 0 .. 2 : e1 = eof[1] /\ e2 = eof[2]
      BY DEF ReadInv, StateInv
    <3>2. MaxFiles - 2 + e1 + e2 < MaxFiles + 2
      BY <1>3, <2>1, <3>1 DEF ReadInv, PhaseInv, Round, Running
    <3>3. e1 # 2 \/ e2 # 2
      BY <3>2, JoinAssumption
    <3> QED BY <3>1, <3>3
  <2> QED BY <2>1, <2>3, <2>4, <2>5 DEF LoneCmd
<1>4. CASE Open
  <2>1. first /\ pc' = "round" /\ first' = first
    BY <1>4 DEF Open, looping, ReadInv, PhaseInv, Waiting
  <2> QED BY <2>1 DEF LoneCmd
<1>5. CASE SortF1 \/ SortF2 \/ (\E m \in 1 .. 2 : Alone(m)) \/ FinalSort \/ Stops
  <2>1. pc' \notin {"round", "pair"}
    BY <1>5, StopsRead DEF SortF1, SortF2, Sort, Alone, FinalSort
  <2> QED BY <2>1 DEF LoneCmd
<1> QED BY <1>1, <1>2, <1>3, <1>4, <1>5, Steps, NotOmitted

(* LoneInv is kept. *)
LEMMA LoneStep ==
    ASSUME InputInv, ReadInv, SortedInv, AloneInv, PlaceInv, FrontInv, WrittenInv, LoneInv,
           [Next]_vars
    PROVE  LoneInv'
<1>1. /\ (Plain' <=> Plain) /\ (LeftOnly' <=> LeftOnly) /\ Alones(1)' = Alones(1)
      /\ Joined(1)' = Joined(1)
  BY SettingsStay, SettingsSame
<1> SUFFICES ASSUME Plain, LeftOnly PROVE LoneRows' /\ LoneOut' /\ LoneCmd'
  BY <1>1 DEF LoneInv, LoneRows, LoneOut, LoneCmd
<1>2. LoneRows /\ LoneOut /\ LoneCmd
  BY LoneInvIs
<1>3. LoneRows' /\ LoneCmd'
  BY <1>2, LoneRowsStep, LoneCmdStep
<1>4. LoneOut'
  <2> SUFFICES ASSUME Running', NEW r \in Alones(1)
               PROVE  AloneRow(1, r) \in ToSet(out') <=>
                         r \in Passed(1)' \/ (r = group'[1][1] /\ LoneWritten')
    BY <1>1 DEF LoneOut, AloneRow
  <2>1. CASE UNCHANGED vars
    <3>1. UNCHANGED <<pc, out, group, rest, eof, first, cmd>> /\ Running
      BY <2>1 DEF vars, reading, looping, Running
    <3>2. Passed(1)' = Passed(1)
      BY <1>1, <3>1 DEF Passed
    <3> QED BY <1>2, <3>1, <3>2 DEF LoneOut, LoneWritten
  <2>2. CASE Pair
    BY <1>2, <2>2, LoneOutPair
  <2>3. CASE Round
    BY <1>2, <2>3, LoneOutRound
  <2>4. CASE Open
    <3>1. /\ group'[1] = GroupOf(rest[1]) /\ rest'[1] = RestOf(rest[1])
          /\ eof'[1] = EofOf(rest[1])
      BY <2>4 DEF Open, ReadGroups
    <3>2. \A n \in 1 .. 2 : /\ ToSet(rest[n]) = Joined(n) /\ Taken(n) = {}
                            /\ rest[n] \in Seq(JoinRecord) /\ rest[n] # <<>>
                            /\ KeySorted(rest[n]) /\ Distinct(rest[n])
      BY <2>4, OpenWhole DEF Plain
    <3>3. Behind(ToSet(rest[1]), GroupOf(rest[1]), RestOf(rest[1])) = {}
      BY <3>2, PlacedFirst
    <3>4. Passed(1)' = {}
      BY <1>1, <3>1, <3>2, <3>3 DEF Passed
    <3>5. pc = "open" /\ pc' = "round" /\ out' = out /\ first' = first
      BY <2>4 DEF Open, looping
    <3>6. ToSet(out') = {}
      BY <3>2, <3>5 DEF AloneInv, Plain
    <3>7. first
      BY <3>5 DEF ReadInv, PhaseInv, Waiting
    <3>8. ~ LoneWritten'
      BY <3>1, <3>5, <3>7 DEF LoneWritten, EofOf
    <3> QED BY <3>4, <3>6, <3>8
  <2>5. CASE SortF1 \/ SortF2 \/ (\E m \in 1 .. 2 : Alone(m)) \/ FinalSort \/ Stops
    <3>1. ~ Running'
      BY <2>5, StopsRead DEF SortF1, SortF2, Sort, Alone, FinalSort, Running
    <3> QED BY <3>1
  <2> QED BY <2>1, <2>2, <2>3, <2>4, <2>5, Steps, NotOmitted
<1> QED BY <1>3, <1>4

-----------------------------------------------------------------------------
(* The end, and the theorems. *)

(* Without records left and without a pair not visited, all rows are there.*)
LEMMA FinalJoin ==
    ASSUME InputInv, ReadInv, PlaceInv, WrittenInv, LoneInv, Plain, JoinEnd
    PROVE  /\ MatchedRows \subseteq ToSet(out)
           /\ LeftOnly => {AloneRow(1, r) : r \in Alones(1)} \subseteq ToSet(out)
<1>1. pc = "round" /\ Running /\ sumEof >= MaxFiles + 2
  BY DEF JoinEnd, Running
<1>2. eof[1] = 2 /\ eof[2] = 2
  <2>1. PICK e1 \in 0 .. 2, e2 \in 0 .. 2 : e1 = eof[1] /\ e2 = eof[2]
    BY DEF ReadInv, StateInv
  <2>2. MaxFiles - 2 + e1 + e2 >= MaxFiles + 2
    BY <1>1, <2>1 DEF ReadInv, PhaseInv
  <2>3. e1 = 2 /\ e2 = 2
    BY <2>2, JoinAssumption
  <2> QED BY <2>1, <2>3
<1>3. ~ first /\ rest[1] = <<>> /\ rest[2] = <<>>
  BY <1>1, <1>2 DEF ReadInv, PhaseInv
<1>4. /\ \A r \in Joined(1) : r \in Passed(1) \/ r \in ToSet(group[1])
      /\ \A r \in Joined(2) : r \in Passed(2) \/ r \in ToSet(group[2])
  <2>1. ToSet(<<>>) = {}
    BY DEF ToSet
  <2> QED BY <1>3, <2>1 DEF Passed, Behind
<1>5. ASSUME NEW x \in MatchedRows PROVE x \in ToSet(out)
  <2>1. x.f1 \in Joined(1) /\ x.f2 \in Joined(2)
    BY MatchedIs
  <2>2. x.f1 \in ToSet(group[1]) /\ x.f2 \in ToSet(group[2]) => Met(x.f1, x.f2)
    BY <1>1, <1>3 DEF ToSet, Met, Visited
  <2> QED BY <1>1, <1>4, <2>1, <2>2 DEF WrittenInv
<1>6. ASSUME LeftOnly, NEW r \in Alones(1) PROVE AloneRow(1, r) \in ToSet(out)
  <2>1. r \in Joined(1)
    BY DEF Alones
  <2>2. ToSet(group[1]) = {group[1][1]}
    BY <1>1, <1>6, OneInGroup
  <2>3. LoneWritten
    BY <1>2 DEF LoneWritten
  <2> QED BY <1>1, <1>4, <1>6, <2>1, <2>2, <2>3 DEF LoneInv
<1> QED BY <1>5, <1>6

(* One file was empty: it has no records that take part. *)
LEMMA FinalAlone ==
    ASSUME Plain, NEW n \in 1 .. 2, Joined(n) = {}
    PROVE  MatchedRows = {} /\ (n = 1 => Alones(1) = {})
<1>1. MatchedRows = {}
  <2> SUFFICES ASSUME NEW x \in MatchedRows PROVE FALSE
    OBVIOUS
  <2> QED BY MatchedIs
<1> QED BY <1>1 DEF Alones

(* FinalInv is kept. *)
LEMMA FinalStep ==
    ASSUME InputInv, ReadInv, SortedInv, AloneInv, PlaceInv, WrittenInv, LoneInv, FinalInv,
           [Next]_vars
    PROVE  FinalInv'
<1>1. /\ (Plain' <=> Plain) /\ (LeftOnly' <=> LeftOnly) /\ Alones(1)' = Alones(1)
      /\ MatchedRows' = MatchedRows /\ \A n : Joined(n)' = Joined(n)
  BY SettingsStay, SettingsSame
<1> SUFFICES ASSUME Plain, pc' \in {"final", "done"}, ret' = 0
             PROVE  /\ MatchedRows \subseteq ToSet(out')
                    /\ LeftOnly => {AloneRow(1, r) : r \in Alones(1)} \subseteq ToSet(out')
  BY <1>1 DEF FinalInv, AloneRow
<1>2. CASE UNCHANGED vars \/ FinalSort
  <2>1. pc \in {"final", "done"} /\ ret = 0 /\ ToSet(out') = ToSet(out)
    <3>1. CASE UNCHANGED vars
      BY <3>1 DEF vars
    <3>2. CASE FinalSort
      BY <3>2, FinalRead DEF FinalSort
    <3> QED BY <1>2, <3>1, <3>2
  <2> QED BY <2>1 DEF FinalInv
<1>3. CASE JoinEnd
  <2>1. out' = out
    BY <1>3 DEF JoinEnd
  <2> QED BY <1>3, <2>1, FinalJoin
<1>4. CASE NothingToDo
  <2>1. pc = "open" /\ out' = out
    BY <1>4 DEF NothingToDo
  <2>2. \A n \in 1 .. 2 : rest[n] = <<>> => Joined(n) = {}
    <3> SUFFICES ASSUME NEW n \in 1 .. 2, rest[n] = <<>> PROVE Joined(n) = {}
      OBVIOUS
    <3>1. Taken(n) = {}
      BY <2>1 DEF AloneInv, Plain
    <3>2. ToSet(rest[n]) = {}
      BY DEF ToSet
    <3> QED BY <3>1, <3>2 DEF Taken
  <2>3. CASE rest[1] = <<>>
    <3>1. MatchedRows = {} /\ Alones(1) = {}
      BY <2>2, <2>3, FinalAlone
    <3> QED BY <3>1
  <2>4. CASE rest[1] # <<>>
    <3>1. rest[2] = <<>> /\ type[1] \notin {"U", "O"}
      <4>1. PICK n \in 1 .. 2 : Full(n) /\ type[n] \notin {"U", "O"}
        BY <1>4, <2>4 DEF NothingToDo
      <4>2. n = 1
        BY <2>4, <4>1 DEF Full
      <4> QED BY <4>1, <4>2 DEF Full
    <3>2. MatchedRows = {}
      BY <2>2, <3>1, FinalAlone
    <3>3. Alones(1) = {}
      BY <3>1 DEF Alones
    <3> QED BY <3>2, <3>3
  <2> QED BY <2>3, <2>4
<1>5. CASE \E n \in 1 .. 2 : Alone(n)
  <2>1. PICK n \in 1 .. 2 : Alone(n)
    BY <1>5
  <2>2. Joined(3 - n) = {} /\ ToSet(out') = AloneRows(n, Taken(n)')
    BY <2>1, AloneIs DEF Plain
  <2>3. MatchedRows = {} /\ (n = 2 => Alones(1) = {})
    <3>1. 3 - n \in 1 .. 2 /\ (n = 2 => 3 - n = 1)
      OBVIOUS
    <3> QED BY <2>2, <3>1, FinalAlone
  <2>4. CASE n = 2
    BY <2>3, <2>4
  <2>5. CASE n = 1
    <3>1. rest'[1] = <<>>
      BY <2>1, <2>5 DEF Alone
    <3>2. ToSet(rest'[1]) = {}
      BY <3>1 DEF ToSet
    <3>3. Taken(1)' = Joined(1)
      BY <1>1, <3>2 DEF Taken
    <3>4. Alones(1) \subseteq Joined(1)
      BY DEF Alones
    <3> QED BY <2>2, <2>3, <2>5, <3>3, <3>4 DEF AloneRows
  <2> QED BY <2>4, <2>5
<1>6. CASE OpenFails \/ WriteFails
  <2>1. ret' = -1
    BY <1>6 DEF OpenFails, WriteFails
  <2> QED BY <2>1
<1>7. CASE Abend
  BY <1>7 DEF Abend
<1>8. CASE SortF1 \/ SortF2 \/ Open \/ Round \/ Omitted \/ Pair
  <2>1. pc' \notin {"final", "done"}
    <3>1. CASE SortF1 \/ SortF2 \/ Open \/ Round
      BY <3>1 DEF SortF1, SortF2, Sort, Open, Round
    <3>2. CASE Pair
      <4>1. pc' \in {"round", "pair"}
        BY <3>2, PairIs
      <4> QED BY <4>1
    <3> QED BY <1>8, <3>1, <3>2, NotOmitted
  <2> QED BY <2>1
<1> QED BY <1>2, <1>3, <1>4, <1>5, <1>6, <1>7, <1>8, Steps DEF Stops

(* The invariant holds at the start. *)
LEMMA JoinInit == Init => JoinInv
<1> SUFFICES ASSUME Init PROVE JoinInv
  OBVIOUS
<1>1. InputInv /\ ReadInv /\ SortedInv /\ AloneInv /\ BufferInv
  BY InputInit, ReadInit, SortedInit, AloneInit, BufferInit
<1>2. pc = "sort1" /\ out = <<>>
  BY DEF Init
<1>3. PlaceInv /\ FrontInv /\ CmdInv /\ WrittenInv /\ FinalInv
  BY <1>2 DEF PlaceInv, FrontInv, CmdInv, WrittenInv, FinalInv, Running
<1>4. RowInv /\ LoneInv
  <2>1. DOMAIN out = {}
    BY <1>2
  <2> QED BY <1>2, <2>1 DEF RowInv, LoneInv, Distinct, Running
<1> QED BY <1>1, <1>3, <1>4 DEF JoinInv

(* ... and every step keeps it. *)
LEMMA JoinStep == JoinInv /\ [Next]_vars => JoinInv'
<1> SUFFICES ASSUME JoinInv, [Next]_vars PROVE JoinInv'
  OBVIOUS
<1> USE DEF JoinInv
<1>1. InputInv'
  BY SettingsStay, SettingsSame
<1>2. ReadInv' /\ SortedInv' /\ AloneInv'
  BY ReadStep, SortedStep, AloneStep
<1>3. PlaceInv' /\ BufferInv' /\ FrontInv' /\ CmdInv'
  BY PlaceStep, BufferStep, FrontStep, CmdStep
<1>4. WrittenInv' /\ RowInv' /\ LoneInv' /\ FinalInv'
  BY WrittenStep, RowStep, LoneStep, FinalStep
<1> QED BY <1>1, <1>2, <1>3, <1>4

(* The invariant holds of every behaviour. *)
LEMMA JoinAlways == Spec => []JoinInv
<1>1. Init => JoinInv
  BY JoinInit
<1>2. JoinInv /\ [Next]_vars => JoinInv'
  BY JoinStep
<1> QED BY <1>1, <1>2, PTL DEF Spec

(* What the invariant says of the rows of a finished join. *)
LEMMA RowsFollow == JoinInv => RowsRight
<1> SUFFICES ASSUME JoinInv PROVE RowsRight
  OBVIOUS
<1>1. TypeOK
  BY DEF JoinInv, ReadInv, StateInv, PhaseInv, TypeOK
<1>2. Plain => (\A i \in DOMAIN out : GoodRow(out[i])) /\ Once(out, MatchedRows)
  BY RowInvIs DEF JoinInv
<1>3. ASSUME Plain, Finished, NEW x \in MatchedRows
      PROVE  Cardinality({i \in DOMAIN out : out[i] = x}) = 1
  <2>1. x \in ToSet(out)
    BY <1>3 DEF JoinInv, FinalInv, Finished
  <2>2. PICK k \in DOMAIN out : out[k] = x
    BY <2>1 DEF ToSet
  <2>3. \A i \in DOMAIN out : out[i] = x => i = k
    BY <1>2, <1>3, <2>2 DEF Once
  <2>4. {i \in DOMAIN out : out[i] = x} = {k}
    BY <2>2, <2>3
  <2> QED BY <2>4, FS_Singleton
<1> QED BY <1>1, <1>2, <1>3 DEF RowsRight, Plain, GoodRow

(* A sequence without repetitions has as many elements as places. *)
LEMMA DistinctLen ==
    ASSUME NEW S, NEW s \in Seq(S), Distinct(s)
    PROVE  Len(s) = Cardinality(ToSet(s))
<1>1. PICK n \in Nat : n = Len(s) /\ DOMAIN s = 1 .. n
  OBVIOUS
<1>2. PICK f \in [1 .. n -> ToSet(s)] : \A i \in 1 .. n : f[i] = s[i]
  <2> DEFINE h == [i \in 1 .. n |-> s[i]]
  <2>1. h \in [1 .. n -> ToSet(s)] /\ \A i \in 1 .. n : h[i] = s[i]
    BY <1>1 DEF ToSet
  <2> QED BY <2>1
<1>3. \A i, j \in 1 .. n : f[i] = f[j] => i = j
  BY <1>1, <1>2 DEF Distinct
<1>4. \A x \in ToSet(s) : \E i \in 1 .. n : f[i] = x
  BY <1>1, <1>2 DEF ToSet
<1>5. f \in Bijection(1 .. n, ToSet(s))
  BY <1>3, <1>4 DEF Bijection, Injection, Surjection, IsInjective
<1>6. Cardinality(ToSet(s)) = n
  BY <1>5, FS_CountingElements DEF ExistsBijection
<1> QED BY <1>1, <1>6

(* ... and when the keys are unique.                                       *)
LEMMA UniqueFollows == JoinInv => UniqueKeysRight
<1> SUFFICES ASSUME JoinInv, Finished, Plain, LeftOnly
             PROVE  ToSet(out) = Expected /\ Len(out) = Cardinality(Expected)
  BY DEF UniqueKeysRight, Plain, LeftOnly
<1>1. InputInv /\ LoneInv /\ RowInv /\ FinalInv /\ out \in Seq(OutRow)
  BY DEF JoinInv, ReadInv, StateInv
<1>2. \A i \in DOMAIN out : GoodRow(out[i])
  BY <1>1, RowInvIs
<1>3. Distinct(out) /\ \A i \in DOMAIN out : out[i].from = {1} => out[i].f2 = Blank
  BY <1>1 DEF LoneInv
<1>4. Alones(2) = {}
  BY <1>1, LeftTypes
<1>5. ASSUME NEW x \in ToSet(out) PROVE x \in Expected
  <2>1. PICK i \in DOMAIN out : x = out[i]
    BY DEF ToSet
  <2>2. x \in OutRow
    BY <1>1, <2>1
  <2>3. x = [from |-> x.from, f1 |-> x.f1, f2 |-> x.f2]
    BY <2>2 DEF OutRow
  <2>4. x \in MatchedRows \/ (x.from = {1} /\ x.f1 \in Alones(1) /\ x.f2 = Blank)
    BY <1>2, <1>3, <1>4, <2>1 DEF GoodRow
  <2> QED BY <2>3, <2>4 DEF Expected
<1>6. ASSUME NEW x \in Expected PROVE x \in ToSet(out)
  <2>1. x \in MatchedRows \/ x \in [from : {{1}}, f1 : Alones(1), f2 : {Blank}]
    BY <1>4 DEF Expected
  <2>2. CASE x \in MatchedRows
    BY <1>1, <2>2 DEF FinalInv, Finished
  <2>3. CASE x \in [from : {{1}}, f1 : Alones(1), f2 : {Blank}]
    <3>1. x = [from |-> x.from, f1 |-> x.f1, f2 |-> x.f2]
      BY <2>3
    <3>2. x.from = {1} /\ x.f1 \in Alones(1) /\ x.f2 = Blank
      BY <2>3
    <3>3. x = AloneRow(1, x.f1)
      BY <3>1, <3>2 DEF AloneRow
    <3>4. AloneRow(1, x.f1) \in ToSet(out)
      BY <1>1, <3>2 DEF FinalInv, Finished
    <3> QED BY <3>3, <3>4
  <2> QED BY <2>1, <2>2, <2>3
<1>7. ToSet(out) = Expected
  BY <1>5, <1>6
<1> QED BY <1>1, <1>3, <1>7, DistinctLen

(* RowsRight, for files of any length and any number of equal keys: the    *)
(* matched rows of a join that has finished are all pairs of records with  *)
(* equal keys, each written once, and no record is written alone that has  *)
(* a match or that the type does not ask for.                              *)
THEOREM RowsRightAlways == Spec => []RowsRight
BY JoinAlways, RowsFollow, PTL

(* UniqueKeysRight, for files of any length: with unique keys the inner    *)
(* join, the left outer join and the records of F1 only are exactly the    *)
(* rows of the table, each once and filled as it says.                     *)
THEOREM UniqueKeysRightAlways == Spec => []UniqueKeysRight
BY JoinAlways, UniqueFollows, PTL

(* NoFalseAlarm, for files of any length and either order of FILL and the  *)
(* keys: a file that is in order is reported out of sequence only when     *)
(* FILL is above the keys and has filled the buffer, or behind the last    *)
(* record of a line sequential F2 whose F1 is empty.                       *)
THEOREM NoFalseAlarmAlways == Spec => []NoFalseAlarm
<1>1. Init => NoFalseAlarm
  BY DEF Init, NoFalseAlarm
<1>2. JoinInv /\ NoFalseAlarm /\ [Next]_vars => NoFalseAlarm'
  BY AlarmStep DEF JoinInv
<1> QED BY <1>1, <1>2, JoinAlways, PTL DEF Spec

=============================================================================
