-------------------------- MODULE CobSocketProofs --------------------------
(***************************************************************************)
(* What CobSocket keeps for every number of clients, every limit of        *)
(* descriptors, and every length of a record: the pool of function 10 is   *)
(* what is open, and no record is cut.                                     *)
(***************************************************************************)
EXTENDS CobSocket, WellFoundedInduction, TLAPS

(* What the server has and has not accepted: a client that did not connect *)
(* is nowhere, one that waits waits once and is no descriptor, and nothing *)
(* was read from either.                                                   *)
Accepted(c) == \E f \in Fds : fds[f] = c
Waits(c) == \E i \in DOMAIN backlog : backlog[i] = c

ClientsInv ==
    /\ \A c \in Clients : cpc[c] = "start" => ~Waits(c) /\ ~Accepted(c)
    /\ \A c \in Clients : Waits(c) => ~Accepted(c)
    /\ \A i, j \in DOMAIN backlog : backlog[i] = backlog[j] => i = j
    /\ \A c \in Clients : cpc[c] = "start" \/ Waits(c) => off[c] = 0

(* The descriptors: none is above the limit, and MULTISRV has the handle   *)
(* of a connection that is still open, or a descriptor is free for the     *)
(* next.  The standard input is what it was, or something has failed.      *)
FdsInv ==
    /\ \A f \in Fds : fds[f] # "free" => f <= limit
    /\ spc = "open" => fds[0] = "stdin" /\ \A f \in Fds \ {0} : fds[f] = "free"
    /\ spc \in {"open", "stop"} \/ (LISTEN \in Fds \ {0} /\ fds[LISTEN] = "listen")
    /\ spc \in {"open", "stop"} \/ HNDL \in st_sockets \/ FreeFds # {}
    /\ HNDL \in st_sockets \cup {0, NoFd}
    /\ Goes("close") => HNDL \in Fds /\ fds[HNDL] # "free"
    /\ fds[0] = "stdin" \/ fails > 0

(* How far each connection has been read.                                  *)
ReadInv ==
    /\ spc = "read" => l_left > 0
    /\ spc = "error" /\ resume = "read" => l_left = RecLen
    /\ Goes("read") /\ HNDL \in st_sockets \ {0} => off[fds[HNDL]] = RecLen - l_left
    /\ \A f \in st_sockets \ {0} :
          off[fds[f]] = 0 \/ (f = HNDL /\ (Goes("read") \/ Goes("close")))

SocketInv == HandlesRight /\ ClientsInv /\ FdsInv /\ ReadInv

-----------------------------------------------------------------------------
(* The descriptors. *)

LEMMA FdsAreNat ==
    /\ Fds \subseteq Nat /\ NoFd \notin Fds
    /\ \A n \in Limits : n \in Nat /\ n > 1 /\ 0 .. n \subseteq Fds
BY CobSocketAssumption DEF Fds, NoFd

(* The lowest of some descriptors is one of them. *)
LEMMA SmallestIsLeast ==
    ASSUME NEW S \in SUBSET Nat, S # {}
    PROVE  Smallest(S) \in S /\ \A n \in S : Smallest(S) <= n
<1>1. PICK R : R = OpToRel(<, Nat)
  OBVIOUS
<1>2. IsWellFoundedOn(R, Nat)
  BY <1>1, NatLessThanWellFounded
<1>3. PICK m \in S : \A n \in S : ~ (<<n, m>> \in R)
  BY <1>2, WFMin
<1>4. \A n \in S : m <= n
  <2> SUFFICES ASSUME NEW n \in S PROVE m <= n
    OBVIOUS
  <2>1. <<n, m>> \in Nat \X Nat /\ <<n, m>>[1] = n /\ <<n, m>>[2] = m
    OBVIOUS
  <2>2. R = {ss \in Nat \X Nat : ss[1] < ss[2]}
    BY <1>1 DEF OpToRel
  <2>3. ~ (n < m)
    BY <1>3, <2>1, <2>2
  <2> QED BY <2>3
<1> QED BY <1>4 DEF Smallest

(* The kernel gives out a free descriptor below the limit. *)
LEMMA GivenOut ==
    ASSUME TypeOK, FreeFds # {}
    PROVE  /\ Smallest(FreeFds) \in Fds /\ fds[Smallest(FreeFds)] = "free"
           /\ Smallest(FreeFds) <= limit
<1>1. FreeFds \in SUBSET Nat
  BY FdsAreNat DEF FreeFds, TypeOK
<1>2. Smallest(FreeFds) \in FreeFds
  BY <1>1, SmallestIsLeast
<1> QED BY <1>2, FdsAreNat DEF FreeFds, TypeOK

(* Function 10 delivers a readable socket. *)
LEMMA SelectedIsReady ==
    ASSUME NEW R \in SUBSET Nat, R # {}
    PROVE  Selected(R) \in R
<1> DEFINE after == {f \in R : f > lst_last_sock}
<1>1. after \in SUBSET Nat /\ after \subseteq R
  OBVIOUS
<1>2. after # {} => Smallest(after) \in R
  BY <1>1, SmallestIsLeast
<1>3. Smallest(R) \in R
  BY SmallestIsLeast
<1> QED BY <1>2, <1>3 DEF Selected

(* A record has bytes. *)
LEMMA RecLenType ==
    RecLen \in Nat /\ RecLen > 0 /\ RecLen \in 0 .. RecLen /\ 0 \in 0 .. RecLen - 1
BY CobSocketAssumption

(* The number of the standard input is a descriptor. *)
LEMMA ZeroIsFd == ASSUME limit \in Limits PROVE 0 \in Fds
<1>1. limit \in Nat /\ 0 .. limit \subseteq Fds
  BY FdsAreNat
<1>2. 0 \in 0 .. limit
  BY <1>1
<1> QED BY <1>1, <1>2

(* A part of a record is smaller than a record. *)
LEMMA WithinRecord == ASSUME NEW n \in 0 .. RecLen - 1 PROVE n % RecLen = n
BY RecLenType

(* A connection is none of the other things a descriptor may be. *)
LEMMA NoClient == "free" \notin Clients /\ "stdin" \notin Clients /\ "listen" \notin Clients
BY CobSocketAssumption

-----------------------------------------------------------------------------
(* The initial states. *)

LEMMA InitSocket == Init => SocketInv
<1> SUFFICES ASSUME Init PROVE SocketInv
  OBVIOUS
<1> USE FdsAreNat, NoClient, CobSocketAssumption
<1>1. \A f \in Fds : fds[f] \notin Clients
  BY DEF Init
<1>2. TypeOK
  BY DEF Init, TypeOK
<1>3. HandlesRight
  BY <1>1, <1>2 DEF Init, HandlesRight, Goes
<1>4. ClientsInv
  BY <1>1 DEF Init, ClientsInv, Accepted, Waits
<1>5. FdsInv
  <2>1. 0 \in Fds
    BY ZeroIsFd DEF TypeOK, Init
  <2> QED BY <2>1 DEF Init, FdsInv, Goes
<1>6. ReadInv
  BY DEF Init, ReadInv, Goes
<1> QED BY <1>3, <1>4, <1>5, <1>6 DEF SocketInv

-----------------------------------------------------------------------------
(* CLIENT: the server and its descriptors stay as they are. *)

LEMMA ConnectStep ==
    ASSUME SocketInv, NEW c \in Clients, Connect(c) PROVE SocketInv'
<1> USE DEF SocketInv, Connect, lib, server, bounds
<1>1. TypeOK'
  <2>1. CASE cpc' = [cpc EXCEPT ![c] = "pause"] /\ backlog' = Append(backlog, c)
    <3>1. cpc' \in [Clients -> {"start", "pause", "write", "gone"}]
      BY <2>1 DEF HandlesRight, TypeOK
    <3>2. backlog' \in Seq(Clients)
      BY <2>1 DEF HandlesRight, TypeOK
    <3> QED BY <3>1, <3>2 DEF HandlesRight, TypeOK
  <2>2. CASE cpc' = [cpc EXCEPT ![c] = "gone"] /\ UNCHANGED backlog
    <3>1. cpc' \in [Clients -> {"start", "pause", "write", "gone"}]
      BY <2>2 DEF HandlesRight, TypeOK
    <3> QED BY <2>2, <3>1 DEF HandlesRight, TypeOK
  <2> QED BY <2>1, <2>2
<1>2. HandlesRight'
  BY <1>1 DEF HandlesRight, Goes
<1>3. ClientsInv'
  <2>1. \A d \in Clients : Accepted(d)' <=> Accepted(d)
    BY DEF Accepted
  <2>2. CASE UNCHANGED backlog
    BY <2>1, <2>2 DEF ClientsInv, Waits, HandlesRight, TypeOK
  <2>3. CASE backlog' = Append(backlog, c) /\ cpc' = [cpc EXCEPT ![c] = "pause"]
    <3>1. backlog \in Seq(Clients)
      BY DEF HandlesRight, TypeOK
    <3>2. \A d \in Clients : Waits(d)' <=> Waits(d) \/ d = c
      BY <2>3, <3>1 DEF Waits
    <3>3. \A i \in DOMAIN backlog : backlog[i] # c
      BY DEF ClientsInv, Waits
    <3>4. \A i, j \in DOMAIN backlog' : backlog'[i] = backlog'[j] => i = j
      BY <2>3, <3>1, <3>3 DEF ClientsInv
    <3>5. \A d \in Clients : cpc'[d] = "start" <=> cpc[d] = "start" /\ d # c
      BY <2>3 DEF HandlesRight, TypeOK
    <3> QED BY <2>1, <3>2, <3>4, <3>5 DEF ClientsInv
  <2> QED BY <2>2, <2>3
<1>4. FdsInv'
  BY DEF FdsInv, FreeFds, Goes
<1>5. ReadInv'
  BY DEF ReadInv, Goes
<1> QED BY <1>2, <1>3, <1>4, <1>5

(* The other steps of a client only touch its own program and the bytes.   *)
LEMMA ClientStep ==
    ASSUME SocketInv, NEW c \in Clients, cpc[c] # "start",
           \E v \in {"pause", "write", "gone"} : cpc' = [cpc EXCEPT ![c] = v],
           left' \in [Clients -> 0 .. RecLen], closing' \in [Clients -> BOOLEAN],
           avail' \in [Clients -> 0 .. Room],
           UNCHANGED <<bounds, fds, backlog, lib, server, off>>
    PROVE  SocketInv'
<1> USE DEF SocketInv, lib, server, bounds
<1>1. TypeOK'
  <2>1. cpc' \in [Clients -> {"start", "pause", "write", "gone"}]
    BY DEF HandlesRight, TypeOK
  <2> QED BY <2>1 DEF HandlesRight, TypeOK
<1>2. HandlesRight'
  BY <1>1 DEF HandlesRight, Goes
<1>3. ClientsInv'
  <2>1. \A d \in Clients : cpc'[d] = "start" => cpc[d] = "start"
    BY DEF HandlesRight, TypeOK
  <2>2. \A d : (Accepted(d)' <=> Accepted(d)) /\ (Waits(d)' <=> Waits(d))
    BY DEF Accepted, Waits
  <2> QED BY <2>1, <2>2 DEF ClientsInv
<1>4. FdsInv'
  BY DEF FdsInv, FreeFds, Goes
<1>5. ReadInv'
  BY DEF ReadInv, Goes
<1> QED BY <1>2, <1>3, <1>4, <1>5

(* A client begins a record. *)
LEMMA SendStep ==
    ASSUME SocketInv, NEW c \in Clients, Send(c) PROVE SocketInv'
<1>1. left' \in [Clients -> 0 .. RecLen] /\ closing' \in [Clients -> BOOLEAN]
  BY CobSocketAssumption DEF SocketInv, HandlesRight, TypeOK, Send
<1>2. avail' \in [Clients -> 0 .. Room] /\ UNCHANGED <<bounds, fds, backlog, lib, server, off>>
  BY DEF SocketInv, HandlesRight, TypeOK, Send, kernel
<1>3. cpc[c] # "start" /\ cpc' = [cpc EXCEPT ![c] = "write"]
  BY DEF Send
<1> QED BY <1>1, <1>2, <1>3, ClientStep

(* A client writes some bytes. *)
LEMMA WriteStep ==
    ASSUME SocketInv, NEW c \in Clients, Write(c) PROVE SocketInv'
<1> USE CobSocketAssumption
<1>1. TypeOK
  BY DEF SocketInv, HandlesRight
<1>2. PICK n \in 1 .. left[c] :
          /\ avail[c] + n <= Room
          /\ avail' = [avail EXCEPT ![c] = @ + n]
          /\ left' = [left EXCEPT ![c] = @ - n]
          /\ \E v \in {"pause", "write", "gone"} : cpc' = [cpc EXCEPT ![c] = v]
  BY DEF Write
<1>3. left[c] \in 0 .. RecLen /\ avail[c] \in 0 .. Room
  BY <1>1 DEF TypeOK
<1>4. left[c] - n \in 0 .. RecLen /\ avail[c] + n \in 0 .. Room
  BY <1>2, <1>3
<1>5. left' \in [Clients -> 0 .. RecLen] /\ avail' \in [Clients -> 0 .. Room]
  BY <1>1, <1>2, <1>4 DEF TypeOK
<1>6. cpc[c] # "start" /\ closing' \in [Clients -> BOOLEAN]
  BY <1>1 DEF Write, TypeOK
<1>7. UNCHANGED <<bounds, fds, backlog, lib, server, off>>
  BY DEF Write
<1> QED BY <1>2, <1>5, <1>6, <1>7, ClientStep

(* A client dies. *)
LEMMA KillStep ==
    ASSUME SocketInv, NEW c \in Clients, Kill(c) PROVE SocketInv'
<1>1. left' \in [Clients -> 0 .. RecLen] /\ closing' \in [Clients -> BOOLEAN]
  BY CobSocketAssumption DEF SocketInv, HandlesRight, TypeOK, Kill
<1>2. avail' \in [Clients -> 0 .. Room] /\ UNCHANGED <<bounds, fds, backlog, lib, server, off>>
  BY DEF SocketInv, HandlesRight, TypeOK, Kill, kernel
<1>3. cpc[c] # "start" /\ cpc' = [cpc EXCEPT ![c] = "gone"]
  BY DEF Kill
<1> QED BY <1>1, <1>2, <1>3, ClientStep

-----------------------------------------------------------------------------
(* MULTISRV. *)

(* What a step that leaves the clients' programs and the backlog alone     *)
(* has to show, when no connection was accepted.                           *)
LEMMA NothingAccepted ==
    ASSUME SocketInv, UNCHANGED <<cpc, backlog>>,
           \A c \in Clients : Accepted(c)' => Accepted(c),
           \A c \in Clients : off'[c] = off[c] \/ Accepted(c)
    PROVE  ClientsInv'
<1>1. \A c : Waits(c)' <=> Waits(c)
  BY DEF Waits
<1> QED BY <1>1 DEF SocketInv, ClientsInv

(* The server opens its listening socket. *)
LEMMA OpenStep == ASSUME SocketInv, Open PROVE SocketInv'
<1> USE FdsAreNat, NoClient, RecLenType
<1> USE DEF SocketInv, lib, client, bounds
<1>1. /\ spc = "open" /\ TypeOK
      /\ UNCHANGED <<bounds, backlog, avail, lib, HNDL, resume, l_left, client, off>>
  BY DEF Open, HandlesRight
<1>2. CASE spc' = "stop" /\ UNCHANGED <<fds, LISTEN>>
  <2>1. TypeOK'
    BY <1>1, <1>2 DEF TypeOK
  <2>2. HandlesRight'
    BY <1>1, <1>2, <2>1 DEF HandlesRight, Goes
  <2>3. ClientsInv'
    BY <1>1, <1>2, NothingAccepted DEF Accepted
  <2>4. FdsInv' /\ ReadInv'
    BY <1>1, <1>2 DEF FdsInv, ReadInv, Goes
  <2> QED BY <2>2, <2>3, <2>4
<1>3. CASE fds' = [fds EXCEPT ![Smallest(FreeFds)] = "listen"]
             /\ LISTEN' = Smallest(FreeFds) /\ spc' = "next"
  <2>1. 1 \in FreeFds /\ 2 \in FreeFds
    <3>1. limit \in Nat /\ limit > 1 /\ 0 .. limit \subseteq Fds
      BY <1>1 DEF TypeOK
    <3>2. 1 \in 0 .. limit /\ 2 \in 0 .. limit
      BY <3>1
    <3>3. fds[1] = "free" /\ fds[2] = "free"
      BY <1>1, <3>1, <3>2 DEF FdsInv
    <3> QED BY <3>2, <3>3 DEF FreeFds
  <2>2. PICK f \in Fds : f = Smallest(FreeFds) /\ fds[f] = "free" /\ f <= limit
    BY <1>1, <2>1, GivenOut
  <2>3. TypeOK'
    BY <1>1, <1>3, <2>2 DEF TypeOK
  <2>4. \A g \in Fds : fds'[g] = fds[g] \/ (g = f /\ fds'[g] = "listen")
    BY <1>1, <1>3, <2>2 DEF TypeOK
  <2>5. fds'[f] = "listen"
    BY <1>1, <1>3, <2>2 DEF TypeOK
  <2>6. st_sockets = {g \in Fds : fds'[g] \in Clients} /\ \A g \in st_sockets : fds'[g] = fds[g]
    <3>1. st_sockets = {g \in Fds : fds[g] \in Clients}
      BY DEF HandlesRight
    <3>2. \A g \in Fds : fds'[g] \in Clients <=> fds[g] \in Clients
      BY <2>2, <2>4, <2>5
    <3>3. \A g \in st_sockets : fds'[g] = fds[g]
      BY <2>2, <2>4, <3>1
    <3> QED BY <3>1, <3>2, <3>3
  <2>7. HandlesRight'
    BY <1>1, <1>3, <2>2, <2>3, <2>5, <2>6 DEF HandlesRight, Goes
  <2>8. \A c \in Clients : Accepted(c)' => Accepted(c)
    BY <2>4 DEF Accepted
  <2>9. ClientsInv'
    BY <1>1, <2>8, NothingAccepted
  <2>10. FreeFds' # {}
    <3>1. PICK g \in FreeFds : g # f
      BY <2>1
    <3>2. g \in 0 .. limit /\ g \in Fds /\ fds[g] = "free"
      BY <1>1, <3>1 DEF FreeFds, TypeOK
    <3>3. fds'[g] = "free"
      BY <1>1, <1>3, <2>2, <3>1, <3>2 DEF TypeOK
    <3> QED BY <1>1, <3>2, <3>3 DEF FreeFds
  <2>11. FdsInv'
    <3>1. fds'[0] = "stdin" \/ fails > 0
      BY <1>1, <2>2, <2>4, ZeroIsFd DEF FdsInv, TypeOK
    <3>2. \A g \in Fds : fds'[g] # "free" => g <= limit
      BY <2>2, <2>4 DEF FdsInv
    <3> QED BY <1>1, <1>3, <2>2, <2>5, <2>10, <3>1, <3>2 DEF FdsInv, Goes
  <2>12. ReadInv'
    BY <1>1, <1>3, <2>6 DEF ReadInv, Goes
  <2> QED BY <2>7, <2>9, <2>11, <2>12
<1> QED BY <1>2, <1>3 DEF Open

(* What select looks at is the pool and the listening socket, and what is  *)
(* selected is one of them.                                                *)
LEMMA SelectedSocket ==
    ASSUME SocketInv, spc = "next", Ready # {}
    PROVE  /\ LISTEN \in Fds /\ fds[LISTEN] = "listen"
           /\ Selected(Ready) \in Ready /\ Ready \subseteq Sockets
           /\ Selected(Ready) # LISTEN => Selected(Ready) \in st_sockets
<1>1. LISTEN \in Fds /\ fds[LISTEN] = "listen"
  BY DEF SocketInv, HandlesRight, FdsInv
<1>2. Ready \in SUBSET Nat
  BY <1>1, FdsAreNat DEF SocketInv, HandlesRight, TypeOK, Ready, Sockets
<1>3. Selected(Ready) \in Ready
  BY <1>2, SelectedIsReady
<1> QED BY <1>1, <1>3 DEF Ready, Sockets

(* What a step has to show that leaves the descriptors, the pool and the   *)
(* connections alone.                                                      *)
LEMMA ServerStep ==
    ASSUME SocketInv, spc \notin {"open", "stop"},
           UNCHANGED <<limit, fds, backlog, avail, st_sockets, LISTEN, client, off>>,
           fails' \in 0 .. MaxFails, fails' >= fails,
           HNDL' \in st_sockets \cup {HNDL}, lst_last_sock' \in Fds \cup {NoFd},
           spc' \in {"next", "error", "read", "close"}, resume' \in {"next", "read", "close"},
           l_left' \in 0 .. RecLen,
           (Goes("read") \/ Goes("close"))' =>
               HNDL' \in st_sockets \/ (fails' > 0 /\ HNDL' \in {0, NoFd}),
           Goes("close")' => HNDL' \in Fds /\ fds[HNDL'] # "free",
           ReadInv'
    PROVE  SocketInv'
<1>1. /\ TypeOK /\ st_sockets = {f \in Fds : fds[f] \in Clients}
      /\ \A f, g \in st_sockets : fds[f] = fds[g] => f = g
      /\ 0 \in st_sockets => fails > 0
  BY DEF SocketInv, HandlesRight
<1>2. fails \in Int /\ fails' \in Int
  BY <1>1, CobSocketAssumption DEF TypeOK
<1>3. TypeOK'
  <2>1. HNDL' \in Fds \cup {NoFd}
    BY <1>1 DEF TypeOK
  <2> QED BY <1>1, <2>1 DEF TypeOK, client
<1>4. HandlesRight'
  <2>1. 0 \in st_sockets' => fails' > 0
    BY <1>1, <1>2
  <2> QED BY <1>1, <1>3, <2>1 DEF HandlesRight
<1>5. ClientsInv'
  BY NothingAccepted DEF Accepted, client
<1>6. FdsInv'
  <2>1. fds[0] = "stdin" \/ fails' > 0
    BY <1>2 DEF SocketInv, FdsInv
  <2>2. FreeFds' = FreeFds
    BY DEF FreeFds
  <2> QED BY <2>1, <2>2 DEF SocketInv, FdsInv
<1> QED BY <1>4, <1>5, <1>6 DEF SocketInv

(* What the invariant says of the handle, in the terms of that lemma.      *)
LEMMA HandleFacts ==
    ASSUME SocketInv
    PROVE  /\ fails \in 0 .. MaxFails /\ fails >= fails /\ lst_last_sock \in Fds \cup {NoFd}
           /\ l_left \in 0 .. RecLen /\ resume \in {"next", "read", "close"}
           /\ HNDL \in st_sockets \cup {0, NoFd}
           /\ Goes("read") \/ Goes("close") => HNDL \in st_sockets \/ (fails > 0 /\ HNDL \in {0, NoFd})
           /\ Goes("close") => HNDL \in Fds /\ fds[HNDL] # "free"
           /\ st_sockets \subseteq Fds
<1>1. fails \in 0 .. MaxFails /\ fails >= fails
  BY CobSocketAssumption DEF SocketInv, HandlesRight, TypeOK
<1> QED BY <1>1 DEF SocketInv, HandlesRight, TypeOK, FdsInv

(* Function 10 delivers a connection that holds data. *)
LEMMA NextReadStep == ASSUME SocketInv, NextRead PROVE SocketInv'
<1> USE RecLenType DEF kernel, client, bounds
<1>1. /\ spc = "next" /\ HNDL' = Selected(Ready) /\ lst_last_sock' = Selected(Ready)
      /\ spc' = "read" /\ l_left' = RecLen
      /\ UNCHANGED <<kernel, st_sockets, LISTEN, resume, client, off>>
  BY DEF NextRead, Wait
<1>2. Selected(Ready) \in st_sockets
  BY <1>1, SelectedSocket DEF NextRead
<1>3. ReadInv'
  <2>1. \A f \in st_sockets \ {0} : off[fds[f]] = 0
    BY <1>1 DEF SocketInv, ReadInv, Goes
  <2> QED BY <1>1, <1>2, <2>1 DEF ReadInv, Goes
<1> QED BY <1>1, <1>2, <1>3, HandleFacts, ServerStep DEF Goes

(* A descriptor is given to the connection that has waited longest, from   *)
(* which nothing has been read yet.                                        *)
LEMMA NextAcceptStep == ASSUME SocketInv, NextAccept PROVE SocketInv'
<1> USE FdsAreNat, NoClient, RecLenType
<1> USE DEF SocketInv, kernel, client, bounds
<1>1. /\ spc = "next" /\ spc' = "read" /\ l_left' = RecLen /\ backlog' = Tail(backlog)
      /\ Ready # {} /\ Selected(Ready) = LISTEN /\ FreeFds # {}
      /\ UNCHANGED <<bounds, avail, lst_last_sock, LISTEN, resume, client, off>>
  BY DEF NextAccept, Wait
<1>2. /\ TypeOK /\ st_sockets = {f \in Fds : fds[f] \in Clients}
      /\ fds[LISTEN] = "listen" /\ LISTEN \in Fds
      /\ \A f, g \in st_sockets : fds[f] = fds[g] => f = g
  BY <1>1 DEF HandlesRight, FdsInv
<1>3. PICK f \in Fds : f = Smallest(FreeFds) /\ fds[f] = "free" /\ f <= limit
  BY <1>1, <1>2, GivenOut
<1>4. backlog # <<>>
  BY <1>1, <1>2, SelectedSocket DEF Ready, Readable
<1>5. backlog \in Seq(Clients) /\ Len(backlog) > 0
  BY <1>2, <1>4 DEF TypeOK
<1>6. PICK c \in Clients : c = Head(backlog) /\ c = backlog[1]
  BY <1>5
<1>7. /\ fds' = [fds EXCEPT ![f] = c] /\ HNDL' = f /\ st_sockets' = st_sockets \cup {f}
  BY <1>3, <1>6 DEF NextAccept
<1>8. TypeOK'
  <2>1. fds' \in [Fds -> {"free", "stdin", "listen"} \cup Clients] /\ st_sockets' \subseteq Fds
    BY <1>2, <1>3, <1>7 DEF TypeOK
  <2>2. backlog' \in Seq(Clients)
    BY <1>1, <1>5
  <2>3. HNDL' \in Fds /\ l_left' \in 0 .. RecLen /\ spc' = "read"
    BY <1>1, <1>7
  <2> QED BY <1>1, <1>2, <2>1, <2>2, <2>3 DEF TypeOK
<1>9. fds'[f] = c /\ \A g \in Fds : g # f => fds'[g] = fds[g]
  BY <1>2, <1>7 DEF TypeOK
<1>10. Waits(c) /\ ~Accepted(c)
  <2>1. Waits(c)
    BY <1>5, <1>6 DEF Waits
  <2> QED BY <2>1 DEF ClientsInv
<1>11. f \notin st_sockets
  BY <1>2, <1>3
<1>12. HandlesRight'
  <2>1. st_sockets' = {g \in Fds : fds'[g] \in Clients}
    BY <1>2, <1>7, <1>9
  <2>2. \A g, h \in st_sockets' : fds'[g] = fds'[h] => g = h
    <3> SUFFICES ASSUME NEW g \in st_sockets', NEW h \in st_sockets', fds'[g] = fds'[h]
                 PROVE  g = h
      OBVIOUS
    <3>1. CASE g # f /\ h # f
      BY <1>2, <1>7, <1>9, <3>1
    <3>2. CASE g = f /\ h # f
      BY <1>2, <1>7, <1>9, <1>10, <3>2 DEF Accepted
    <3>3. CASE g # f /\ h = f
      BY <1>2, <1>7, <1>9, <1>10, <3>3 DEF Accepted
    <3> QED BY <3>1, <3>2, <3>3
  <2>3. fds'[LISTEN'] = "listen"
    BY <1>1, <1>2, <1>3, <1>9
  <2>4. 0 \in st_sockets' => fails > 0
    BY <1>3, <1>7 DEF HandlesRight, FdsInv
  <2> QED BY <1>1, <1>7, <1>8, <2>1, <2>2, <2>3, <2>4 DEF HandlesRight
<1>13. ClientsInv'
  <2>1. \A d \in Clients : Accepted(d)' <=> Accepted(d) \/ d = c
    BY <1>2, <1>3, <1>9 DEF Accepted
  <2>2. \A d \in Clients : Waits(d)' <=> Waits(d) /\ d # c
    <3>1. \A i \in DOMAIN backlog' : i + 1 \in DOMAIN backlog /\ backlog'[i] = backlog[i + 1]
      BY <1>1, <1>5
    <3>2. ASSUME NEW d \in Clients, Waits(d)' PROVE Waits(d) /\ d # c
      <4>1. PICK i \in DOMAIN backlog' : backlog'[i] = d
        BY <3>2 DEF Waits
      <4>2. i \in Nat /\ i >= 1
        BY <1>1, <1>5
      <4>3. i + 1 \in DOMAIN backlog /\ backlog[i + 1] = d /\ 1 \in DOMAIN backlog /\ i + 1 # 1
        BY <1>5, <3>1, <4>1, <4>2
      <4> QED BY <1>6, <4>3 DEF Waits, ClientsInv
    <3>3. ASSUME NEW d \in Clients, Waits(d), d # c PROVE Waits(d)'
      <4>1. PICK i \in DOMAIN backlog : backlog[i] = d
        BY <3>3 DEF Waits
      <4>2. i \in Nat /\ i > 1 /\ i <= Len(backlog)
        BY <1>5, <1>6, <3>3, <4>1
      <4>3. i - 1 \in DOMAIN backlog' /\ backlog'[i - 1] = backlog[i]
        BY <1>1, <1>5, <4>2
      <4> QED BY <4>1, <4>3 DEF Waits
    <3> QED BY <3>2, <3>3
  <2>3. \A i, j \in DOMAIN backlog' : backlog'[i] = backlog'[j] => i = j
    <3> SUFFICES ASSUME NEW i \in DOMAIN backlog', NEW j \in DOMAIN backlog',
                        backlog'[i] = backlog'[j]
                 PROVE  i = j
      OBVIOUS
    <3>1. i \in Nat /\ j \in Nat /\ i + 1 \in DOMAIN backlog /\ j + 1 \in DOMAIN backlog
      BY <1>1, <1>5
    <3>2. backlog[i + 1] = backlog[j + 1]
      BY <1>1, <1>5
    <3>3. i + 1 = j + 1
      BY <3>1, <3>2 DEF ClientsInv
    <3> QED BY <3>1, <3>3
  <2>4. cpc[c] # "start"
    BY <1>10 DEF ClientsInv
  <2> QED BY <1>1, <2>1, <2>2, <2>3, <2>4 DEF ClientsInv
<1>14. FdsInv'
  <2>1. fds'[0] = "stdin" \/ fails > 0
    BY <1>2, <1>3, <1>9, ZeroIsFd DEF FdsInv, TypeOK
  <2>2. \A g \in Fds : fds'[g] # "free" => g <= limit
    BY <1>3, <1>9 DEF FdsInv
  <2>3. fds'[LISTEN] = "listen"
    BY <1>2, <1>3, <1>9
  <2> QED BY <1>1, <1>2, <1>7, <2>1, <2>2, <2>3 DEF FdsInv, Goes
<1>15. ReadInv'
  <2>1. off[c] = 0
    BY <1>10 DEF ClientsInv
  <2>2. \A g \in st_sockets \ {0} : off[fds[g]] = 0 /\ fds'[g] = fds[g]
    BY <1>1, <1>2, <1>9, <1>11 DEF ReadInv, Goes
  <2> QED BY <1>1, <1>7, <1>9, <2>1, <2>2 DEF ReadInv, Goes
<1> QED BY <1>12, <1>13, <1>14, <1>15

(* No descriptor is free, so the handle MULTISRV has is still open: it     *)
(* closed none since it read from it.                                      *)
LEMMA NextAcceptFailsStep == ASSUME SocketInv, NextAcceptFails PROVE SocketInv'
<1> USE RecLenType DEF kernel, lib, client, bounds
<1>1. /\ spc = "next" /\ spc' = "error" /\ resume' = "read" /\ l_left' = RecLen /\ FreeFds = {}
      /\ UNCHANGED <<kernel, lib, LISTEN, HNDL, client, off>>
  BY DEF NextAcceptFails, Wait, Error
<1>2. HNDL \in st_sockets
  BY <1>1 DEF SocketInv, FdsInv
<1>3. ReadInv'
  <2>1. \A f \in st_sockets \ {0} : off[fds[f]] = 0
    BY <1>1 DEF SocketInv, ReadInv, Goes
  <2> QED BY <1>1, <1>2, <2>1 DEF ReadInv, Goes
<1> QED BY <1>1, <1>2, <1>3, HandleFacts, ServerStep DEF Goes

(* Another failure: the handle is that of a connection, 0, or none.        *)
LEMMA NextFailsStep == ASSUME SocketInv, NextFails PROVE SocketInv'
<1> USE RecLenType DEF kernel, lib, client
<1>1. /\ spc = "next" /\ spc' = "error" /\ resume' = "read" /\ l_left' = RecLen
      /\ fails < MaxFails /\ fails' = fails + 1
      /\ UNCHANGED <<limit, fds, backlog, avail, lib, LISTEN, HNDL, client, off>>
  BY DEF NextFails, Wait, Error
<1>2. fails' \in 0 .. MaxFails /\ fails' >= fails /\ fails' > 0
  BY <1>1, HandleFacts, CobSocketAssumption
<1>3. ReadInv'
  <2>1. \A f \in st_sockets \ {0} : off[fds[f]] = 0
    BY <1>1 DEF SocketInv, ReadInv, Goes
  <2> QED BY <1>1, <2>1 DEF ReadInv, Goes
<1> QED BY <1>1, <1>2, <1>3, HandleFacts, ServerStep DEF Goes

(* ENTER was pressed. *)
LEMMA HandleErrorStep == ASSUME SocketInv, HandleError PROVE SocketInv'
<1> USE RecLenType DEF kernel, lib, client, bounds
<1>1. /\ spc = "error" /\ spc' = resume
      /\ UNCHANGED <<kernel, lib, LISTEN, HNDL, resume, l_left, client, off>>
  BY DEF HandleError
<1>2. \A there : Goes(there)' => Goes(there)
  BY <1>1 DEF Goes
<1>3. ReadInv'
  <2>1. resume = "read" => Goes("read")
    BY <1>1 DEF Goes
  <2>2. resume = "close" => Goes("close") /\ Goes("close")'
    BY <1>1, HandleFacts DEF Goes
  <2> QED BY <1>1, <2>1, <2>2, HandleFacts DEF SocketInv, ReadInv, Goes
<1> QED BY <1>1, <1>2, <1>3, HandleFacts, ServerStep

(* Function 04 finds the end of a stream, or no descriptor. *)
LEMMA ReadStopsStep == ASSUME SocketInv, ReadEnd \/ ReadTerminalEnd \/ ReadRefused PROVE SocketInv'
<1> USE RecLenType DEF kernel, lib, client, bounds
<1>1. /\ spc = "read" /\ spc' = "error" /\ resume' \in {"close", "next"}
      /\ resume' = "close" => HNDL \in Fds /\ fds[HNDL] # "free"
      /\ resume' = "next" => HNDL \notin Fds \/ fds[HNDL] = "free"
      /\ UNCHANGED <<kernel, lib, LISTEN, HNDL, l_left, client, off>>
  BY NoClient DEF ReadEnd, ReadTerminalEnd, ReadRefused, OfTerminal, Error
<1>2. HNDL \in st_sockets => resume' = "close"
  BY <1>1, NoClient, HandleFacts DEF SocketInv, HandlesRight
<1>3. ReadInv'
  BY <1>1, <1>2 DEF SocketInv, ReadInv, Goes
<1> QED BY <1>1, <1>3, HandleFacts, ServerStep DEF Goes

(* Function 04 reads the standard input. *)
LEMMA ReadTerminalStep == ASSUME SocketInv, ReadTerminal PROVE SocketInv'
<1> USE RecLenType DEF kernel, lib, client, bounds
<1>1. PICK n \in 1 .. l_left :
          l_left' = l_left - n /\ spc' \in IF Whole(n) THEN {"close", "next"} ELSE {"read"}
  BY DEF ReadTerminal
<1>2. /\ spc = "read" /\ HNDL \in Fds /\ fds[HNDL] = "stdin"
      /\ UNCHANGED <<kernel, lib, LISTEN, HNDL, resume, client, off>>
  BY DEF ReadTerminal, OfTerminal
<1>3. l_left' \in 0 .. RecLen /\ (spc' = "read" => l_left' > 0) /\ spc' \in {"read", "close", "next"}
  BY <1>1, HandleFacts DEF Whole
<1>4. HNDL \notin st_sockets
  BY <1>2, NoClient DEF SocketInv, HandlesRight
<1>5. ReadInv'
  BY <1>2, <1>3, <1>4 DEF SocketInv, ReadInv, Goes
<1> QED BY <1>2, <1>3, <1>5, HandleFacts, ServerStep DEF Goes

(* Standard input is a connection, and accept reads from it. *)
LEMMA HandleErrorOfClientStep == ASSUME SocketInv, HandleErrorOfClient PROVE SocketInv'
<1> USE RecLenType
<1> USE DEF SocketInv, lib, client, bounds
<1>1. PICK c \in Clients : c = fds[0]
  BY DEF HandleErrorOfClient
<1>2. PICK n \in 0 .. avail[c] : /\ avail' = [avail EXCEPT ![c] = @ - n]
                                /\ off' = [off EXCEPT ![c] = (@ + n) % RecLen]
  BY <1>1 DEF HandleErrorOfClient
<1>3. /\ spc = "error" /\ spc' \in {"error", resume} /\ TypeOK
      /\ UNCHANGED <<bounds, fds, backlog, lib, LISTEN, HNDL, resume, l_left, client>>
  BY DEF HandleErrorOfClient, HandlesRight
<1>4. \A there : Goes(there)' => Goes(there)
  BY <1>3 DEF Goes
<1>5. TypeOK'
  <2>1. off[c] \in 0 .. RecLen - 1 /\ avail[c] \in 0 .. Room /\ Room \in Nat
    BY <1>3, CobSocketAssumption DEF TypeOK
  <2>2. (off[c] + n) % RecLen \in 0 .. RecLen - 1 /\ avail[c] - n \in 0 .. Room
    BY <1>2, <2>1
  <2>3. off' \in [Clients -> 0 .. RecLen - 1] /\ avail' \in [Clients -> 0 .. Room]
    BY <1>2, <1>3, <2>2 DEF TypeOK
  <2>4. spc' \in {"open", "next", "error", "read", "close", "stop"}
    BY <1>3 DEF TypeOK
  <2> QED BY <1>3, <2>3, <2>4 DEF TypeOK
<1>6. HandlesRight'
  <2>1. (Goes("read") \/ Goes("close"))' =>
            HNDL \in st_sockets \/ (fails > 0 /\ HNDL \in {0, NoFd})
    BY <1>4 DEF HandlesRight
  <2> QED BY <1>3, <1>5, <2>1 DEF HandlesRight
<1>7. 0 \in Fds /\ 0 \in st_sockets
  BY <1>1, <1>3, ZeroIsFd DEF TypeOK, HandlesRight
<1>8. ClientsInv'
  <2>1. \A d \in Clients : off'[d] = off[d] \/ Accepted(d)
    BY <1>1, <1>2, <1>3, <1>7 DEF TypeOK, Accepted
  <2> QED BY <1>3, <2>1, NothingAccepted DEF Accepted
<1>9. FdsInv'
  <2>1. FreeFds' = FreeFds
    BY <1>3 DEF FreeFds
  <2>2. spc' \notin {"open", "stop"}
    BY <1>3 DEF TypeOK
  <2> QED BY <1>3, <1>4, <2>1, <2>2 DEF FdsInv
<1>10. ReadInv'
  <2>1. \A f \in st_sockets \ {0} : off'[fds[f]] = off[fds[f]]
    BY <1>1, <1>2, <1>3, <1>7 DEF HandlesRight, TypeOK
  <2>2. resume = "read" => Goes("read")
    BY <1>3 DEF Goes
  <2>3. \A there : resume = there => Goes(there)'
    BY <1>3 DEF Goes
  <2> QED BY <1>3, <1>4, <2>1, <2>2, <2>3 DEF ReadInv, Goes
<1> QED BY <1>6, <1>8, <1>9, <1>10

(* A read takes bytes of the record it is in the middle of: what has been  *)
(* read and what function 04 still wants are one record together.          *)
LEMMA ReadStep == ASSUME SocketInv, Read PROVE SocketInv'
<1> USE FdsAreNat, NoClient, RecLenType
<1> USE DEF SocketInv, lib, client, bounds
<1>1. PICK c \in Clients : c = fds[HNDL]
  BY DEF Read
<1>2. PICK n \in 1 .. l_left :
          /\ n <= avail[c]
          /\ avail' = [avail EXCEPT ![c] = @ - n]
          /\ off' = [off EXCEPT ![c] = (@ + n) % RecLen]
          /\ l_left' = l_left - n
          /\ spc' = IF ~Whole(n) THEN "read"
                    ELSE IF closing[c] /\ left[c] = 0 /\ avail'[c] = 0 /\ off'[c] = 0
                    THEN "close" ELSE "next"
  BY <1>1 DEF Read
<1>3. /\ spc = "read" /\ HNDL \in Fds /\ TypeOK
      /\ UNCHANGED <<bounds, fds, backlog, lib, LISTEN, HNDL, resume, client>>
  BY DEF Read, HandlesRight
<1>4. /\ HNDL \in st_sockets
      /\ l_left > 0 /\ l_left \in 0 .. RecLen /\ off[c] \in 0 .. RecLen - 1
      /\ HNDL # 0 => off[c] = RecLen - l_left
  BY <1>1, <1>3 DEF HandlesRight, ReadInv, TypeOK, Goes
<1>5. \/ spc' = "read" /\ l_left' \in 1 .. RecLen
      \/ spc' \in {"close", "next"} /\ l_left' = 0
  BY <1>2, <1>4 DEF Whole
<1>6. off'[c] = (off[c] + n) % RecLen /\ \A d \in Clients : d # c => off'[d] = off[d]
  BY <1>2, <1>3 DEF TypeOK
(* The bytes that are read complete the record, or they do not. *)
<1>7. HNDL # 0 => off'[c] = IF spc' = "read" THEN RecLen - l_left' ELSE 0
  <2> HAVE HNDL # 0
  <2>1. CASE n < l_left
    <3>1. spc' = "read" /\ l_left' = l_left - n
      BY <1>2, <1>4, <2>1 DEF Whole
    <3>2. off[c] + n = RecLen - l_left' /\ RecLen - l_left' \in 0 .. RecLen - 1
      BY <1>2, <1>4, <3>1, <2>1
    <3> QED BY <1>6, <3>1, <3>2, WithinRecord
  <2>2. CASE n = l_left
    <3>1. spc' # "read"
      BY <1>2, <1>4, <2>2 DEF Whole
    <3>2. off[c] + n = RecLen /\ RecLen % RecLen = 0
      BY <1>4, <2>2
    <3> QED BY <1>6, <3>1, <3>2
  <2> QED BY <1>2, <1>4, <2>1, <2>2
<1>8. TypeOK'
  <2>1. off' \in [Clients -> 0 .. RecLen - 1]
    <3>1. (off[c] + n) % RecLen \in 0 .. RecLen - 1
      BY <1>4
    <3> QED BY <1>2, <1>3, <3>1 DEF TypeOK
  <2>2. avail' \in [Clients -> 0 .. Room]
    <3>1. avail[c] \in 0 .. Room /\ Room \in Nat
      BY <1>3, CobSocketAssumption DEF TypeOK
    <3>2. avail[c] - n \in 0 .. Room
      BY <1>2, <1>4, <3>1
    <3> QED BY <1>2, <1>3, <3>2 DEF TypeOK
  <2>3. spc' \in {"open", "next", "error", "read", "close", "stop"} /\ l_left' \in 0 .. RecLen
    BY <1>5
  <2> QED BY <1>3, <2>1, <2>2, <2>3 DEF TypeOK
<1>9. HandlesRight'
  BY <1>3, <1>4, <1>8 DEF HandlesRight
<1>10. ClientsInv'
  <2>1. Accepted(c)
    BY <1>1, <1>3 DEF Accepted
  <2>2. \A d \in Clients : off'[d] = off[d] \/ Accepted(d)
    BY <1>6, <2>1
  <2>3. \A d \in Clients : Accepted(d)' => Accepted(d)
    BY <1>3 DEF Accepted
  <2> QED BY <1>3, <2>2, <2>3, NothingAccepted
<1>11. FdsInv'
  <2>1. FreeFds' = FreeFds
    BY <1>3 DEF FreeFds
  <2>2. HNDL' \in Fds /\ fds'[HNDL'] # "free"
    BY <1>1, <1>3
  <2> QED BY <1>3, <1>4, <1>5, <2>1, <2>2 DEF FdsInv
<1>12. ReadInv'
  <2>1. \A f \in st_sockets \ {0} : f # HNDL => fds[f] \in Clients /\ fds[f] # c
    BY <1>1, <1>4 DEF HandlesRight
  <2>2. \A f \in st_sockets \ {0} : f # HNDL => off'[fds[f]] = 0
    BY <1>3, <1>6, <2>1 DEF ReadInv
  <2>3. spc' # "error" /\ (spc' = "read" => l_left' > 0)
    BY <1>5
  <2>4. HNDL # 0 => off'[fds[HNDL]] = IF spc' = "read" THEN RecLen - l_left' ELSE 0
    BY <1>1, <1>7
  <2> QED BY <1>3, <2>2, <2>3, <2>4 DEF ReadInv, Goes
<1> QED BY <1>9, <1>10, <1>11, <1>12

(* The connection leaves the pool, and its descriptor is free for the next.*)
LEMMA CloseStep == ASSUME SocketInv, Close PROVE SocketInv'
<1> USE FdsAreNat, NoClient, RecLenType
<1> USE DEF SocketInv, client, bounds
<1>1. /\ spc = "close" /\ spc' = "next" /\ HNDL' = 0
      /\ st_sockets' = st_sockets \ {HNDL} /\ fds' = [fds EXCEPT ![HNDL] = "free"]
      /\ UNCHANGED <<bounds, backlog, avail, lst_last_sock, LISTEN, resume, l_left, client, off>>
  BY DEF Close, Unpooled
<1>2. /\ TypeOK /\ st_sockets = {f \in Fds : fds[f] \in Clients}
      /\ HNDL \in Fds /\ fds[HNDL] # "free" /\ HNDL \in st_sockets \cup {0}
      /\ HNDL = 0 => fails > 0
      /\ fds[LISTEN] = "listen" /\ LISTEN \in Fds \ {0} /\ LISTEN # HNDL
      /\ \A f, g \in st_sockets : fds[f] = fds[g] => f = g
  BY <1>1 DEF HandlesRight, FdsInv, Goes
<1>3. fds'[HNDL] = "free" /\ \A g \in Fds : g # HNDL => fds'[g] = fds[g]
  BY <1>1, <1>2 DEF TypeOK
<1>4. 0 \in Fds
  BY <1>2, ZeroIsFd DEF TypeOK
<1>5. TypeOK'
  <2>1. fds' \in [Fds -> {"free", "stdin", "listen"} \cup Clients] /\ st_sockets' \subseteq Fds
    BY <1>1, <1>2 DEF TypeOK
  <2> QED BY <1>1, <1>2, <1>4, <2>1 DEF TypeOK
<1>6. HandlesRight'
  <2>1. st_sockets' = {g \in Fds : fds'[g] \in Clients}
    BY <1>1, <1>2, <1>3
  <2>2. \A f, g \in st_sockets' : fds'[f] = fds'[g] => f = g
    BY <1>1, <1>2, <1>3
  <2>3. 0 \in st_sockets' => fails > 0
    BY <1>1 DEF HandlesRight
  <2> QED BY <1>1, <1>5, <2>1, <2>2, <2>3 DEF HandlesRight, Goes
<1>7. ClientsInv'
  <2>1. \A c \in Clients : Accepted(c)' => Accepted(c)
    BY <1>2, <1>3 DEF Accepted
  <2> QED BY <1>1, <2>1, NothingAccepted
<1>8. FdsInv'
  <2>1. HNDL \in 0 .. limit
    BY <1>2 DEF FdsInv, TypeOK
  <2>2. FreeFds' # {}
    BY <1>1, <1>3, <2>1 DEF FreeFds
  <2>3. fds'[0] = "stdin" \/ fails > 0
    BY <1>2, <1>3, <1>4 DEF FdsInv
  <2>4. \A g \in Fds : fds'[g] # "free" => g <= limit
    BY <1>3 DEF FdsInv
  <2> QED BY <1>1, <1>2, <1>3, <2>2, <2>3, <2>4 DEF FdsInv, Goes
<1>9. ReadInv'
  <2>1. \A f \in st_sockets' \ {0} : f # HNDL /\ fds'[f] = fds[f]
    BY <1>1, <1>2, <1>3
  <2> QED BY <1>1, <2>1 DEF ReadInv, Goes
<1> QED BY <1>6, <1>7, <1>8, <1>9

-----------------------------------------------------------------------------
(* The theorems. *)

LEMMA NextSocket == SocketInv /\ [Next]_vars => SocketInv'
<1> SUFFICES ASSUME SocketInv, [Next]_vars PROVE SocketInv'
  OBVIOUS
<1>1. CASE Server
  BY <1>1, OpenStep, NextReadStep, NextAcceptStep, NextAcceptFailsStep, ReadStep, ReadStopsStep,
     CloseStep DEF Server
<1>2. CASE NextFails \/ Terminal
  BY <1>2, NextFailsStep, HandleErrorStep, HandleErrorOfClientStep, ReadTerminalStep,
     ReadStopsStep DEF Terminal
<1>3. ASSUME NEW c \in Clients, Client(c) \/ Kill(c) PROVE SocketInv'
  BY <1>3, ConnectStep, SendStep, WriteStep, KillStep DEF Client
<1>4. CASE UNCHANGED vars
  BY <1>4 DEF vars, kernel, bounds, lib, server, client, SocketInv, HandlesRight, TypeOK,
     ClientsInv, Accepted, Waits, FdsInv, FreeFds, ReadInv, Goes
<1> QED BY <1>1, <1>2, <1>3, <1>4 DEF Next

(* The invariant always holds. *)
LEMMA SocketInvAlways == Spec => []SocketInv
BY InitSocket, NextSocket, PTL DEF Spec

(* HandlesRight for every number of clients, every limit of descriptors,   *)
(* every number of failures of select and accept, and every way the kernel *)
(* cuts the streams: the pool of function 10 is what MULTISRV has accepted *)
(* and not closed, each connection once, and what it reads from and closes *)
(* is one of them, but for handle 0 or none after a failure that was not   *)
(* the want of a descriptor.                                               *)
THEOREM HandlesAlwaysRight == Spec => []HandlesRight
<1>1. SocketInv => HandlesRight
  BY DEF SocketInv
<1> QED BY <1>1, SocketInvAlways, PTL

(* RecordsWhole: function 04 leaves every connection at the end of a       *)
(* record, in whatever parts the bytes came, but for a connection that got *)
(* the number of the standard input.                                       *)
THEOREM RecordsAlwaysWhole == Spec => []RecordsWhole
<1>1. SocketInv => RecordsWhole
  BY DEF SocketInv, ReadInv, RecordsWhole, Goes
<1> QED BY <1>1, SocketInvAlways, PTL

(* CallsAreRight: the errors 3 and 4 of function 10 do not come, and       *)
(* function 06 is called for a descriptor that is open, whatever failed    *)
(* before, and although function 04 may be called for none.                *)
THEOREM CallsAlwaysRight == Spec => []CallsAreRight
<1>1. SocketInv => CallsAreRight
  BY NoClient DEF SocketInv, HandlesRight, FdsInv, CallsAreRight, Sockets
<1> QED BY <1>1, SocketInvAlways, PTL
=============================================================================
