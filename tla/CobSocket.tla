----------------------------- MODULE CobSocket -----------------------------
(***************************************************************************)
(* CBL_GC_SOCKET (ipc/CBL_GC_SOCKET/cob_socket.cpp) between the programs   *)
(* of its sample_multi: MULTISRV, one thread that serves all connections   *)
(* with function 10 (next connection or next readable one), and any number *)
(* of CLIENTs.  The library keeps the pool of accepted connections and the *)
(* one it delivered last.                                                  *)
(*                                                                         *)
(* The kernel is external: descriptors are given out lowest first, a       *)
(* connection is a byte stream of bounded room, read and write may move    *)
(* any number of bytes, and the end of a stream is readable.  A record has *)
(* RecLen bytes.  Descriptor 0 is the standard input of the server.        *)
(***************************************************************************)
EXTENDS Integers, Sequences, FiniteSets

CONSTANTS
    Clients,   \* the processes that run CLIENT
    Limits,    \* the highest descriptors the server may be allowed
    RecLen,    \* BYTES and RECV
    Room,      \* bound: bytes of a connection the kernel buffers
    MaxFails   \* bound: calls of select or accept that fail, descriptors being free

ASSUME CobSocketAssumption ==
    /\ Limits \subseteq Nat \ {0, 1} /\ IsFiniteSet(Limits) /\ RecLen \in Nat \ {0} /\ Room \in Nat \ {0}
    /\ MaxFails \in Nat
    /\ Clients \cap {"free", "stdin", "listen"} = {}

VARIABLES
    limit,     \* external: the highest descriptor the server may have
    fds,       \* external: what each descriptor of the server is
    fails,     \* external: how often select or accept failed
    backlog,   \* external: connections nobody has accepted yet
    avail,     \* external: bytes of each connection that wait to be read
    st_sockets,     \* the pool
    lst_last_sock,  \* the connection function 10 delivered last
    LISTEN, HNDL,   \* the handles of MULTISRV
    spc,       \* where MULTISRV is
    resume,    \* where handle-error returns to
    l_left,    \* bytes function 04 still wants
    cpc,       \* where each CLIENT is
    left,      \* bytes function 03 has still to write
    closing,   \* the record being written, or written last, says 'close'
    off        \* history: bytes read of each connection, modulo RecLen

bounds == <<limit, fails>>
kernel == <<bounds, fds, backlog, avail>>
lib    == <<st_sockets, lst_last_sock>>
server == <<LISTEN, HNDL, spc, resume, l_left>>
client == <<cpc, left, closing>>
vars   == <<kernel, lib, server, client, off>>

Fds == UNION {0 .. n : n \in Limits}
NoFd == -1   \* a handle that was never given out

Init ==
    /\ limit \in Limits /\ fails = 0
    /\ fds = [f \in Fds |-> IF f = 0 THEN "stdin" ELSE "free"]
    /\ backlog = <<>> /\ avail = [c \in Clients |-> 0]
    /\ st_sockets = {} /\ lst_last_sock = NoFd
    /\ LISTEN = NoFd /\ HNDL = NoFd
    /\ spc = "open" /\ resume = "next" /\ l_left = 0
    /\ cpc = [c \in Clients |-> "start"] /\ left = [c \in Clients |-> 0]
    /\ closing = [c \in Clients |-> FALSE]
    /\ off = [c \in Clients |-> 0]

Smallest(S) == CHOOSE m \in S : \A n \in S : m <= n
FreeFds == {f \in 0 .. limit : fds[f] = "free"}
Finished(c) == cpc[c] = "gone"
(* A read of the descriptor would not block. *)
Readable(f) ==
    \/ fds[f] = "listen" /\ backlog # <<>>
    \/ fds[f] \in Clients /\ (avail[fds[f]] > 0 \/ Finished(fds[f]))

-----------------------------------------------------------------------------
(* CLIENT *)

(* Function 02; an error ends the program. *)
Connect(c) ==
    /\ cpc[c] = "start"
    /\ IF \E f \in Fds : fds[f] = "listen"
       THEN cpc' = [cpc EXCEPT ![c] = "pause"] /\ backlog' = Append(backlog, c)
       ELSE cpc' = [cpc EXCEPT ![c] = "gone"] /\ UNCHANGED backlog
    /\ UNCHANGED <<bounds, fds, avail, lib, server, left, closing, off>>

(* The next record: its client number, or 'close' at last. *)
Send(c) ==
    /\ cpc[c] = "pause"
    /\ cpc' = [cpc EXCEPT ![c] = "write"]
    /\ left' = [left EXCEPT ![c] = RecLen]
    /\ \E last \in BOOLEAN : closing' = [closing EXCEPT ![c] = last]
    /\ UNCHANGED <<kernel, lib, server, off>>

(* Function 03, one write.  When nothing is left the return code compares  *)
(* the length of the last write with that of the record: a record sent in  *)
(* two writes is told to be short, and the program stops.                  *)
Write(c) ==
    /\ cpc[c] = "write"
    /\ \E l_written \in 1 .. left[c] :
          /\ avail[c] + l_written <= Room
          /\ avail' = [avail EXCEPT ![c] = @ + l_written]
          /\ left' = [left EXCEPT ![c] = @ - l_written]
          /\ cpc' = [cpc EXCEPT ![c] =
                        IF left'[c] > 0 THEN "write"
                        ELSE IF l_written < RecLen \/ closing[c] THEN "gone"
                        ELSE "pause"]
    /\ UNCHANGED <<bounds, fds, backlog, lib, server, closing, off>>

(* The process is stopped: the kernel closes its end.  A 'close' it was in *)
(* the middle of never arrives.                                            *)
Kill(c) ==
    /\ cpc[c] \in {"pause", "write"}
    /\ cpc' = [cpc EXCEPT ![c] = "gone"]
    /\ left' = [left EXCEPT ![c] = 0]
    /\ closing' = [closing EXCEPT ![c] = FALSE]
    /\ UNCHANGED <<kernel, lib, server, off>>

-----------------------------------------------------------------------------
(* MULTISRV.  After any error but a failed open it goes on, when ENTER was *)
(* pressed.  The errors 3 and 4 of function 10 and those of function 06    *)
(* have no action: CallsAreRight says that they do not come.               *)

Error(there) == spc' = "error" /\ resume' = there

(* handle-error: "Press ENTER to go on".  Standard input may be closed.    *)
HandleError ==
    /\ spc = "error" /\ fds[0] \notin Clients
    /\ spc' = resume
    /\ UNCHANGED <<kernel, lib, LISTEN, HNDL, resume, l_left, client, off>>

(* Or it is a connection by now, of which accept reads what it likes.      *)
HandleErrorOfClient ==
    /\ spc = "error" /\ fds[0] \in Clients
    /\ spc' \in {"error", resume}
    /\ LET c == fds[0]
       IN  \E n \in 0 .. avail[c] :
              /\ avail' = [avail EXCEPT ![c] = @ - n]
              /\ off' = [off EXCEPT ![c] = (@ + n) % RecLen]
    /\ UNCHANGED <<bounds, fds, backlog, lib, LISTEN, HNDL, resume, l_left, client>>

(* Function 00. *)
Open ==
    /\ spc = "open"
    /\ \/ LET f == Smallest(FreeFds)
          IN  fds' = [fds EXCEPT ![f] = "listen"] /\ LISTEN' = f /\ spc' = "next"
       \/ spc' = "stop" /\ UNCHANGED <<fds, LISTEN>>
    /\ UNCHANGED <<bounds, backlog, avail, lib, HNDL, resume, l_left, client, off>>

(* Mutation: the search begins with the lowest descriptor. *)
SelectedLowest(ready) == Smallest(ready)

(* _cobsocket_selectread: the first readable socket after the one that was *)
(* delivered last, and around; from the lowest one if that was closed.     *)
Selected(ready) ==
    LET after == {f \in ready : f > lst_last_sock}
    IN  IF lst_last_sock \in st_sockets \cup {LISTEN} /\ after # {}
        THEN Smallest(after) ELSE Smallest(ready)

Sockets == st_sockets \cup {LISTEN}
Ready == {f \in Sockets : Readable(f)}
(* _cobsocket_next_read, up to select. *)
Wait == spc = "next" /\ LISTEN \notin st_sockets /\ \A f \in Sockets : fds[f] # "free"

(* Function 10 delivers a connection of the pool.  When none is readable   *)
(* it waits; a timeout makes MULTISRV call it again.                       *)
NextRead ==
    /\ Wait /\ Ready # {} /\ Selected(Ready) # LISTEN
    /\ HNDL' = Selected(Ready) /\ lst_last_sock' = Selected(Ready)
    /\ spc' = "read" /\ l_left' = RecLen
    /\ UNCHANGED <<kernel, st_sockets, LISTEN, resume, client, off>>

(* Function 10 accepts a connection. *)
NextAccept ==
    /\ Wait /\ Ready # {} /\ Selected(Ready) = LISTEN
    /\ FreeFds # {}
    /\ LET f == Smallest(FreeFds)
       IN  /\ fds' = [fds EXCEPT ![f] = Head(backlog)]
           /\ HNDL' = f
           /\ st_sockets' = st_sockets \cup {f}
    /\ backlog' = Tail(backlog)
    /\ spc' = "read" /\ l_left' = RecLen
    /\ UNCHANGED <<bounds, avail, lst_last_sock, LISTEN, resume, client, off>>

(* accept has no descriptor left: 98.  MULTISRV shows the error and reads  *)
(* from the handle it has.                                                 *)
NextAcceptFails ==
    /\ Wait /\ Ready # {} /\ Selected(Ready) = LISTEN
    /\ FreeFds = {}
    /\ Error("read") /\ l_left' = RecLen
    /\ UNCHANGED <<kernel, lib, LISTEN, HNDL, client, off>>

(* select or accept fails for another reason: also 98.  The handle may be  *)
(* the 0 that function 06 left, or none at all.                            *)
NextFails ==
    /\ Wait /\ fails < MaxFails
    /\ fails' = fails + 1
    /\ Error("read") /\ l_left' = RecLen
    /\ UNCHANGED <<limit, fds, backlog, avail, lib, LISTEN, HNDL, client, off>>

(* Mutation: one read is enough. *)
WholeOrAny(n) == TRUE

(* Function 04 goes on until it has as many bytes as it was asked for. *)
Whole(n) == n = l_left

(* Function 04, one read. *)
Read ==
    /\ spc = "read" /\ HNDL \in Fds /\ fds[HNDL] \in Clients
    /\ LET c == fds[HNDL]
       IN  \E n \in 1 .. l_left :
              /\ n <= avail[c]
              /\ avail' = [avail EXCEPT ![c] = @ - n]
              /\ off' = [off EXCEPT ![c] = (@ + n) % RecLen]
              /\ l_left' = l_left - n
              /\ spc' = IF ~Whole(n) THEN "read"
                        ELSE IF closing[c] /\ left[c] = 0 /\ avail'[c] = 0 /\ off'[c] = 0
                        THEN "close" ELSE "next"
    /\ UNCHANGED <<bounds, fds, backlog, lib, LISTEN, HNDL, resume, client>>

(* The other side closed: 2. *)
ReadEnd ==
    /\ spc = "read" /\ HNDL \in Fds /\ fds[HNDL] \in Clients
    /\ avail[fds[HNDL]] = 0 /\ Finished(fds[HNDL])
    /\ Error("close")
    /\ UNCHANGED <<kernel, lib, LISTEN, HNDL, l_left, client, off>>

(* The handle is 0 and function 04 reads the standard input: what was      *)
(* typed may be 'close', and 2 is the end of the input.                    *)
OfTerminal == spc = "read" /\ HNDL \in Fds /\ fds[HNDL] = "stdin"

ReadTerminal ==
    /\ OfTerminal
    /\ \E n \in 1 .. l_left :
          /\ l_left' = l_left - n
          /\ spc' \in IF Whole(n) THEN {"close", "next"} ELSE {"read"}
    /\ UNCHANGED <<kernel, lib, LISTEN, HNDL, resume, client, off>>

ReadTerminalEnd ==
    /\ OfTerminal
    /\ Error("close")
    /\ UNCHANGED <<kernel, lib, LISTEN, HNDL, l_left, client, off>>

(* No descriptor has that number: 3.                                       *)
ReadRefused ==
    /\ spc = "read" /\ ~ (HNDL \in Fds /\ fds[HNDL] # "free")
    /\ Error("next")
    /\ UNCHANGED <<kernel, lib, LISTEN, HNDL, l_left, client, off>>

(* Mutation: a closed connection stays in the pool. *)
UnpooledNot(f) == st_sockets

(* _cobsocket_remove *)
Unpooled(f) == st_sockets \ {f}

(* Function 06: out of the pool first; the handle becomes 0. *)
Close ==
    /\ spc = "close"
    /\ st_sockets' = Unpooled(HNDL)
    /\ fds' = [fds EXCEPT ![HNDL] = "free"]
    /\ HNDL' = 0
    /\ spc' = "next"
    /\ UNCHANGED <<bounds, backlog, avail, lst_last_sock, LISTEN, resume, l_left, client, off>>

-----------------------------------------------------------------------------
Server == Open \/ NextRead \/ NextAccept \/ NextAcceptFails
              \/ Read \/ ReadEnd \/ ReadRefused \/ Close
Terminal == HandleError \/ HandleErrorOfClient \/ ReadTerminal \/ ReadTerminalEnd
Client(c) == Connect(c) \/ Send(c) \/ Write(c)

Next == Server \/ NextFails \/ Terminal \/ \E c \in Clients : Client(c) \/ Kill(c)

(* Both programs go on; nobody has to be killed, nothing has to fail, and  *)
(* nobody has to be at the terminal.                                       *)
Fairness == WF_vars(Server) /\ \A c \in Clients : WF_vars(Client(c))

Spec == Init /\ [][Next]_vars /\ Fairness

-----------------------------------------------------------------------------
(* Properties *)

TypeOK ==
    /\ limit \in Limits /\ fds \in [Fds -> {"free", "stdin", "listen"} \cup Clients]
    /\ backlog \in Seq(Clients) /\ avail \in [Clients -> 0 .. Room]
    /\ st_sockets \subseteq Fds /\ lst_last_sock \in Fds \cup {NoFd}
    /\ LISTEN \in Fds \cup {NoFd} /\ HNDL \in Fds \cup {NoFd}
    /\ spc \in {"open", "next", "error", "read", "close", "stop"}
    /\ resume \in {"next", "read", "close"}
    /\ l_left \in 0 .. RecLen /\ fails \in 0 .. MaxFails
    /\ cpc \in [Clients -> {"start", "pause", "write", "gone"}]
    /\ left \in [Clients -> 0 .. RecLen] /\ closing \in [Clients -> BOOLEAN]
    /\ off \in [Clients -> 0 .. RecLen - 1]

(* Where MULTISRV is going, the error shown. *)
Goes(there) == spc = there \/ (spc = "error" /\ resume = there)

(* The pool is what MULTISRV has accepted and not closed, each connection  *)
(* once.  What it reads from and closes is one of them, also when accept   *)
(* fails for want of a descriptor; only after another failure is it the 0  *)
(* of a closed connection, or no handle yet, and a connection the standard *)
(* input of the process.                                                   *)
HandlesRight ==
    /\ TypeOK
    /\ st_sockets = {f \in Fds : fds[f] \in Clients}
    /\ \A f, g \in st_sockets : fds[f] = fds[g] => f = g
    /\ Goes("read") \/ Goes("close") => HNDL \in st_sockets \/ (fails > 0 /\ HNDL \in {0, NoFd})
    /\ 0 \in st_sockets => fails > 0

(* Functions 10 and 06 are never called for what they refuse: the socket   *)
(* function 10 listens on is not in the pool (3), everything it waits for  *)
(* is open (4), and so is what function 06 closes, whatever failed before. *)
CallsAreRight ==
    /\ spc = "next" => LISTEN \in Fds \ st_sockets /\ \A f \in Sockets : fds[f] # "free"
    /\ Goes("close") => HNDL \in Fds /\ fds[HNDL] # "free"

(* Between two calls every open connection has been read up to the end of  *)
(* a record, however the kernel cut the stream: no record begins in the    *)
(* middle of another.  But for a connection that got the number of the     *)
(* standard input: accept reads from it.                                   *)
RecordsWhole ==
    spc = "next" => \A f \in st_sockets \ {0} : off[fds[f]] = 0

(* The server's descriptors of a connection. *)
Readers(c) == {f \in st_sockets : fds[f] = c}

(* A connection that has something to say is read at last, however busy    *)
(* the others are, and one that ended is closed...                         *)
Served ==
    \A c \in Clients :
        /\ (Readers(c) # {} /\ avail[c] > 0) ~> (spc = "read" /\ HNDL \in Readers(c))
        /\ (Readers(c) # {} /\ Finished(c)) ~> (Readers(c) = {})

(* The server waits for someone at the terminal; or, when the standard     *)
(* input has become a connection, for that client to send a line.          *)
AtTerminal == spc = "error" \/ OfTerminal

(* ... unless a client waits for ever that no descriptor is left for, or   *)
(* the server for ENTER.                                                   *)
ReadyIsServed ==
    <>[](backlog = <<>> \/ FreeFds # {}) /\ []<>(~ AtTerminal) => Served

(* documentation_en.odt, functions 09 and 10: "The newly connected socket  *)
(* connection or the connection that holds data is delivered", and of the  *)
(* connections "The number is theoretically not limited".  Violated when   *)
(* the process has no descriptor left, although somebody presses ENTER:    *)
(* function 10 tries to accept again and again, and delivers none of the   *)
(* connections that hold data.                                             *)
DataIsDelivered == []<>(~ AtTerminal) => Served
=============================================================================
