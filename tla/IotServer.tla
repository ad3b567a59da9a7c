------------------------------ MODULE IotServer ------------------------------
(***************************************************************************)
(* The message server of the vending machine: In_Progress/Server/          *)
(* iot_server.c.  One main thread accepts TCP connections and reads the    *)
(* first message of each, "[ID:PASSWD]"; one detached thread per accepted  *)
(* login reads "[TO]text" messages and routes them.  The threads share the *)
(* registration table client_info (one slot per known ID) and the count    *)
(* clnt_cnt; the mutex covers the two updates of the count and nothing     *)
(* else, so every other access of the table is a step of its own here.     *)
(*                                                                         *)
(* A step is one C statement that reads or writes what is shared: the      *)
(* table, the count, the descriptor table of the process, a socket.        *)
(* A session thread is named by the connection whose login created it.     *)
(***************************************************************************)
EXTENDS Integers, Sequences, FiniteSets

CONSTANTS
    Conn,        \* the TCP connections clients open, each opened once
    MAX_CLNT,    \* slots of client_info, and the limit on clnt_cnt
    FirstFd,     \* the lowest descriptor accept can return
    LastFd,      \* the highest one (the process's limit)
    CHAR,        \* values of the C type char, the type of MSG_INFO.fd (256)
    Logins,      \* the credentials clients present: [id : .., pw : BOOLEAN]
    Sends,       \* what clients send when logged in: [cmd : .., to : ..]
    MaxSend,     \* bound: messages the clients send after their logins
    NoConn       \* no connection

Slot == 0 .. MAX_CLNT - 1
NONE == -1                          \* the fd of a slot nobody is logged in at
Fd == FirstFd .. LastFd
Id == 0 .. MAX_CLNT                 \* MAX_CLNT: a name that is in no slot
Route == {"DIRECT", "ALLMSG", "GETTIME", "IDLIST"}
Answer == {"none", "accepted", "busy", "auth", "full", "eof"}

ASSUME ServerConstants ==
    /\ MAX_CLNT \in Nat \ {0}
    /\ FirstFd \in Nat /\ LastFd \in Nat /\ FirstFd <= LastFd
    /\ CHAR \in Nat \ {0}
    /\ MaxSend \in Nat
    /\ IsFiniteSet(Conn)
    /\ NoConn \notin Conn
    /\ Logins \subseteq [id : Id, pw : BOOLEAN]
    /\ Sends \subseteq [cmd : Route, to : Id]

(* What a client writes: message n of connection src, n = 0 being the login. *)
Message == [cmd : Route \cup {"LOGIN", "BADPW"}, to : Id, src : Conn, n : Nat]
(* What a client is sent: a server notice, or a message routed to it. *)
Delivery == [cmd : Route \cup {"LOGIN", "BADPW", "GREETING", "BUSY", "AUTH"},
             from : Id, to : Id, src : Conn, n : Nat, ids : SUBSET Slot]

(* A session's MSG_INFO with the loop index and the list of send_msg. *)
Request == [msg : Message \cup {NoConn}, fd : Int, next : 0 .. MAX_CLNT, ids : SUBSET Slot]
NoRequest == [msg |-> NoConn, fd |-> NONE, next |-> 0, ids |-> {}]

VARIABLES
    peer,      \* peer[c]: "idle", "open", "closed" (FIN) or "reset" (RST)
    sent,      \* sent[c]: how many messages client c wrote
    pending,   \* pending[c]: written by the client, not yet read by the server
    inbox,     \* inbox[c]: what the server delivered to the client
    alive,     \* FALSE once a write raised SIGPIPE, which the code leaves fatal
    backlog,   \* connections waiting for accept
    fdConn,    \* fdConn[f]: the connection open at descriptor f, or NoConn
    fdNum,     \* fdNum[c]: the descriptor accept returned for c, or NONE
    mainPc,    \* "accept", "check", "enter", "login", "kick" or "spawn"
    cur,       \* the connection main is busy with (clnt_sock = fdNum[cur])
    answer,    \* answer[c]: how main answered c (history)
    slot,      \* slot[c]: the slot whose ID c presented, or NONE
    refused,   \* slots refused as busy since they were last taken (history)
    slotFd,    \* slotFd[i]: client_info[i].fd
    clntCnt,   \* clnt_cnt
    pc,        \* pc[t]: the point of clnt_connection thread t is at
    on,        \* on[t]: the connection the read() of thread t is blocked on
    req        \* req[t]: its message, msg_info.fd, send_msg's i and idlist

Point == {"none", "read", "blocked", "parse", "route", "write", "reply",
          "close", "exit", "done"}

clients  == <<peer, sent, pending>>
output   == <<inbox, alive>>
kernel   == <<backlog, fdConn, fdNum>>
main     == <<mainPc, cur, answer, slot, refused>>
table    == <<slotFd, clntCnt>>
sessions == <<pc, on, req>>
vars     == <<clients, output, kernel, main, table, sessions>>

Init ==
    /\ peer = [c \in Conn |-> "idle"] /\ sent = [c \in Conn |-> 0]
    /\ pending = [c \in Conn |-> <<>>]
    /\ inbox = [c \in Conn |-> <<>>] /\ alive = TRUE
    /\ backlog = <<>>
    /\ fdConn = [f \in Fd |-> NoConn] /\ fdNum = [c \in Conn |-> NONE]
    /\ mainPc = "accept" /\ cur = NoConn
    /\ answer = [c \in Conn |-> "none"] /\ slot = [c \in Conn |-> NONE]
    /\ refused = {}
    /\ slotFd = [i \in Slot |-> NONE] /\ clntCnt = 0
    /\ pc = [t \in Conn |-> "none"] /\ on = [t \in Conn |-> NoConn]
    /\ req = [t \in Conn |-> NoRequest]

-----------------------------------------------------------------------------
(* Descriptors and sockets *)

FreeFd == {f \in Fd : fdConn[f] = NoConn}
ConnAt(f) == IF f \in Fd THEN fdConn[f] ELSE NoConn

(* MSG_INFO.fd is a char: the descriptor is cut to its low bits, signed. *)
AsChar(f) == ((f + CHAR \div 2) % CHAR) - CHAR \div 2

(* main has shut the write side of a connection it refused. *)
Shut(c) == answer[c] \in {"busy", "auth", "full", "eof"}

(* write(): it reaches an open peer, is lost at a closed one, fails on a bad *)
(* descriptor, and kills the process when the connection is broken.          *)
WriteTo(c, m) ==
    /\ inbox' = IF c # NoConn /\ ~Shut(c) /\ peer[c] = "open"
                  THEN [inbox EXCEPT ![c] = Append(@, m)] ELSE inbox
    /\ alive' = (c = NoConn \/ (~Shut(c) /\ peer[c] # "reset"))

(* read() on the socket of c reports the end of the stream, or an error. *)
AtEnd(c) == pending[c] = <<>> /\ peer[c] \in {"closed", "reset"}

Notice(kind, i) == [cmd |-> kind, from |-> i, to |-> i, src |-> cur, n |-> 0, ids |-> {}]

-----------------------------------------------------------------------------
(* Clients *)

Connect(c) ==
    /\ peer[c] = "idle"
    /\ peer' = [peer EXCEPT ![c] = "open"]
    /\ backlog' = Append(backlog, c)
    /\ UNCHANGED <<sent, pending, output, fdConn, fdNum, main, table, sessions>>

Put(c, cmd, to) ==
    /\ peer[c] = "open"
    /\ sent' = [sent EXCEPT ![c] = @ + 1]
    /\ pending' = [pending EXCEPT ![c] =
                     Append(@, [cmd |-> cmd, to |-> to, src |-> c, n |-> sent[c]])]
    /\ UNCHANGED <<peer, output, kernel, main, table, sessions>>

SendLogin(c) ==
    sent[c] = 0 /\ \E l \in Logins : Put(c, IF l.pw THEN "LOGIN" ELSE "BADPW", l.id)

(* A client speaks after its login only; bound: MaxSend messages in all. *)
Send(c) ==
    /\ answer[c] = "accepted"
    /\ Cardinality({p \in Conn \X (1 .. MaxSend) : p[2] < sent[p[1]]}) < MaxSend
    /\ \E s \in Sends : Put(c, s.cmd, s.to)

(* The client closes its end; with unread data, or on a later write to it, *)
(* the connection is reset and what the server had not read is gone.       *)
Close(c) ==
    /\ peer[c] = "open"
    /\ peer' = [peer EXCEPT ![c] = "closed"]
    /\ UNCHANGED <<sent, pending, output, kernel, main, table, sessions>>

Reset(c) ==
    /\ peer[c] = "closed"
    /\ peer' = [peer EXCEPT ![c] = "reset"]
    /\ pending' = [pending EXCEPT ![c] = <<>>]
    /\ UNCHANGED <<sent, output, kernel, main, table, sessions>>

Client(c) == Connect(c) \/ SendLogin(c) \/ Send(c) \/ Close(c) \/ Reset(c)

-----------------------------------------------------------------------------
(* main *)

TakeConnection(c) ==
    /\ alive /\ mainPc = "accept"
    /\ backlog # <<>> /\ c = Head(backlog) /\ backlog' = Tail(backlog)
    /\ \E f \in FreeFd :
         /\ \A g \in FreeFd : f <= g
         /\ fdConn' = [fdConn EXCEPT ![f] = c]
         /\ fdNum' = [fdNum EXCEPT ![c] = f]

FullLate == clntCnt > MAX_CLNT                                   \* mutant
Full == clntCnt >= MAX_CLNT

Accept(c) ==
    /\ TakeConnection(c)
    /\ mainPc' = "check" /\ cur' = c
    /\ UNCHANGED <<clients, output, answer, slot, refused, table, sessions>>

FinishRetries(kind) ==                                           \* mutant
    /\ answer' = [answer EXCEPT ![cur] = kind]
    /\ mainPc' = (IF kind = "auth" THEN "enter" ELSE "accept")
    /\ cur' = (IF kind = "auth" THEN cur ELSE NoConn)

(* The answer to the connection at hand; then main accepts the next one. *)
Finish(kind) ==
    /\ answer' = [answer EXCEPT ![cur] = kind]
    /\ mainPc' = "accept" /\ cur' = NoConn

(* main compares the count outside the mutex that guards it. *)
AcceptFull ==
    /\ alive /\ mainPc = "check"
    /\ Full
    /\ Finish("full")
    /\ UNCHANGED <<clients, output, kernel, slot, refused, table, sessions>>

Admit ==
    /\ alive /\ mainPc = "check"
    /\ ~Full
    /\ mainPc' = "enter"
    /\ UNCHANGED <<clients, output, kernel, cur, answer, slot, refused, table, sessions>>

(* main enters read(clnt_sock); it fails if a session closed the descriptor. *)
EnterLogin ==
    /\ alive /\ mainPc = "enter"
    /\ \/ ConnAt(fdNum[cur]) = NoConn /\ Finish("eof")
       \/ ConnAt(fdNum[cur]) # NoConn /\ mainPc' = "login" /\ UNCHANGED <<cur, answer>>
    /\ UNCHANGED <<clients, output, kernel, slot, refused, table, sessions>>

LoginEof ==
    /\ alive /\ mainPc = "login"
    /\ AtEnd(cur)
    /\ Finish("eof")
    /\ UNCHANGED <<clients, output, kernel, slot, refused, table, sessions>>

Login == Head(pending[cur])

(* The first message carries a name of the table; a message to be routed that *)
(* main takes for a login does so too, with a wrong password.                 *)
NamesSlot == Login.cmd \in {"LOGIN", "BADPW", "DIRECT"} /\ Login.to \in Slot

ReadLogin ==
    /\ alive /\ mainPc = "login"
    /\ pending[cur] # <<>>
    /\ pending' = [pending EXCEPT ![cur] = Tail(@)]
    /\ UNCHANGED <<peer, sent, kernel, sessions>>

LoginAuthError ==
    /\ ReadLogin
    /\ NamesSlot => slotFd[Login.to] = NONE /\ Login.cmd # "LOGIN"
    /\ WriteTo(ConnAt(fdNum[cur]), Notice("AUTH", MAX_CLNT))
    /\ Finish("auth")
    /\ UNCHANGED <<slot, refused, table>>

LoginBusy ==
    /\ ReadLogin
    /\ NamesSlot /\ slotFd[Login.to] # NONE
    /\ WriteTo(ConnAt(fdNum[cur]), Notice("BUSY", Login.to))
    /\ answer' = [answer EXCEPT ![cur] = "busy"]
    /\ slot' = [slot EXCEPT ![cur] = Login.to]
    /\ refused' = refused \cup {Login.to}
    /\ mainPc' = "kick"
    /\ UNCHANGED <<cur, table>>

EvictNobody(i)  == UNCHANGED table                                            \* mutant
EvictUncount(i) == slotFd' = [slotFd EXCEPT ![i] = NONE] /\ clntCnt' = clntCnt - 1 \* mutant

(* "for MCU": the slot is freed; the session that holds it is not told. *)
Evict(i) == slotFd' = [slotFd EXCEPT ![i] = NONE] /\ UNCHANGED clntCnt

Kick ==
    /\ alive /\ mainPc = "kick"
    /\ Evict(slot[cur])
    /\ Finish("busy")
    /\ UNCHANGED <<clients, output, kernel, slot, refused, sessions>>

Register ==
    /\ ReadLogin
    /\ NamesSlot /\ slotFd[Login.to] = NONE /\ Login.cmd = "LOGIN"
    /\ slotFd' = [slotFd EXCEPT ![Login.to] = fdNum[cur]]
    /\ clntCnt' = clntCnt + 1
    /\ answer' = [answer EXCEPT ![cur] = "accepted"]
    /\ slot' = [slot EXCEPT ![cur] = Login.to]
    /\ refused' = refused \ {Login.to}
    /\ mainPc' = "spawn"
    /\ UNCHANGED <<cur, output>>

Spawn ==
    /\ alive /\ mainPc = "spawn"
    /\ WriteTo(ConnAt(fdNum[cur]), Notice("GREETING", slot[cur]))
    /\ pc' = [pc EXCEPT ![cur] = "read"]
    /\ Finish("accepted")
    /\ UNCHANGED <<clients, kernel, slot, refused, table, on, req>>

Main == \/ \E c \in Conn : Accept(c)
        \/ AcceptFull \/ Admit \/ EnterLogin \/ LoginEof \/ LoginAuthError \/ LoginBusy \/ Kick
        \/ Register \/ Spawn

-----------------------------------------------------------------------------
(* Session threads: clnt_connection and send_msg *)

(* Thread t is at a point of the code, and goes on to another. *)
At(t, here) == alive /\ pc[t] = here
Goto(t, there) ==
    /\ pc' = [pc EXCEPT ![t] = there]
    /\ UNCHANGED <<peer, sent, backlog, fdNum, main>>

SessionRead(t) ==
    /\ At(t, "read")
    /\ LET c == ConnAt(slotFd[slot[t]]) IN
       \/ c = NoConn /\ Goto(t, "close") /\ UNCHANGED on
       \/ c # NoConn /\ Goto(t, "blocked") /\ on' = [on EXCEPT ![t] = c]
    /\ UNCHANGED <<pending, output, fdConn, table, req>>

ConsumeLess(c) == \E k \in 1 .. Len(pending[c]) :                  \* mutant
                    pending' = [pending EXCEPT ![c] = SubSeq(@, k, Len(@))]

(* One read() may return several messages; only the first is looked at. *)
Consume(c) == \E k \in 1 .. Len(pending[c]) :
                pending' = [pending EXCEPT ![c] = SubSeq(@, k + 1, Len(@))]

SessionReceive(t) ==
    /\ At(t, "blocked")
    /\ Consume(on[t])
    /\ Goto(t, "parse")
    /\ req' = [req EXCEPT ![t] = [NoRequest EXCEPT !.msg = Head(pending[on[t]])]]
    /\ on' = [on EXCEPT ![t] = NoConn]
    /\ UNCHANGED <<output, fdConn, table>>

(* The descriptor is taken from the slot again, after the read. *)
Fetch(t) ==
    /\ At(t, "parse")
    /\ Goto(t, IF req[t].msg.cmd = "GETTIME" THEN "reply" ELSE "route")
    /\ req' = [req EXCEPT ![t].fd = AsChar(slotFd[slot[t]])]
    /\ UNCHANGED <<pending, output, fdConn, table, on>>

SessionEof(t) ==
    /\ At(t, "blocked") /\ AtEnd(on[t])
    /\ Goto(t, "close")
    /\ on' = [on EXCEPT ![t] = NoConn]
    /\ UNCHANGED <<pending, output, fdConn, table, req>>

WantsNext(m, i) == m.cmd \in {"ALLMSG", "IDLIST"} \/ m.to + 1 = i  \* mutant

(* Does the loop of send_msg act on slot i for message m? *)
Wants(m, i) == \/ m.cmd \in {"ALLMSG", "IDLIST"}
               \/ m.cmd \in {"DIRECT", "LOGIN", "BADPW"} /\ m.to = i

Advance(t, found) == req' = [req EXCEPT ![t].next = @ + 1, ![t].ids = @ \cup found]

Scan(t) ==
    /\ At(t, "route") /\ req[t].next \in Slot
    /\ LET i == req[t].next
           m == req[t].msg
           hit == slotFd[i] # NONE /\ Wants(m, i) IN
       \/ ~hit /\ Goto(t, "route") /\ Advance(t, {})
       \/ hit /\ m.cmd = "IDLIST" /\ Goto(t, "route") /\ Advance(t, {i})
       \/ hit /\ m.cmd # "IDLIST" /\ Goto(t, "write") /\ UNCHANGED req
    /\ UNCHANGED <<pending, output, fdConn, table, on>>

RoutedSwapped(t) == [cmd |-> req[t].msg.cmd, from |-> req[t].msg.to, to |-> slot[t],
                     src |-> req[t].msg.src, n |-> req[t].msg.n, ids |-> {}]  \* mutant

Routed(t) == [cmd |-> req[t].msg.cmd, from |-> slot[t], to |-> req[t].msg.to,
              src |-> req[t].msg.src, n |-> req[t].msg.n, ids |-> req[t].ids]

WriteSlot(t) ==
    /\ At(t, "write")
    /\ Goto(t, "route")
    /\ WriteTo(ConnAt(slotFd[req[t].next]), Routed(t))
    /\ Advance(t, {})
    /\ UNCHANGED <<pending, fdConn, table, on>>

Scanned(i) == i = MAX_CLNT

ScanEnd(t) ==
    /\ At(t, "route") /\ Scanned(req[t].next)
    /\ \/ req[t].msg.cmd = "IDLIST" /\ Goto(t, "reply") /\ UNCHANGED req
       \/ req[t].msg.cmd # "IDLIST" /\ Goto(t, "read")
          /\ req' = [req EXCEPT ![t] = NoRequest]
    /\ UNCHANGED <<pending, output, fdConn, table, on>>

ReplyFdFirst(t) == slotFd[0]                                     \* mutant
ReplyFd(t) == req[t].fd

Reply(t) ==
    /\ At(t, "reply")
    /\ Goto(t, "read")
    /\ WriteTo(ConnAt(ReplyFd(t)), Routed(t))
    /\ req' = [req EXCEPT ![t] = NoRequest]
    /\ UNCHANGED <<pending, fdConn, table, on>>

CloseFdNot(fd) == UNCHANGED fdConn                               \* mutant
CloseFd(fd) == fdConn' = [f \in Fd |-> IF f = fd THEN NoConn ELSE fdConn[f]]

SessionClose(t) ==
    /\ At(t, "close")
    /\ Goto(t, "exit")
    /\ CloseFd(slotFd[slot[t]])
    /\ UNCHANGED <<pending, output, table, on, req>>

LeaveKeepsSlot(i)  == clntCnt' = clntCnt - 1 /\ UNCHANGED slotFd               \* mutant
LeaveKeepsCount(i) == slotFd' = [slotFd EXCEPT ![i] = NONE] /\ UNCHANGED clntCnt \* mutant

(* The critical section of the mutex. *)
Leave(i) == clntCnt' = clntCnt - 1 /\ slotFd' = [slotFd EXCEPT ![i] = NONE]

SessionExit(t) ==
    /\ At(t, "exit")
    /\ Goto(t, "done")
    /\ Leave(slot[t])
    /\ UNCHANGED <<pending, output, fdConn, on, req>>

Session(t) == \/ SessionRead(t) \/ SessionReceive(t) \/ SessionEof(t)
              \/ Fetch(t) \/ Scan(t) \/ WriteSlot(t) \/ ScanEnd(t) \/ Reply(t)
              \/ SessionClose(t) \/ SessionExit(t)

-----------------------------------------------------------------------------

Next == Main \/ (\E t \in Conn : Session(t)) \/ (\E c \in Conn : Client(c))

Spec == Init /\ [][Next]_vars

(* Every thread is scheduled, and a client that has connected presents its  *)
(* login (every client in the repository writes it right after connect).    *)
FairSpec == /\ Spec
            /\ WF_vars(Main)
            /\ \A t \in Conn : WF_vars(Session(t)) /\ WF_vars(SendLogin(t))

-----------------------------------------------------------------------------
(* Properties *)

(* Every variable stays in its range (the history variables included). *)
TypeOK ==
    /\ peer \in [Conn -> {"idle", "open", "closed", "reset"}]
    /\ sent \in [Conn -> Nat]
    /\ pending \in [Conn -> Seq(Message)]
    /\ inbox \in [Conn -> Seq(Delivery)]
    /\ alive \in BOOLEAN
    /\ backlog \in Seq(Conn)
    /\ fdConn \in [Fd -> Conn \cup {NoConn}]
    /\ fdNum \in [Conn -> Fd \cup {NONE}]
    /\ mainPc \in {"accept", "check", "enter", "login", "kick", "spawn"}
    /\ cur \in Conn \cup {NoConn}
    /\ answer \in [Conn -> Answer]
    /\ slot \in [Conn -> Slot \cup {NONE}]
    /\ refused \subseteq Slot
    /\ slotFd \in [Slot -> Fd \cup {NONE}]
    /\ clntCnt \in Int
    /\ pc \in [Conn -> Point]
    /\ on \in [Conn -> Conn \cup {NoConn}]
    /\ req \in [Conn -> Request]

(* The sessions clnt_cnt stands for: registered, and not yet unregistered. *)
Live == {t \in Conn : pc[t] \notin {"none", "done"} \/ (mainPc = "spawn" /\ t = cur)}

(* clnt_cnt is the number of live sessions in every interleaving of logins, *)
(* duplicate logins and disconnections: a kicked session is still counted   *)
(* and gives its unit back exactly once, when its thread ends (l. 153-157,  *)
(* 234-237; line 145 frees the slot and leaves the count alone).            *)
SessionCount == clntCnt = Cardinality(Live)

(* There are never more sessions than MAX_CLNT, although main compares the  *)
(* count long before, and outside the mutex that guards, its increment.     *)
NeverOverCapacity == Cardinality(Live) <= MAX_CLNT

Answered(kinds) == {c \in Conn : answer[c] \in kinds}

(* No login has met a taken slot so far. *)
NoDuplicate == Answered({"busy"}) = {}

(* While nobody logs in twice, the open sockets are exactly those of the     *)
(* sessions, of the login at hand and of the refused connections, which main *)
(* shuts but never closes: no session leaves its descriptor behind.          *)
FdAccounting ==
    NoDuplicate =>
      {fdConn[f] : f \in Fd} \ {NoConn} =
        {t \in Live : pc[t] # "exit"} \cup Answered({"full", "auth", "eof"})
        \cup (IF mainPc \in {"check", "enter", "login"} THEN {cur} ELSE {})

(* The retry of a client refused as "Already logged!" is not refused for the *)
(* same reason: no ID is found busy twice without a login in between.        *)
RetryAccepted == [][LoginBusy => Login.to \notin refused]_vars

(* A login found the slot of ID i taken. *)
Doubled(i) == \E c \in Answered({"busy"}) : slot[c] = i

(* An ID that nobody logged in twice as has one session, its slot holds that *)
(* session's descriptor, and without a session it is free, whatever happens  *)
(* to other IDs: a session that was kicked clears no slot but its own ID's   *)
(* (l. 200, 234-237).  While nobody logs in twice as any, the descriptor is  *)
(* the session's socket until its thread has closed it.                      *)
SlotNamesItsSession ==
    /\ \A t \in Live : ~Doubled(slot[t]) =>
         /\ slotFd[slot[t]] = fdNum[t]
         /\ \A u \in Live : slot[u] = slot[t] => u = t
    /\ \A i \in Slot : slotFd[i] # NONE /\ ~Doubled(i) => \E t \in Live : slot[t] = i
    /\ NoDuplicate => \A t \in Live : pc[t] # "exit" => fdConn[fdNum[t]] = t

Received(c) == {inbox[c][k] : k \in DOMAIN inbox[c]}

(* While nobody logs in twice, the [from] of a routed message is the ID the *)
(* connection it was read from logged in with, and no login is taken for a  *)
(* message: a session never reads a socket that is not its own, although    *)
(* descriptors are reused and the slot's fd is read anew at every message.  *)
AuthenticSender ==
    NoDuplicate =>
      \A c \in Conn : \A m \in Received(c) :
        /\ m.cmd \notin {"LOGIN", "BADPW"}
        /\ m.cmd \in Route => answer[m.src] = "accepted" /\ slot[m.src] = m.from

(* A login for ID i got the descriptor number that connection c has or had. *)
HadNumber(i, c) ==
    \E u \in Conn : answer[u] = "accepted" /\ slot[u] = i /\ fdNum[u] = fdNum[c]

(* A message for one ID reaches a client that is not logged in as that ID   *)
(* only through the reuse of a descriptor: a session of that ID had the     *)
(* number, closed it, and accept gave it to this client (l. 229-237).  So   *)
(* does an answer, if every descriptor fits the char that it is stored in.  *)
MisdeliveryOnlyByReuse ==
    \A c \in Conn : \A m \in Received(c) :
      /\ m.cmd = "DIRECT" => HadNumber(m.to, c)
      /\ m.cmd \in {"GETTIME", "IDLIST"} /\ LastFd < CHAR \div 2 => HadNumber(m.from, c)

(* Whoever logs in twice, what a session passes on or answers names an ID    *)
(* other than its sender's only through the reuse of a descriptor: a session *)
(* that was kicked reads the slot after the next session of its ID closed    *)
(* the number and accept gave it to another client (l. 202-226, 229-237).    *)
ImpersonationOnlyByReuse ==
    \A c \in Conn : \A m \in Received(c) :
      m.cmd \notin {"GREETING", "BUSY", "AUTH"} => HadNumber(m.from, m.src)

(* While nobody logs in twice, the answer to GETTIME and IDLIST goes to the *)
(* connection that asked, if its descriptor fits the char it is stored in.  *)
ReplyToAsker ==
    NoDuplicate =>
      \A c \in Conn : \A m \in Received(c) :
        m.cmd \in {"GETTIME", "IDLIST"} /\ fdNum[m.src] < CHAR \div 2 => m.src = c

(* While nobody logs in twice, a client gets the messages of one sender in   *)
(* the order they were sent, each once; an ALLMSG may arrive twice, when the *)
(* scan meets a descriptor in the slot of a session that has closed it and,  *)
(* reused, in the slot of its new owner.                                     *)
PerSenderOrder ==
    NoDuplicate =>
      \A c \in Conn : \A j, k \in DOMAIN inbox[c] :
        LET a == inbox[c][j]
            b == inbox[c][k]
        IN  j < k /\ {a.cmd, b.cmd} \subseteq Route /\ a.src = b.src =>
              a.n < b.n \/ (a = b /\ a.cmd = "ALLMSG")

(* Once every client that ever connected is gone, the threads all end and   *)
(* the count returns to zero, kicked sessions and shared slots included.    *)
AllGone == \A c \in Conn : peer[c] # "open"
Drains == AllGone ~> (clntCnt = 0 \/ ~AllGone \/ ~alive)

(* While nobody logs in twice, every connection is answered: the main thread *)
(* does not get stuck on the login of another.                               *)
EveryoneAnswered ==
    \A c \in Conn :
      peer[c] = "open" ~> (answer[c] # "none" \/ ~alive \/ ~NoDuplicate)

(* A connection that has no answer is in the queue of accept, or main is busy *)
(* with it: main drops none, whoever logs in twice.                           *)
NobodyForgotten ==
    \A c \in Conn :
      peer[c] # "idle" /\ answer[c] = "none" =>
        \/ c \in {backlog[k] : k \in DOMAIN backlog}
        \/ cur = c /\ mainPc \in {"check", "enter", "login"}
=============================================================================
