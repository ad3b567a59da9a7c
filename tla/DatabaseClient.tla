--------------------------- MODULE DatabaseClient ---------------------------
(***************************************************************************)
(* The client of the sales database:                                       *)
(* Databases/0920_Databases_with_Table_Graph_Client/iot_client_sensor.c.    *)
(* One thread reads the server's messages, stores sales and answers        *)
(* questions with the two products sold most; the other passes on what is  *)
(* typed at the console.  They share the descriptor *sock, which both set   *)
(* to -1, without synchronisation.                                         *)
(*                                                                         *)
(* Messages are named by their position in "sent".  The breed is left out: *)
(* it is stored with a sale and never selected by.                         *)
(***************************************************************************)
EXTENDS Integers, Sequences, FiniteSets

CONSTANTS
    ITEMS,        \* products with a column in the table
    Stored,       \* the tables the client may find
    MaxMessages   \* bound: messages the server sends

Idx == 0 .. ITEMS - 1
Message == [kind : {"DB"}, items : SUBSET Idx] \cup [kind : {"DB_RECO", "other"}, items : {{}}]

(* A row: the message it was made from, 0 for one that was there before. *)
Row == [from : Nat, items : SUBSET Idx]

ASSUME DatabaseConstants ==
    /\ ITEMS \in Nat /\ ITEMS >= 2
    /\ Stored \subseteq Seq([from : {0}, items : SUBSET Idx])
    /\ MaxMessages \in Nat

VARIABLES
    sock,       \* *sock is the descriptor; FALSE: it was set to -1
    alive,      \* the process was not killed
    sndPc,      \* send_msg: "select" or "ended"
    rcvPc,      \* recv_msg: "call", "read", "insert", "query", "pick", "answer", "ended"
    serverUp,   \* the server has not closed its end
    sent,       \* the messages the server sent (those not read: a history but for them)
    nread,      \* how many of them were read
    current,    \* the one being handled
    table,      \* dog_food_sales
    item_counts, i, max1_idx, max2_idx,  \* the search for the two best
    answers,    \* the answers written: question and products (history)
    afterQuit   \* messages read after sock was set to -1 (history)

search  == <<item_counts, i, max1_idx, max2_idx>>
network == <<serverUp, sent>>
vars == <<sock, alive, sndPc, rcvPc, network, nread, current, table, search, answers, afterQuit>>

Zero == [j \in Idx |-> 0]

Init ==
    /\ sock = TRUE /\ alive = TRUE /\ serverUp = TRUE
    /\ sndPc = "select" /\ rcvPc = "call"
    /\ sent = <<>> /\ nread = 0 /\ current = 0
    /\ table \in Stored
    /\ item_counts = Zero /\ i = 0 /\ max1_idx = 0 /\ max2_idx = 1
    /\ answers = <<>> /\ afterQuit = 0

-----------------------------------------------------------------------------
(* The server *)

Send(m) ==
    /\ serverUp /\ Len(sent) < MaxMessages
    /\ sent' = Append(sent, m)
    /\ UNCHANGED <<sock, alive, sndPc, rcvPc, serverUp, nread, current, table, search, answers, afterQuit>>

ServerEnd ==
    /\ serverUp
    /\ serverUp' = FALSE
    /\ UNCHANGED <<sock, alive, sndPc, rcvPc, sent, nread, current, table, search, answers, afterQuit>>

-----------------------------------------------------------------------------
(* recv_msg *)

(* The top of the loop, up to the read, which keeps the descriptor it got. *)
CallOnCopy ==                                                       \* mutant
    /\ alive /\ rcvPc = "call"
    /\ rcvPc' = "read"
    /\ UNCHANGED <<sock, alive, sndPc, network, nread, current, table, search, answers, afterQuit>>
Call ==
    /\ alive /\ rcvPc = "call"
    /\ rcvPc' = IF sock THEN "read" ELSE "ended"
    /\ UNCHANGED <<sock, alive, sndPc, network, nread, current, table, search, answers, afterQuit>>

(* A read may return several messages: their tokens run on in pArray.  The    *)
(* second token decides, and a sale is one of nine tokens exactly, so that it  *)
(* is stored only when it came alone.                                         *)
First == nread + 1
Receive ==
    /\ alive /\ rcvPc = "read"
    /\ \E k \in 1 .. Len(sent) - nread :
         /\ nread' = nread + k
         /\ rcvPc' = IF sent[First].kind = "DB_RECO" THEN "query"
                     ELSE IF sent[First].kind = "DB" /\ k = 1 THEN "insert"
                     ELSE "call"
    /\ current' = First
    /\ afterQuit' = IF sock THEN afterQuit ELSE afterQuit + 1
    /\ UNCHANGED <<sock, alive, sndPc, network, table, search, answers>>

EofKeepsSock ==                                                     \* mutant
    /\ alive /\ rcvPc = "read" /\ nread = Len(sent) /\ ~serverUp
    /\ rcvPc' = "ended"
    /\ UNCHANGED <<sock, alive, sndPc, network, nread, current, table, search, answers, afterQuit>>
Eof ==
    /\ alive /\ rcvPc = "read" /\ nread = Len(sent) /\ ~serverUp
    /\ sock' = FALSE
    /\ rcvPc' = "ended"
    /\ UNCHANGED <<alive, sndPc, network, nread, current, table, search, answers, afterQuit>>

(* An insert that fails is printed, and the sale is gone. *)
InsertAgain ==                                                      \* mutant
    /\ alive /\ rcvPc = "insert"
    /\ rcvPc' \in {"call", "insert"}
    /\ table' = Append(table, [from |-> current, items |-> sent[current].items])
    /\ UNCHANGED <<sock, alive, sndPc, network, nread, current, search, answers, afterQuit>>
Insert ==
    /\ alive /\ rcvPc = "insert"
    /\ rcvPc' = "call"
    /\ \/ table' = Append(table, [from |-> current, items |-> sent[current].items])
       \/ UNCHANGED table
    /\ UNCHANGED <<sock, alive, sndPc, network, nread, current, search, answers, afterQuit>>

(* SUM of every column; of an empty table it is NULL, taken for 0. *)
Sums(rows) == [j \in Idx |-> Cardinality({r \in DOMAIN rows : j \in rows[r].items})]

Query ==
    /\ alive /\ rcvPc = "query"
    /\ rcvPc' = "pick"
    /\ item_counts' = Sums(table)
    /\ i' = 2
    /\ max1_idx' = IF item_counts'[1] > item_counts'[0] THEN 1 ELSE 0
    /\ max2_idx' = IF item_counts'[1] > item_counts'[0] THEN 0 ELSE 1
    /\ UNCHANGED <<sock, alive, sndPc, network, nread, current, table, answers, afterQuit>>

(* An error of the query ends the thread and leaves the socket open. *)
QueryContinues ==                                                   \* mutant
    /\ alive /\ rcvPc = "query"
    /\ rcvPc' = "call"
    /\ UNCHANGED <<sock, alive, sndPc, network, nread, current, table, search, answers, afterQuit>>
QueryFails ==
    /\ alive /\ rcvPc = "query"
    /\ rcvPc' = "ended"
    /\ UNCHANGED <<sock, alive, sndPc, network, nread, current, table, search, answers, afterQuit>>

(* One round of the loop over the other products. *)
PickForgets ==                                                      \* mutant
    /\ alive /\ rcvPc = "pick" /\ i < ITEMS
    /\ i' = i + 1
    /\ IF item_counts[i] > item_counts[max1_idx] THEN max1_idx' = i /\ UNCHANGED max2_idx
       ELSE IF item_counts[i] > item_counts[max2_idx] THEN max2_idx' = i /\ UNCHANGED max1_idx
       ELSE UNCHANGED <<max1_idx, max2_idx>>
    /\ UNCHANGED <<sock, alive, sndPc, rcvPc, network, nread, current, table, item_counts,
                   answers, afterQuit>>
Pick ==
    /\ alive /\ rcvPc = "pick" /\ i < ITEMS
    /\ i' = i + 1
    /\ IF item_counts[i] > item_counts[max1_idx] THEN max1_idx' = i /\ max2_idx' = max1_idx
       ELSE IF item_counts[i] > item_counts[max2_idx] THEN max2_idx' = i /\ UNCHANGED max1_idx
       ELSE UNCHANGED <<max1_idx, max2_idx>>
    /\ UNCHANGED <<sock, alive, sndPc, rcvPc, network, nread, current, table, item_counts,
                   answers, afterQuit>>

PickEnd ==
    /\ alive /\ rcvPc = "pick" /\ i = ITEMS
    /\ rcvPc' = "answer"
    /\ UNCHANGED <<sock, alive, sndPc, network, nread, current, table, search, answers, afterQuit>>

Answer ==
    /\ alive /\ rcvPc = "answer" /\ sock /\ serverUp
    /\ answers' = Append(answers, [to |-> current, first |-> max1_idx + 1, second |-> max2_idx + 1])
    /\ rcvPc' = "call"
    /\ UNCHANGED <<sock, alive, sndPc, network, nread, current, table, search, afterQuit>>

(* Descriptor -1, or a connection the server closed: lost, refused or SIGPIPE. *)
AnswerFails ==
    /\ alive /\ rcvPc = "answer" /\ ~(sock /\ serverUp)
    /\ \/ sock' = FALSE /\ rcvPc' = "ended" /\ UNCHANGED alive
       \/ sock /\ rcvPc' = "call" /\ UNCHANGED <<sock, alive>>
       \/ sock /\ alive' = FALSE /\ UNCHANGED <<sock, rcvPc>>
    /\ UNCHANGED <<sndPc, network, nread, current, table, search, answers, afterQuit>>

recv_msg == \/ Call \/ Receive \/ Eof \/ Insert \/ Query \/ QueryFails
            \/ Pick \/ PickEnd \/ Answer \/ AnswerFails

-----------------------------------------------------------------------------
(* send_msg *)

Quit ==
    /\ alive /\ sndPc = "select"
    /\ sock' = FALSE /\ sndPc' = "ended"
    /\ UNCHANGED <<alive, rcvPc, network, nread, current, table, search, answers, afterQuit>>

(* A line for the server that cannot be written. *)
LineFails ==
    /\ alive /\ sndPc = "select" /\ ~(sock /\ serverUp)
    /\ \/ sock' = FALSE /\ sndPc' = "ended" /\ UNCHANGED alive
       \/ sock /\ alive' = FALSE /\ UNCHANGED <<sock, sndPc>>
    /\ UNCHANGED <<rcvPc, network, nread, current, table, search, answers, afterQuit>>

(* The timeout of select. *)
Timeout ==
    /\ alive /\ sndPc = "select" /\ ~sock
    /\ sndPc' = "ended"
    /\ UNCHANGED <<sock, alive, rcvPc, network, nread, current, table, search, answers, afterQuit>>

Console == Quit \/ LineFails

-----------------------------------------------------------------------------
Next == (\E m \in Message : Send(m)) \/ ServerEnd \/ recv_msg \/ Console \/ Timeout

Spec == Init /\ [][Next]_vars

(* The threads are scheduled and queries return; nobody has to type. *)
FairSpec == Spec /\ WF_vars(recv_msg) /\ WF_vars(Timeout)

-----------------------------------------------------------------------------
(* Properties *)

TypeOK ==
    /\ sock \in BOOLEAN /\ alive \in BOOLEAN /\ serverUp \in BOOLEAN
    /\ sndPc \in {"select", "ended"}
    /\ rcvPc \in {"call", "read", "insert", "query", "pick", "answer", "ended"}
    /\ sent \in Seq(Message) /\ Len(sent) <= MaxMessages
    /\ nread \in 0 .. Len(sent) /\ current \in 0 .. nread
    /\ table \in Seq(Row)
    /\ item_counts \in [Idx -> Nat]
    /\ i \in 0 .. ITEMS /\ max1_idx \in Idx /\ max2_idx \in Idx
    /\ answers \in Seq([to : Nat, first : 1 .. ITEMS, second : 1 .. ITEMS])
    /\ afterQuit \in Nat

(* The rows made from messages are sales that were sent, as they were sent, in *)
(* their order and each once: no read, failed insert or end repeats one.       *)
RowsAreSales ==
    /\ \A r \in DOMAIN table : table[r].from # 0 =>
         /\ table[r].from \in DOMAIN sent
         /\ sent[table[r].from].kind = "DB"
         /\ table[r].items = sent[table[r].from].items
    /\ \A r, s \in DOMAIN table : (r < s /\ table[r].from # 0) => table[r].from < table[s].from

(* p sells before q: more often, or as often and named earlier. *)
Before(c, p, q) == c[p] > c[q] \/ (c[p] = c[q] /\ p < q)
TopTwo(c, p, q, n) ==
    /\ p \in 0 .. n - 1 /\ q \in 0 .. n - 1 /\ p # q
    /\ \A j \in 0 .. n - 1 : j # p => Before(c, p, j)
    /\ \A j \in 0 .. n - 1 : j \notin {p, q} => Before(c, q, j)

(* Every answer names the two products that sold best in the sales stored from *)
(* messages before the question, with ties going to the lower number.          *)
RowsBefore(k, j) == {r \in DOMAIN table : table[r].from < k /\ j \in table[r].items}
CountsAt(k) == [j \in Idx |-> Cardinality(RowsBefore(k, j))]
AnswersAreTopTwo ==
    \A n \in DOMAIN answers :
      TopTwo(CountsAt(answers[n].to), answers[n].first - 1, answers[n].second - 1, ITEMS)

(* After the console's quit, or an end seen by the other thread, at most the   *)
(* one message is handled that the reading thread was waiting for.             *)
AtMostOneAfterQuit == afterQuit <= 1

(* A question that is the next to be read is answered, whatever is read with   *)
(* it, unless the thread or the connection ends.                               *)
QuestionAnswered ==
    \A k \in 1 .. MaxMessages :
      (k \in DOMAIN sent /\ sent[k].kind = "DB_RECO" /\ nread + 1 = k)
        ~> (rcvPc = "ended" \/ ~serverUp \/ ~sock \/ ~alive
            \/ \E n \in DOMAIN answers : answers[n].to = k)

(* The end of the server ends both threads, except after an error of a query,  *)
(* which leaves the console running on a connection that nobody reads.         *)
Mute ==
    /\ rcvPc = "ended" /\ sock
    /\ current # 0 /\ sent[current].kind = "DB_RECO"
    /\ \A n \in DOMAIN answers : answers[n].to # current
EndsWithServer == ~serverUp ~> (~alive \/ Mute \/ (rcvPc = "ended" /\ sndPc = "ended"))

(* The question at hand is being answered or has its answer, unless the query  *)
(* or the connection failed.                                                   *)
QuestionUnderWay ==
    current # 0 /\ sent[current].kind = "DB_RECO" =>
      \/ rcvPc \in {"query", "pick", "answer"}
      \/ \E n \in DOMAIN answers : answers[n].to = current
      \/ Mute \/ ~sock \/ ~serverUp

(* One thread does not end without the other's noticing: it leaves *sock at -1, *)
(* for the other's next look, unless it ended on an error of the query.         *)
EndIsTold == /\ rcvPc = "ended" => ~sock \/ Mute
             /\ sndPc = "ended" => ~sock
=============================================================================
