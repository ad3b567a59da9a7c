------------------------ MODULE DatabaseClientProofs ------------------------
(***************************************************************************)
(* What DatabaseClient promises, for every number of products, every table  *)
(* it may find and any number of messages.                                 *)
(***************************************************************************)
EXTENDS DatabaseClient, FiniteSetTheorems, TLAPS

(* The rows of a table that name a product are finitely many. *)
LEMMA SumsType ==
  ASSUME NEW rows \in Seq(Row)
  PROVE  Sums(rows) \in [Idx -> Nat]
<1>1. ASSUME NEW j \in Idx
      PROVE  Cardinality({r \in DOMAIN rows : j \in rows[r].items}) \in Nat
  <2>1. IsFiniteSet(DOMAIN rows)
    <3>1. DOMAIN rows = 1 .. Len(rows) /\ Len(rows) \in Nat  OBVIOUS
    <3> QED  BY <3>1, FS_Interval
  <2>2. {r \in DOMAIN rows : j \in rows[r].items} \subseteq DOMAIN rows  OBVIOUS
  <2> QED  BY <2>1, <2>2, FS_Subset, FS_CardinalityType
<1> QED  BY <1>1 DEF Sums

-----------------------------------------------------------------------------
(* Types.  A row from a message and an answer are about messages that were    *)
(* read, and what is handled is one of them.                                  *)
Busy == rcvPc \in {"insert", "query", "pick", "answer"}
Handling ==
    /\ Busy => current # 0
    /\ rcvPc = "pick" => i >= 2
Shape == TypeOK /\ Handling

LEMMA ShapeInit == Init => Shape
<1> SUFFICES ASSUME Init PROVE Shape  OBVIOUS
<1>1. table \in Seq(Row)
  <2> DEFINE Found == [from : {0}, items : SUBSET Idx]
  <2>1. table \in Seq(Found)  BY DatabaseConstants DEF Init
  <2>2. Len(table) \in Nat /\ DOMAIN table = 1 .. Len(table)
        /\ table = [r \in 1 .. Len(table) |-> table[r]]
    BY <2>1
  <2>3. \A r \in 1 .. Len(table) : table[r] \in Row
    <3>1. Found \subseteq Row  BY DEF Row
    <3> HIDE DEF Found
    <3>2. \A r \in 1 .. Len(table) : table[r] \in Found  BY <2>1
    <3> QED  BY <3>1, <3>2
  <2> QED  BY <2>2, <2>3
<1>2. Zero \in [Idx -> Nat] /\ 0 \in Idx /\ 1 \in Idx /\ 0 \in 0 .. ITEMS
  BY DatabaseConstants DEF Zero, Idx
<1> QED  BY <1>1, <1>2, DatabaseConstants DEF Init, Shape, TypeOK, Handling, Busy

LEMMA ShapeStep == Shape /\ [Next]_vars => Shape'
<1> SUFFICES ASSUME Shape, [Next]_vars PROVE Shape'  OBVIOUS
<1> USE DEF Shape, Handling, Busy
<1>1. ASSUME NEW m \in Message, Send(m) PROVE Shape'
  BY <1>1, DatabaseConstants DEF Send, TypeOK, search
<1>2. CASE ServerEnd  BY <1>2 DEF ServerEnd, TypeOK, search
<1>3. CASE recv_msg
  <2>1. CASE Call  BY <2>1 DEF Call, TypeOK, search, network
  <2>2. CASE Receive
    <3>1. PICK k \in 1 .. Len(sent) - nread : nread' = nread + k  BY <2>2 DEF Receive
    <3>2. nread' \in 0 .. Len(sent) /\ current' \in 1 .. nread'
      BY <2>2, <3>1 DEF Receive, First, TypeOK
    <3>3. rcvPc' \in {"query", "insert", "call"}  BY <2>2 DEF Receive
    <3> QED  BY <2>2, <3>2, <3>3 DEF Receive, TypeOK, search, network
  <2>3. CASE Eof  BY <2>3 DEF Eof, TypeOK, search, network
  <2>4. CASE Insert
    <3>1. current \in DOMAIN sent /\ sent[current] \in Message  BY <2>4 DEF Insert, TypeOK
    <3>2. [from |-> current, items |-> sent[current].items] \in Row
      BY <3>1 DEF Row, Message, TypeOK
    <3>3. table' \in Seq(Row)
      <4>1. table \in Seq(Row)  BY DEF TypeOK
      <4>2. Append(table, [from |-> current, items |-> sent[current].items]) \in Seq(Row)
        BY <3>2, <4>1
      <4> QED  BY <2>4, <4>1, <4>2 DEF Insert
    <3> QED  BY <2>4, <3>3 DEF Insert, TypeOK, search, network
  <2>5. CASE Query
    <3>1. item_counts' \in [Idx -> Nat]  BY <2>5, SumsType DEF Query, TypeOK
    <3>2. i' = 2 /\ max1_idx' \in {0, 1} /\ max2_idx' \in {0, 1}  BY <2>5 DEF Query
    <3>3. i' \in 0 .. ITEMS /\ max1_idx' \in Idx /\ max2_idx' \in Idx
      BY <3>2, DatabaseConstants DEF Idx
    <3> QED  BY <2>5, <3>1, <3>2, <3>3 DEF Query, TypeOK, network
  <2>6. CASE QueryFails  BY <2>6 DEF QueryFails, TypeOK, search, network
  <2>7. CASE Pick
    <3>1. i' \in 0 .. ITEMS /\ i' >= 2 /\ i \in Idx
      BY <2>7, DatabaseConstants DEF Pick, TypeOK, Idx
    <3>2. max1_idx' \in Idx /\ max2_idx' \in Idx  BY <2>7, <3>1 DEF Pick, TypeOK
    <3> QED  BY <2>7, <3>1, <3>2 DEF Pick, TypeOK, network
  <2>8. CASE PickEnd  BY <2>8 DEF PickEnd, TypeOK, search, network
  <2>9. CASE Answer
    <3>1. [to |-> current, first |-> max1_idx + 1, second |-> max2_idx + 1]
            \in [to : Nat, first : 1 .. ITEMS, second : 1 .. ITEMS]
      BY DatabaseConstants DEF TypeOK, Idx
    <3> QED  BY <2>9, <3>1 DEF Answer, TypeOK, search, network
  <2>10. CASE AnswerFails  BY <2>10 DEF AnswerFails, TypeOK, search, network
  <2> QED  BY <1>3, <2>1, <2>2, <2>3, <2>4, <2>5, <2>6, <2>7, <2>8, <2>9, <2>10 DEF recv_msg
<1>4. CASE Console
  BY <1>4 DEF Console, Quit, LineFails, TypeOK, search, network
<1>5. CASE Timeout  BY <1>5 DEF Timeout, TypeOK, search, network
<1>6. CASE UNCHANGED vars  BY <1>6 DEF vars, TypeOK, search, network
<1> QED  BY <1>1, <1>2, <1>3, <1>4, <1>5, <1>6 DEF Next

(* Every variable has its type in every reachable state. *)
THEOREM DatabaseTypes == Spec => []TypeOK
<1>1. Spec => []Shape  BY ShapeInit, ShapeStep, PTL DEF Spec
<1> QED  BY <1>1, PTL DEF Shape

-----------------------------------------------------------------------------
(* A flag that went down stays down, and the thread looks at it before every  *)
(* read but not behind it.                                                    *)
LateReads ==
    /\ afterQuit \in {0, 1}
    /\ (sock \/ rcvPc = "read") => afterQuit = 0

(* One message at most is handled after the console's quit or an end seen by  *)
(* the other thread: the one the read was waiting for (recv_msg, l. 146-153). *)
THEOREM QuitCostsOneMessage == Spec => []AtMostOneAfterQuit
<1>1. Init => LateReads  BY DEF Init, LateReads
<1>2. Shape /\ LateReads /\ [Next]_vars => LateReads'
  <2> SUFFICES ASSUME Shape, LateReads, [Next]_vars PROVE LateReads'  OBVIOUS
  <2> USE DEF LateReads
  <2>1. ASSUME NEW m \in Message, Send(m) PROVE LateReads'  BY <2>1 DEF Send
  <2>2. CASE ServerEnd  BY <2>2 DEF ServerEnd
  <2>3. CASE recv_msg
    <3>1. CASE Call  BY <3>1 DEF Call
    <3>2. CASE Receive  BY <3>2 DEF Receive
    <3>3. CASE Eof \/ Insert \/ Query \/ QueryFails  BY <3>3 DEF Eof, Insert, Query, QueryFails
    <3>4. CASE Pick \/ PickEnd \/ Answer \/ AnswerFails
      BY <3>4 DEF Pick, PickEnd, Answer, AnswerFails
    <3> QED  BY <2>3, <3>1, <3>2, <3>3, <3>4 DEF recv_msg
  <2>4. CASE Console \/ Timeout  BY <2>4 DEF Console, Quit, LineFails, Timeout
  <2>5. CASE UNCHANGED vars  BY <2>5 DEF vars
  <2> QED  BY <2>1, <2>2, <2>3, <2>4, <2>5 DEF Next
<1>3. LateReads => AtMostOneAfterQuit  BY DEF LateReads, AtMostOneAfterQuit
<1> QED  BY <1>1, <1>2, <1>3, ShapeInit, ShapeStep, PTL DEF Spec

-----------------------------------------------------------------------------
(* The rows, and the answers, are of messages before the one being handled:   *)
(* a message is handled once, and in its turn.                                *)
RowsInv ==
    /\ RowsAreSales
    /\ \A r \in DOMAIN table : /\ table[r].from <= current
                               /\ Busy => table[r].from < current
    /\ rcvPc = "insert" => sent[current].kind = "DB"

LEMMA RowsInit == Init => RowsInv
<1> SUFFICES ASSUME Init PROVE RowsInv  OBVIOUS
<1> DEFINE Found == [from : {0}, items : SUBSET Idx]
<1>1. table \in Seq(Found)  BY DatabaseConstants DEF Init
<1>2. ASSUME NEW r \in DOMAIN table PROVE table[r].from = 0
  <2> HIDE DEF Found
  <2>1. table[r] \in Found  BY <1>1
  <2> QED  BY <2>1 DEF Found
<1> QED  BY <1>2 DEF Init, RowsInv, RowsAreSales, Busy

(* Nothing but Insert touches the table, nothing but Receive begins. *)
LEMMA RowsKept ==
  ASSUME Shape, RowsInv, UNCHANGED <<table, current>>, Busy' => Busy,
         rcvPc' = "insert" => rcvPc = "insert",
         \A k \in DOMAIN sent : k \in DOMAIN sent' /\ sent'[k] = sent[k]
  PROVE  RowsInv'
<1>1. RowsAreSales'  BY DEF RowsInv, RowsAreSales
<1>2. rcvPc' = "insert" => sent'[current].kind = "DB"
  <2> SUFFICES ASSUME rcvPc' = "insert" PROVE sent'[current].kind = "DB"  OBVIOUS
  <2>1. rcvPc = "insert" /\ current \in DOMAIN sent  BY DEF Shape, Handling, Busy, TypeOK
  <2> QED  BY <2>1 DEF RowsInv
<1> QED  BY <1>1, <1>2 DEF RowsInv

LEMMA RowsStep == Shape /\ RowsInv /\ [Next]_vars => RowsInv'
<1> SUFFICES ASSUME Shape, RowsInv, [Next]_vars PROVE RowsInv'  OBVIOUS
<1>1. ASSUME NEW m \in Message, Send(m) PROVE RowsInv'
  <2>1. \A k \in DOMAIN sent : k \in DOMAIN sent' /\ sent'[k] = sent[k]
    <3>1. sent \in Seq(Message) /\ sent' = Append(sent, m)  BY <1>1 DEF Send, Shape, TypeOK
    <3> QED  BY <3>1
  <2> QED  BY <1>1, <2>1, RowsKept DEF Send, Busy
<1>2. CASE ServerEnd  BY <1>2, RowsKept DEF ServerEnd, Busy
<1>3. CASE recv_msg
  <2>1. CASE Call \/ Eof \/ Query \/ QueryFails
    BY <2>1, RowsKept DEF Call, Eof, Query, QueryFails, Busy, network
  <2>2. CASE Pick \/ PickEnd \/ Answer \/ AnswerFails
    BY <2>2, RowsKept DEF Pick, PickEnd, Answer, AnswerFails, Busy, network
  <2>3. CASE Receive
    <3>1. current' > current /\ current' = nread + 1  BY <2>3 DEF Receive, First, Shape, TypeOK
    <3>2. UNCHANGED <<table, sent>>  BY <2>3 DEF Receive, network
    <3>3. \A r \in DOMAIN table : table[r].from < current' /\ table[r].from <= current'
      <4>1. \A r \in DOMAIN table : table[r].from \in Nat
        <5>1. \A r \in DOMAIN table : table[r] \in Row  BY DEF Shape, TypeOK
        <5> QED  BY <5>1 DEF Row
      <4>2. current \in Nat /\ current' \in Nat  BY <3>1 DEF Shape, TypeOK
      <4> QED  BY <3>1, <4>1, <4>2 DEF RowsInv
    <3>4. rcvPc' = "insert" => sent'[current'].kind = "DB"  BY <2>3, <3>1, <3>2 DEF Receive, First
    <3>5. RowsAreSales'  BY <3>2 DEF RowsInv, RowsAreSales
    <3> QED  BY <3>2, <3>3, <3>4, <3>5 DEF RowsInv
  <2>4. CASE Insert
    <3> DEFINE new == [from |-> current, items |-> sent[current].items]
    <3>1. CASE UNCHANGED table  BY <2>4, <3>1, RowsKept DEF Insert, Busy, network
    <3>2. CASE table' = Append(table, new)
      <4>1. /\ current \in DOMAIN sent /\ sent[current].kind = "DB" /\ ~Busy'
            /\ rcvPc' = "call" /\ UNCHANGED <<sent, current>>
            /\ current \in Nat /\ \A r \in DOMAIN table : table[r].from < current
        BY <2>4 DEF Insert, Busy, Shape, Handling, TypeOK, RowsInv, network
      <4> HIDE DEF new
      <4>2. /\ Len(table) \in Nat /\ DOMAIN table = 1 .. Len(table)
            /\ DOMAIN table' = 1 .. Len(table) + 1
            /\ table'[Len(table) + 1] = new
            /\ \A r \in 1 .. Len(table) : table'[r] = table[r]
        BY <3>2 DEF Shape, TypeOK
      <4>3. new.from = current /\ new.items = sent[current].items  BY DEF new
      <4>4. \A r \in DOMAIN table' : r \in DOMAIN table \/ r = Len(table) + 1  BY <4>2
      <4>5. RowsAreSales'
        <5>1. ASSUME NEW r \in DOMAIN table', table'[r].from # 0
              PROVE  /\ table'[r].from \in DOMAIN sent
                     /\ sent[table'[r].from].kind = "DB"
                     /\ table'[r].items = sent[table'[r].from].items
          BY <4>1, <4>2, <4>3, <4>4, <5>1 DEF RowsInv, RowsAreSales
        <5>2. ASSUME NEW r \in DOMAIN table', NEW q \in DOMAIN table', r < q, table'[r].from # 0
              PROVE  table'[r].from < table'[q].from
          <6>1. r \in DOMAIN table  BY <4>2, <4>4, <5>2
          <6>2. CASE q \in DOMAIN table  BY <4>2, <5>2, <6>1, <6>2 DEF RowsInv, RowsAreSales
          <6>3. CASE q = Len(table) + 1  BY <4>1, <4>2, <4>3, <6>1, <6>3
          <6> QED  BY <4>4, <6>2, <6>3
        <5> QED  BY <4>1, <5>1, <5>2 DEF RowsAreSales
      <4>6. \A r \in DOMAIN table' : table'[r].from <= current
        <5>1. \A r \in DOMAIN table : table'[r].from <= current  BY <4>2 DEF RowsInv
        <5> QED  BY <4>1, <4>2, <4>3, <4>4, <5>1
      <4> QED  BY <4>1, <4>5, <4>6 DEF RowsInv
    <3> QED  BY <2>4, <3>1, <3>2 DEF Insert
  <2> QED  BY <1>3, <2>1, <2>2, <2>3, <2>4 DEF recv_msg
<1>4. CASE Console \/ Timeout
  BY <1>4, RowsKept DEF Console, Quit, LineFails, Timeout, Busy, network
<1>5. CASE UNCHANGED vars  BY <1>5, RowsKept DEF vars, Busy, network
<1> QED  BY <1>1, <1>2, <1>3, <1>4, <1>5 DEF Next

(* The table holds the sales that were sent, as they were sent, in their order *)
(* and each at most once (recv_msg, l. 153-193).                              *)
THEOREM SalesStoredOnce == Spec => []RowsAreSales
<1>1. RowsInv => RowsAreSales  BY DEF RowsInv
<1> QED  BY <1>1, ShapeInit, ShapeStep, RowsInit, RowsStep, PTL DEF Spec

-----------------------------------------------------------------------------
(* The search: max1_idx and max2_idx are the best two of the first i sums.    *)

LEMMA PickTopTwo ==
  ASSUME NEW c \in [Idx -> Nat], NEW n \in Idx, n >= 2,
         NEW p \in Idx, NEW q \in Idx, TopTwo(c, p, q, n)
  PROVE  /\ c[n] > c[p] => TopTwo(c, n, p, n + 1)
         /\ ~(c[n] > c[p]) /\ c[n] > c[q] => TopTwo(c, p, n, n + 1)
         /\ ~(c[n] > c[p]) /\ ~(c[n] > c[q]) => TopTwo(c, p, q, n + 1)
<1>1. /\ n \in Nat /\ 0 .. n = (0 .. n - 1) \cup {n} /\ 0 .. n + 1 - 1 = 0 .. n
      /\ \A j \in 0 .. n : c[j] \in Nat
  BY DatabaseConstants DEF Idx
<1>2. /\ p \in 0 .. n - 1 /\ q \in 0 .. n - 1 /\ p # q
      /\ \A j \in 0 .. n - 1 : j # p => Before(c, p, j)
      /\ \A j \in 0 .. n - 1 : j \notin {p, q} => Before(c, q, j)
  BY DEF TopTwo
<1>3. CASE c[n] > c[p]
  <2>1. \A j \in 0 .. n - 1 : Before(c, n, j)
    BY <1>1, <1>2, <1>3 DEF Before
  <2> QED  BY <1>1, <1>2, <1>3, <2>1 DEF TopTwo
<1>4. CASE ~(c[n] > c[p]) /\ c[n] > c[q]
  <2>1. Before(c, p, n) /\ \A j \in 0 .. n - 1 : j # p => Before(c, n, j)
    BY <1>1, <1>2, <1>4 DEF Before
  <2> QED  BY <1>1, <1>2, <1>4, <2>1 DEF TopTwo
<1>5. CASE ~(c[n] > c[p]) /\ ~(c[n] > c[q])
  <2>1. Before(c, p, n) /\ Before(c, q, n)  BY <1>1, <1>2, <1>5 DEF Before
  <2> QED  BY <1>1, <1>2, <1>5, <2>1 DEF TopTwo
<1> QED  BY <1>3, <1>4, <1>5

(* The sums of the rows from messages before k do not change with a row from   *)
(* k or a later message.                                                      *)
LEMMA CountsKept ==
  ASSUME NEW k, NEW new, table \in Seq(Row), table' = Append(table, new), ~(new.from < k)
  PROVE  CountsAt(k)' = CountsAt(k)
<1>1. /\ Len(table) \in Nat /\ DOMAIN table = 1 .. Len(table)
      /\ DOMAIN table' = 1 .. Len(table) + 1
      /\ table'[Len(table) + 1] = new
      /\ \A r \in 1 .. Len(table) : table'[r] = table[r]
  OBVIOUS
<1>2. ASSUME NEW j PROVE RowsBefore(k, j)' = RowsBefore(k, j)
  <2>1. \A r \in DOMAIN table' : r \in DOMAIN table \/ r = Len(table) + 1  BY <1>1
  <2> QED  BY <1>1, <2>1 DEF RowsBefore
<1> QED  BY <1>2 DEF CountsAt

AnswersInv ==
    /\ AnswersAreTopTwo
    /\ \A n \in DOMAIN answers : /\ answers[n].to <= current
                                 /\ Busy => answers[n].to < current
    /\ rcvPc \in {"pick", "answer"} => item_counts = CountsAt(current)
    /\ rcvPc = "pick" => TopTwo(item_counts, max1_idx, max2_idx, i)
    /\ rcvPc = "answer" => TopTwo(item_counts, max1_idx, max2_idx, ITEMS)

LEMMA AnswersKept ==
  ASSUME AnswersInv, UNCHANGED <<table, current, answers>>, Busy' => Busy,
         rcvPc' \notin {"pick", "answer"} \/ UNCHANGED <<rcvPc, search>>
  PROVE  AnswersInv'
<1>1. AnswersAreTopTwo'  BY DEF AnswersInv, AnswersAreTopTwo, CountsAt, RowsBefore
<1>2. CountsAt(current)' = CountsAt(current)  BY DEF CountsAt, RowsBefore
<1> QED  BY <1>1, <1>2 DEF AnswersInv, search, TopTwo, Before

(* The rounds of the search, its beginning and its end. *)
LEMMA SearchStep ==
  ASSUME Shape, RowsInv, AnswersInv, Query \/ Pick \/ PickEnd
  PROVE  AnswersInv'
<1>1. UNCHANGED <<table, current, answers>> /\ Busy' /\ Busy
  BY DEF Query, Pick, PickEnd, Busy
<1>2. AnswersAreTopTwo'  BY <1>1 DEF AnswersInv, AnswersAreTopTwo, CountsAt, RowsBefore
<1>3. CountsAt(current)' = CountsAt(current)  BY <1>1 DEF CountsAt, RowsBefore
<1>4. CASE Query
  <2>1. CountsAt(current) = Sums(table)
    <3>1. ASSUME NEW j \in Idx PROVE RowsBefore(current, j) = {r \in DOMAIN table : j \in table[r].items}
      BY <1>1 DEF RowsInv, RowsBefore
    <3> QED  BY <3>1 DEF CountsAt, Sums
  <2>2. item_counts' = CountsAt(current)' /\ item_counts' \in [Idx -> Nat] /\ rcvPc' = "pick"
    BY <1>3, <1>4, <2>1, SumsType DEF Query, Shape, TypeOK
  <2>3. TopTwo(item_counts, max1_idx, max2_idx, i)'
    <3>1. 0 \in Idx /\ 1 \in Idx /\ 0 .. 2 - 1 = {0, 1}  BY DatabaseConstants DEF Idx
    <3>2. item_counts'[0] \in Nat /\ item_counts'[1] \in Nat  BY <2>2, <3>1
    <3>3. CASE item_counts'[1] > item_counts'[0]
      <4>1. i' = 2 /\ max1_idx' = 1 /\ max2_idx' = 0  BY <1>4, <3>3 DEF Query
      <4> QED  BY <3>1, <3>2, <3>3, <4>1 DEF TopTwo, Before
    <3>4. CASE ~(item_counts'[1] > item_counts'[0])
      <4>1. i' = 2 /\ max1_idx' = 0 /\ max2_idx' = 1  BY <1>4, <3>4 DEF Query
      <4> QED  BY <3>1, <3>2, <3>4, <4>1 DEF TopTwo, Before
    <3> QED  BY <3>3, <3>4
  <2> QED  BY <1>1, <1>2, <2>2, <2>3 DEF AnswersInv
<1>5. CASE Pick
  <2>1. /\ i \in Idx /\ i >= 2 /\ TopTwo(item_counts, max1_idx, max2_idx, i)
        /\ item_counts \in [Idx -> Nat] /\ max1_idx \in Idx /\ max2_idx \in Idx
    BY <1>5, DatabaseConstants DEF Pick, Shape, Handling, TypeOK, AnswersInv, Idx
  <2>2. TopTwo(item_counts, max1_idx, max2_idx, i)'
    BY <1>5, <2>1, PickTopTwo DEF Pick
  <2> QED  BY <1>1, <1>2, <1>3, <1>5, <2>2 DEF AnswersInv, Pick
<1>6. CASE PickEnd
  <2>1. TopTwo(item_counts, max1_idx, max2_idx, ITEMS)'
    BY <1>6 DEF PickEnd, AnswersInv, search, TopTwo, Before
  <2> QED  BY <1>1, <1>2, <1>3, <1>6, <2>1 DEF AnswersInv, PickEnd, search
<1> QED  BY <1>4, <1>5, <1>6

LEMMA AnswerType ==
  ASSUME Shape, NEW n \in DOMAIN answers PROVE answers[n].to \in Nat
<1> DEFINE Given == [to : Nat, first : 1 .. ITEMS, second : 1 .. ITEMS]
<1>1. answers \in Seq(Given)  BY DEF Shape, TypeOK
<1> HIDE DEF Given
<1>2. answers[n] \in Given  BY <1>1
<1> QED  BY <1>2 DEF Given

LEMMA AnswersInit == Init => AnswersInv
BY DEF Init, AnswersInv, AnswersAreTopTwo, Busy

LEMMA AnswersStep == Shape /\ RowsInv /\ AnswersInv /\ [Next]_vars => AnswersInv'
<1> SUFFICES ASSUME Shape, RowsInv, AnswersInv, [Next]_vars PROVE AnswersInv'  OBVIOUS
<1>1. ASSUME NEW m \in Message, Send(m) PROVE AnswersInv'
  BY <1>1, AnswersKept DEF Send, Busy
<1>2. CASE ServerEnd  BY <1>2, AnswersKept DEF ServerEnd, Busy
<1>3. CASE recv_msg
  <2>1. CASE Call \/ Eof \/ QueryFails \/ AnswerFails
    BY <2>1, AnswersKept DEF Call, Eof, QueryFails, AnswerFails, Busy
  <2>2. CASE Query \/ Pick \/ PickEnd  BY <2>2, SearchStep
  <2>3. CASE Receive
    <3>1. /\ current' > current /\ current \in Nat /\ current' \in Nat
          /\ UNCHANGED <<table, answers>> /\ rcvPc' \notin {"pick", "answer"}
      BY <2>3 DEF Receive, First, Shape, TypeOK
    <3>2. AnswersAreTopTwo'  BY <3>1 DEF AnswersInv, AnswersAreTopTwo, CountsAt, RowsBefore
    <3>3. \A n \in DOMAIN answers : answers[n].to < current' /\ answers[n].to <= current'
      <4>1. \A n \in DOMAIN answers : answers[n].to \in Nat  BY AnswerType
      <4> QED  BY <3>1, <4>1 DEF AnswersInv
    <3> QED  BY <3>1, <3>2, <3>3 DEF AnswersInv
  <2>4. CASE Insert
    <3> DEFINE new == [from |-> current, items |-> sent[current].items]
    <3>1. CASE UNCHANGED table  BY <2>4, <3>1, AnswersKept DEF Insert, Busy
    <3>2. CASE table' = Append(table, new)
      <4>1. UNCHANGED <<current, answers>> /\ rcvPc' = "call" /\ ~Busy' /\ table \in Seq(Row)
        BY <2>4 DEF Insert, Busy, Shape, TypeOK
      <4>2. ASSUME NEW n \in DOMAIN answers
            PROVE  CountsAt(answers[n].to)' = CountsAt(answers[n].to)
        <5>1. answers[n].to \in Nat /\ answers[n].to < current /\ current \in Nat
          <6>1. current \in Nat      BY DEF Shape, TypeOK
          <6>2. answers[n].to \in Nat  BY AnswerType
          <6>3. answers[n].to < current  BY <2>4 DEF Insert, AnswersInv, Busy
          <6> QED  BY <6>1, <6>2, <6>3
        <5>2. PICK k \in Nat : k = answers[n].to  BY <5>1
        <5>3. PICK row : row = new  OBVIOUS
        <5>4. ~(row.from < k)  BY <5>1, <5>2, <5>3
        <5> HIDE DEF new
        <5>5. CountsAt(k)' = CountsAt(k)  BY <3>2, <4>1, <5>3, <5>4, CountsKept
        <5> QED  BY <4>1, <5>2, <5>5
      <4>3. AnswersAreTopTwo'  BY <4>1, <4>2 DEF AnswersInv, AnswersAreTopTwo
      <4> QED  BY <4>1, <4>3 DEF AnswersInv
    <3> QED  BY <2>4, <3>1, <3>2 DEF Insert
  <2>5. CASE Answer
    <3> DEFINE new == [to |-> current, first |-> max1_idx + 1, second |-> max2_idx + 1]
    <3>1. /\ UNCHANGED <<table, current>> /\ rcvPc' = "call" /\ ~Busy' /\ Busy
          /\ current \in Nat /\ max1_idx \in Int /\ max2_idx \in Int
          /\ TopTwo(CountsAt(current), max1_idx, max2_idx, ITEMS)
          /\ answers' = Append(answers, new)
      <4>1. current \in Nat /\ max1_idx \in Int /\ max2_idx \in Int  BY DEF Shape, TypeOK, Idx
      <4>2. TopTwo(CountsAt(current), max1_idx, max2_idx, ITEMS)  BY <2>5 DEF Answer, AnswersInv
      <4> QED  BY <2>5, <4>1, <4>2 DEF Answer, Busy
    <3>2. new.to = current /\ new.first - 1 = max1_idx /\ new.second - 1 = max2_idx
      BY <3>1
    <3> HIDE DEF new
    <3>3. /\ Len(answers) \in Nat /\ DOMAIN answers = 1 .. Len(answers)
          /\ DOMAIN answers' = 1 .. Len(answers) + 1
          /\ answers'[Len(answers) + 1] = new
          /\ \A n \in 1 .. Len(answers) : answers'[n] = answers[n]
      BY <3>1 DEF Shape, TypeOK
    <3>4. \A n \in DOMAIN answers' : n \in DOMAIN answers \/ n = Len(answers) + 1  BY <3>3
    <3>5. AnswersAreTopTwo'
      <4>1. \A k : CountsAt(k)' = CountsAt(k)  BY <3>1 DEF CountsAt, RowsBefore
      <4>2. ASSUME NEW n \in DOMAIN answers'
            PROVE  TopTwo(CountsAt(answers'[n].to), answers'[n].first - 1, answers'[n].second - 1, ITEMS)
        <5>1. CASE n \in DOMAIN answers  BY <3>3, <5>1 DEF AnswersInv, AnswersAreTopTwo
        <5>2. CASE n = Len(answers) + 1  BY <3>1, <3>2, <3>3, <5>2
        <5> QED  BY <3>4, <5>1, <5>2
      <4>3. \A n \in DOMAIN answers' : CountsAt(answers[n].to)' = CountsAt(answers'[n].to)
        BY <3>1 DEF CountsAt, RowsBefore
      <4> QED  BY <4>2, <4>3 DEF AnswersAreTopTwo
    <3>6. \A n \in DOMAIN answers' : answers'[n].to <= current
      <4>1. \A n \in DOMAIN answers : answers'[n].to <= current  BY <3>3 DEF AnswersInv
      <4> QED  BY <3>1, <3>2, <3>3, <3>4, <4>1
    <3> QED  BY <3>1, <3>5, <3>6 DEF AnswersInv
  <2> QED  BY <1>3, <2>1, <2>2, <2>3, <2>4, <2>5 DEF recv_msg
<1>4. CASE Console \/ Timeout
  BY <1>4, AnswersKept DEF Console, Quit, LineFails, Timeout, Busy
<1>5. CASE UNCHANGED vars  BY <1>5, AnswersKept DEF vars, Busy
<1> QED  BY <1>1, <1>2, <1>3, <1>4, <1>5 DEF Next

(* Every answer names the two products that sold best in what was stored from  *)
(* the messages before its question, ties going to the lower number (recv_msg, *)
(* l. 199-268), for every number of products.                                  *)
THEOREM AnswersNameTheBest == Spec => []AnswersAreTopTwo
<1>1. AnswersInv => AnswersAreTopTwo  BY DEF AnswersInv
<1> QED
  BY <1>1, ShapeInit, ShapeStep, RowsInit, RowsStep, AnswersInit, AnswersStep, PTL DEF Spec

-----------------------------------------------------------------------------
(* The question at hand, and how the threads learn of each other's end. *)
Searching == rcvPc \in {"query", "pick", "answer"}
Answered(k) == \E n \in DOMAIN answers : answers[n].to = k
EndInv ==
    /\ Searching => sent[current].kind = "DB_RECO"
    /\ QuestionUnderWay
    /\ EndIsTold

(* A step that leaves the message at hand and its answers alone keeps all of   *)
(* it, if it ends no thread but by -1 and does not give up the search.         *)
LEMMA EndKept ==
  ASSUME Shape, EndInv, UNCHANGED <<current, answers>>,
         current # 0 => sent'[current] = sent[current],
         Searching => current # 0,
         Searching' => Searching,
         Searching => Searching' \/ ~sock' \/ ~serverUp',
         sock' => sock, serverUp' => serverUp,
         rcvPc = "ended" <=> rcvPc' = "ended",
         sndPc' = "ended" => sndPc = "ended" \/ ~sock'
  PROVE  EndInv'
<1>1. Mute => Mute' \/ ~sock'  BY DEF Mute
<1>2. QuestionUnderWay'
  <2>1. ASSUME current # 0, sent[current].kind = "DB_RECO"
        PROVE  Searching' \/ Answered(current) \/ Mute' \/ ~sock' \/ ~serverUp'
    BY <1>1, <2>1 DEF EndInv, QuestionUnderWay, Searching, Answered
  <2> QED  BY <2>1 DEF QuestionUnderWay, Searching, Answered
<1>3. EndIsTold'  BY <1>1 DEF EndInv, EndIsTold
<1>4. Searching' => sent'[current'].kind = "DB_RECO"  BY DEF EndInv
<1> QED  BY <1>2, <1>3, <1>4 DEF EndInv

LEMMA EndStep == Shape /\ AnswersInv /\ EndInv /\ [Next]_vars => EndInv'
<1> SUFFICES ASSUME Shape, AnswersInv, EndInv, [Next]_vars PROVE EndInv'  OBVIOUS
<1>0. Searching => current # 0  BY DEF Shape, Handling, Busy, Searching
<1>1. ASSUME NEW m \in Message, Send(m) PROVE EndInv'
  <2>1. current # 0 => sent'[current] = sent[current]
    <3>1. sent' = Append(sent, m) /\ sent \in Seq(Message) /\ current \in 0 .. Len(sent)
      BY <1>1 DEF Send, Shape, TypeOK
    <3> QED  BY <3>1
  <2> QED  BY <1>0, <1>1, <2>1, EndKept DEF Send, Searching
<1>2. CASE ServerEnd  BY <1>0, <1>2, EndKept DEF ServerEnd, network, Searching
<1>3. CASE recv_msg
  <2>1. CASE Call
    <3>1. UNCHANGED <<current, answers, sent, sock, serverUp, sndPc>>
          /\ rcvPc' \in {"read", "ended"} /\ (rcvPc' = "ended" => ~sock) /\ rcvPc = "call"
      BY <2>1 DEF Call, network
    <3>2. QuestionUnderWay'
      BY <3>1 DEF EndInv, QuestionUnderWay, Mute
    <3>3. EndIsTold'  BY <3>1 DEF EndInv, EndIsTold
    <3> QED  BY <3>1, <3>2, <3>3 DEF EndInv, Searching
  <2>2. CASE Receive
    <3>1. /\ current' = First /\ UNCHANGED <<sent, sock, serverUp, sndPc, answers>>
          /\ rcvPc' \in {"query", "insert", "call"}
          /\ rcvPc' = "query" <=> sent[First].kind = "DB_RECO"
      BY <2>2 DEF Receive, network
    <3> QED  BY <3>1 DEF EndInv, QuestionUnderWay, EndIsTold, Searching
  <2>3. CASE Eof
    <3>1. ~sock' /\ rcvPc' = "ended"  BY <2>3 DEF Eof
    <3> QED  BY <3>1 DEF EndInv, QuestionUnderWay, EndIsTold, Searching
  <2>4. CASE Insert \/ Query \/ Pick \/ PickEnd
    BY <1>0, <2>4, EndKept DEF Insert, Query, Pick, PickEnd, network, Searching
  <2>5. CASE QueryFails
    <3>1. /\ UNCHANGED <<current, answers, sent, sock, sndPc>> /\ rcvPc' = "ended"
          /\ Searching /\ Busy
      BY <2>5 DEF QueryFails, network, Searching, Busy
    <3>2. \A n \in DOMAIN answers : answers[n].to # current
      <4>1. \A n \in DOMAIN answers : answers[n].to \in Nat  BY AnswerType
      <4>2. current \in Nat  BY DEF Shape, TypeOK
      <4>3. \A n \in DOMAIN answers : answers[n].to < current  BY <3>1 DEF AnswersInv
      <4> QED  BY <4>1, <4>2, <4>3
    <3>3. sock' => Mute'  BY <1>0, <3>1, <3>2 DEF EndInv, Mute
    <3> QED  BY <3>1, <3>3 DEF EndInv, QuestionUnderWay, EndIsTold, Searching
  <2>6. CASE Answer
    <3>1. /\ UNCHANGED <<current, sent, sock, sndPc>> /\ rcvPc' = "call"
          /\ answers' = Append(answers, [to |-> current, first |-> max1_idx + 1,
                                         second |-> max2_idx + 1])
      BY <2>6 DEF Answer, network
    <3>2. Answered(current)'
      <4>1. Len(answers) \in Nat /\ DOMAIN answers' = 1 .. Len(answers) + 1
            /\ answers'[Len(answers) + 1].to = current
        BY <3>1 DEF Shape, TypeOK
      <4> QED  BY <3>1, <4>1 DEF Answered
    <3> QED  BY <3>1, <3>2 DEF EndInv, QuestionUnderWay, EndIsTold, Searching, Answered
  <2>7. CASE AnswerFails
    <3>1. /\ UNCHANGED <<current, answers, sent, serverUp, sndPc>>
          /\ rcvPc = "answer" /\ ~(sock /\ serverUp)
          /\ \/ ~sock' /\ rcvPc' = "ended"
             \/ UNCHANGED sock /\ rcvPc' = "call"
             \/ UNCHANGED <<sock, rcvPc>>
      BY <2>7 DEF AnswerFails, network
    <3>2. EndIsTold'  BY <3>1 DEF EndInv, EndIsTold
    <3>3. ~sock' \/ ~serverUp'  BY <3>1
    <3> QED  BY <3>1, <3>2, <3>3 DEF EndInv, QuestionUnderWay, Searching
  <2> QED  BY <1>3, <2>1, <2>2, <2>3, <2>4, <2>5, <2>6, <2>7 DEF recv_msg
<1>4. CASE Console \/ Timeout
  BY <1>0, <1>4, EndKept DEF Console, Quit, LineFails, Timeout, network, Searching
<1>5. CASE UNCHANGED vars
  BY <1>0, <1>5, EndKept DEF vars, network, Searching
<1> QED  BY <1>1, <1>2, <1>3, <1>4, <1>5 DEF Next

LEMMA EndInvariance == Spec => []EndInv
<1>1. Init => EndInv
  BY DEF Init, EndInv, QuestionUnderWay, EndIsTold, Searching
<1> QED  BY <1>1, ShapeInit, RowsInit, AnswersInit, ShapeStep, RowsStep, AnswersStep, EndStep,
            PTL DEF Spec

(* The safety half of QuestionAnswered: a question that was read stays with    *)
(* the search until it is answered, whatever was read along with it, unless    *)
(* the query or the connection failed (recv_msg, l. 153-268).                  *)
THEOREM NoQuestionDropped == Spec => []QuestionUnderWay
<1>1. EndInv => QuestionUnderWay  BY DEF EndInv
<1> QED  BY <1>1, EndInvariance, PTL

(* The safety half of EndsWithServer: no thread ends and leaves the other on    *)
(* a descriptor that still looks good, but for the error of a query.           *)
THEOREM EndsAreTold == Spec => []EndIsTold
<1>1. EndInv => EndIsTold  BY DEF EndInv
<1> QED  BY <1>1, EndInvariance, PTL
=============================================================================
