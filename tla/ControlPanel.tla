---------------------------- MODULE ControlPanel ----------------------------
(***************************************************************************)
(* The touch screen of the vending machine: In_Progress/QT, the slots of   *)
(* tab3controlpannel.cpp with the reception in socketclient.cpp and        *)
(* tab2sockeclient.cpp that feeds them.  Customers select products and     *)
(* pay: one order per product goes to the vending controller, a record of  *)
(* the purchase to the database.  Or they ask for a recommendation: the    *)
(* camera answers with a breed, the database with its favourite products,  *)
(* and a dialog shows both.                                                *)
(*                                                                         *)
(* There is one thread, but a slot that calls processEvents or exec lets   *)
(* other slots run in the middle of it: the variable stack holds the slots *)
(* under way, the innermost first.  A step runs from one return to the     *)
(* event loop to the next.                                                 *)
(***************************************************************************)
EXTENDS Naturals, Sequences, FiniteSets

CONSTANTS
    Product,     \* the product buttons, 1 .. 9
    Recorded,    \* the products that have a column in the database, 1 .. 6
    Breed,       \* the breeds the panel has a recommendation for
    None,        \* an empty string
    Other,       \* any other text: an unknown breed, a stray number
    ReadLimit,   \* BLOCK_SIZE, in messages: more are never read
    MaxClicks    \* bound: what the customers press

ASSUME PanelConstants ==
    /\ Recorded \subseteq Product
    /\ None \notin Breed /\ Other \notin Breed \cup Product \cup {None}
    /\ ReadLimit \in Nat \ {0} /\ MaxClicks \in Nat

Text == Breed \cup {None, Other}

(* What the panel asks its peers and what they answer: the camera with any   *)
(* breed or other text, the database with two products, which do not say for *)
(* what breed they were asked.                                               *)
Query  == [verb : {"MOTOR", "RECO"}, about : {None}] \cup [verb : {"DB_RECO"}, about : Text]
Answer == [verb : {"ACK"}, about : {None}] \cup [verb : {"BREED"}, about : Breed \cup {Other}]
          \cup [verb : {"DB_BREED"}, about : Text]

(* A slot under way: on_pbPayment_clicked, where its loop is and what it sent; *)
(* tab3RecvDataSlot in its processEvents; the recommendation dialog.           *)
Payment == [slot : {"payment"}, at : {"order", "sent", "recorded", "again"}, run : {1, 2},
            asked : Seq(Product), sent : Seq(Product \cup {Other}),
            record : SUBSET Recorded, breed : Text, valid : BOOLEAN, alone : BOOLEAN]
Inquiry == [slot : {"inquiry"}, at : {"asked"}]
Dialog  == [slot : {"dialog"}, at : {"shown"}, title : Text, basic : Seq(Breed), db : Text]

VARIABLES
    selected,    \* selectedProducts
    breed,       \* breed
    title,       \* breedInKorean, and with it recommendation
    basic,       \* basicRecommendedProducts: the breeds whose products are in it
    waiting,     \* the waiting dialog is visible
    stack,       \* the slots under way, the innermost first
    inbox,       \* received by the socket and not read
    notified,    \* something came that the event loop has not yet reported
    queries,     \* queries[q]: how many q the peers have not answered
    clicks,      \* bound: the clicks so far
    overlapped,  \* a customer closed the waiting dialog (history)
    dropped      \* messages were read as one, or are too many to be read (history)

selection == <<selected, breed>>
advice    == <<title, basic, waiting>>
socket    == <<inbox, notified>>
network   == <<socket, queries>>
history   == <<overlapped, dropped>>
vars      == <<selection, advice, stack, network, clicks, history>>

Init ==
    /\ selected = <<>> /\ breed = None
    /\ title = None /\ basic = <<>> /\ waiting = FALSE
    /\ stack = <<>> /\ inbox = <<>> /\ notified = FALSE
    /\ queries = [q \in Query |-> 0]
    /\ clicks = 0 /\ overlapped = FALSE /\ dropped = FALSE

-----------------------------------------------------------------------------
(* Peers: a query is answered once, sooner or later and in any order, or never. *)

Ask(verb, about) == queries' = [queries EXCEPT ![[verb |-> verb, about |-> about]] = @ + 1]

Answers(q) ==
    CASE q.verb = "MOTOR"   -> [verb : {"ACK"}, about : {None}]
      [] q.verb = "RECO"    -> [verb : {"BREED"}, about : Breed \cup {Other}]
      [] q.verb = "DB_RECO" -> [verb : {"DB_BREED"}, about : {q.about}]

Reply(q) ==
    /\ queries[q] > 0
    /\ queries' = [queries EXCEPT ![q] = @ - 1]
    /\ \E a \in Answers(q) : inbox' = Append(inbox, a)
    /\ notified' = TRUE
    /\ dropped' = (dropped \/ Len(inbox') > ReadLimit)
    /\ UNCHANGED <<selection, advice, stack, clicks, overlapped>>

-----------------------------------------------------------------------------
(* The event loop *)

(* Events are dispatched by the main loop or by a slot in its processEvents. *)
Dispatching == stack # <<>> => Head(stack).at \in {"sent", "recorded", "asked"}

(* A click that is dispatched. *)
Press ==
    /\ Dispatching
    /\ clicks < MaxClicks
    /\ clicks' = clicks + 1

-----------------------------------------------------------------------------
(* Selection and payment *)

(* A payment iterates over selectedProducts itself: once the list has moved, *)
(* its iterators point to freed storage.                                     *)
Disturb(slots, moved) ==
    [k \in DOMAIN slots |->
       IF slots[k].slot = "payment" /\ slots[k].at \in {"order", "sent"}
         THEN [slots[k] EXCEPT !.alone = FALSE, !.valid = @ /\ ~moved]
         ELSE slots[k]]

(* append moves the list when its storage is full. *)
ProductButton(p) ==
    /\ Press /\ ~waiting
    /\ selected' = Append(selected, p)
    /\ \E moved \in BOOLEAN : stack' = Disturb(stack, moved)
    /\ UNCHANGED <<breed, advice, network, history>>

ResetPriceOnly == UNCHANGED selected                                \* mutant
resetSelection == selected' = <<>>

(* on_pbCLR_clicked is connected twice; the second run finds nothing to do. *)
ClearButton ==
    /\ Press /\ ~waiting
    /\ resetSelection
    /\ stack' = Disturb(stack, TRUE)
    /\ UNCHANGED <<breed, advice, network, history>>

(* on_pbPayment_clicked begins, the slots in "below" being under way. *)
Begin(run, below) ==
    IF selected = <<>>
      THEN breed' = None /\ stack' = below
      ELSE /\ stack' = <<[slot |-> "payment", at |-> "order", run |-> run, asked |-> selected,
                          sent |-> <<>>, record |-> {}, breed |-> None,
                          valid |-> TRUE, alone |-> TRUE]>> \o below
           /\ UNCHANGED breed

PaymentButton ==
    /\ Press /\ ~waiting
    /\ Begin(1, stack)
    /\ UNCHANGED <<selected, advice, network, history>>

(* The payment that runs now. *)
Paying(at) == stack # <<>> /\ Head(stack).slot = "payment" /\ Head(stack).at = at
Top == Head(stack)
Update(top) == stack' = <<top>> \o Tail(stack)

SendOrder ==
    /\ Paying("order") /\ Len(Top.sent) < Len(Top.asked)
    /\ \E p \in IF Top.valid THEN {selected[Len(Top.sent) + 1]} ELSE Product \cup {Other} :
         Update([Top EXCEPT !.at = "sent", !.sent = Append(@, p)])
    /\ Ask("MOTOR", None)
    /\ UNCHANGED <<selection, advice, socket, clicks, history>>

(* processEvents is over, and the second of msleep that follows it. *)
NextOrder ==
    /\ Paying("sent")
    /\ Update([Top EXCEPT !.at = "order"])
    /\ UNCHANGED <<selection, advice, network, clicks, history>>

(* The flags of the record: the selection, as far as there are columns for it. *)
itemFlagsToFive == {p \in Recorded \cap {selected[k] : k \in DOMAIN selected} :
                      p + 1 \in Recorded}                           \* mutant
itemFlags == Recorded \cap {selected[k] : k \in DOMAIN selected}

(* The record goes to the database, which does not answer it. *)
SendRecord ==
    /\ Paying("order") /\ Len(Top.sent) = Len(Top.asked)
    /\ Update([Top EXCEPT !.at = "recorded", !.record = itemFlags, !.breed = breed])
    /\ UNCHANGED <<selection, advice, network, clicks, history>>

(* The slot is connected twice: when its first run ends, the second begins. *)
EndPayment ==
    /\ Paying("recorded")
    /\ breed' = None
    /\ resetSelection
    /\ stack' = (IF Top.run = 1 THEN <<[Top EXCEPT !.at = "again"]>> ELSE <<>>)
                  \o Disturb(Tail(stack), TRUE)
    /\ UNCHANGED <<advice, network, clicks, history>>

SecondRun ==
    /\ Paying("again")
    /\ Begin(2, Tail(stack))
    /\ UNCHANGED <<selected, advice, network, clicks, history>>

-----------------------------------------------------------------------------
(* Recommendation *)

RecommendBlocks ==                                                  \* mutant
    /\ Ask("RECO", None) /\ waiting' = TRUE
    /\ stack' = <<[slot |-> "inquiry", at |-> "modal"]>> \o stack
Recommend == Ask("RECO", None) /\ waiting' = TRUE /\ UNCHANGED stack

RecommendButton ==
    /\ Press /\ ~waiting
    /\ Recommend
    /\ UNCHANGED <<selection, title, basic, socket, history>>

(* The customer gives up waiting: the answers are still to come. *)
CloseWaiting ==
    /\ Press /\ waiting
    /\ waiting' = FALSE
    /\ overlapped' = TRUE
    /\ UNCHANGED <<selection, title, basic, stack, network, dropped>>

(* readyRead is emitted for data that comes, not before its slot has returned. *)
(* What comes while the slot runs, or is too much to be read, is buffered and  *)
(* not reported again: it stays there until something else comes behind it.    *)
Reading == \E k \in DOMAIN stack : stack[k].slot \in {"inquiry", "dialog"}
DialogOpen == stack # <<>> /\ Head(stack).slot = "dialog"

BufferOnly ==
    /\ notified /\ notified' = FALSE
    /\ \/ Reading /\ (Dispatching \/ DialogOpen)
       \/ ~Reading /\ Dispatching /\ Len(inbox) > ReadLimit
    /\ UNCHANGED <<selection, advice, stack, inbox, queries, clicks, history>>

(* Everything received is read at once and taken for one message, the first: *)
(* what follows in the same read is lost, or becomes part of the breed.      *)
Read ==
    /\ Dispatching /\ ~Reading /\ notified
    /\ inbox # <<>> /\ Len(inbox) <= ReadLimit
    /\ inbox' = <<>> /\ notified' = FALSE
    /\ dropped' = (dropped \/ Len(inbox) > 1)
    /\ UNCHANGED <<selected, clicks, overlapped>>

(* socketRecvUpdateSlot goes by the prefix of the text. *)
IsBreedAnywhere(m) == m.verb \in {"BREED", "DB_BREED"}               \* mutant
IsBreed(m) == m.verb = "BREED"
IsFavourites(m) == m.verb = "DB_BREED"

(* tab3RecvDataSlot, up to its processEvents. *)
ReadBreed ==
    /\ Read /\ IsBreed(Head(inbox))
    /\ breed' = IF Len(inbox) = 1 THEN Head(inbox).about ELSE Other
    /\ Ask("DB_RECO", breed')
    /\ stack' = <<[slot |-> "inquiry", at |-> "asked"]>> \o stack
    /\ UNCHANGED advice

(* The rest of it, for the breed as it is now. *)
Classify ==
    /\ stack # <<>> /\ Top.slot = "inquiry" /\ Top.at = "asked"
    /\ IF breed \in Breed
         THEN title' = breed /\ basic' = Append(basic, breed)
         ELSE title' = Other /\ UNCHANGED basic
    /\ stack' = Tail(stack)
    /\ UNCHANGED <<selection, waiting, network, clicks, history>>

(* tab3RecvDataSlot_db and displayRecommendationDialog, up to its exec. *)
ReadFavourites ==
    /\ Read /\ IsFavourites(Head(inbox))
    /\ waiting' = FALSE
    /\ stack' = <<[slot |-> "dialog", at |-> "shown", title |-> title,
                   basic |-> basic, db |-> Head(inbox).about]>> \o stack
    /\ UNCHANGED <<breed, title, basic, queries>>

ReadOther ==
    /\ Read /\ ~IsBreed(Head(inbox)) /\ ~IsFavourites(Head(inbox))
    /\ UNCHANGED <<breed, advice, stack, queries>>

DialogKeepsLists == UNCHANGED basic                                 \* mutant
ClearLists == basic' = <<>>

DialogOk ==
    /\ stack # <<>> /\ Top.slot = "dialog"
    /\ ClearLists
    /\ stack' = Tail(stack)
    /\ UNCHANGED <<selection, title, waiting, network, clicks, history>>

-----------------------------------------------------------------------------
Customer == \/ \E p \in Product : ProductButton(p)
            \/ ClearButton \/ PaymentButton \/ RecommendButton
            \/ CloseWaiting \/ DialogOk
Slots == \/ SendOrder \/ NextOrder \/ SendRecord \/ EndPayment \/ SecondRun
         \/ Classify
Socket == ReadBreed \/ ReadFavourites \/ ReadOther \/ BufferOnly
Peers == \E q \in Query : Reply(q)

Next == Customer \/ Slots \/ Socket \/ Peers

Spec == Init /\ [][Next]_vars

(* The thread runs, and processEvents returns: the events that wait are      *)
(* finitely many.  Nothing is assumed of the customers; that the peers       *)
(* answer is an assumption on them.                                          *)
FairSpec == /\ Spec
            /\ WF_vars(Slots) /\ WF_vars(Socket)
            /\ \A q \in Query : WF_vars(Reply(q))

-----------------------------------------------------------------------------
(* Properties *)

(* Every variable stays in its range: the slots under way are the three that *)
(* let others run, and a record has no column that the database lacks.       *)
TypeOK ==
    /\ selected \in Seq(Product) /\ breed \in Text
    /\ title \in Text /\ basic \in Seq(Breed) /\ waiting \in BOOLEAN
    /\ stack \in Seq(Payment \cup Inquiry \cup Dialog)
    /\ inbox \in Seq(Answer) /\ notified \in BOOLEAN /\ queries \in [Query -> Nat]
    /\ clicks \in 0 .. MaxClicks
    /\ overlapped \in BOOLEAN /\ dropped \in BOOLEAN

Payments == {stack[k] : k \in {j \in DOMAIN stack : stack[j].slot = "payment"}}
SeqRange(s) == {s[k] : k \in DOMAIN s}

(* A payment that has sent its record has sent one order for every product  *)
(* that was selected when it began, whatever was pressed in the meantime; if *)
(* no button changed the selection while it sent them, they are the selected *)
(* products in their order, and the record has exactly those it can hold.    *)
PaymentMatchesSelection ==
    \A p \in Payments :
      p.at = "recorded" =>
        /\ Len(p.sent) = Len(p.asked)
        /\ p.alone => /\ p.sent = p.asked
                      /\ p.record = SeqRange(p.asked) \cap Recorded

(* One press of the payment button pays once, although it runs the slot     *)
(* twice and others in between: the second run finds nothing selected.       *)
OnePaymentPerPress == \A p \in Payments : p.run = 1

(* As long as no customer gives up waiting, the dialog is about one breed:  *)
(* the title, the products recommended for it and the favourites of its      *)
(* owners, or about a text that is no breed and without recommended products.*)
DialogAboutOneBreed ==
    \A k \in DOMAIN stack :
      stack[k].slot = "dialog" /\ ~overlapped =>
        LET d == stack[k] IN
        /\ d.db = d.title
        /\ d.basic = IF d.title \in Breed THEN <<d.title>> ELSE <<>>

(* What the comment on the record asks for (l. 203-205): the database gets   *)
(* the products selected when the payment button was pressed.                *)
RecordIsOfThePress ==
    \A p \in Payments : p.at = "recorded" => p.record = SeqRange(p.asked) \cap Recorded

(* A payment under way ends, or a dialog is open over it.                   *)
PaymentEnds == Payments # {} ~> (Payments = {} \/ DialogOpen)

(* With peers that answer, the waiting dialog goes away by itself, unless    *)
(* messages that came together were taken for one, or an answer came while   *)
(* the slot of an earlier one was running and is reported no more.           *)
Unread == \E j \in DOMAIN inbox : IsBreed(inbox[j]) \/ IsFavourites(inbox[j])
Stranded == Unread /\ ~notified
WaitingEnds == waiting ~> (~waiting \/ dropped \/ Stranded)

(* The waiting dialog waits for something: as long as no messages were taken *)
(* for one, an answer that ends it or leads to the next question is owed by   *)
(* a peer or is unread, to be reported or stranded, whatever dialogs were     *)
(* closed before.                                                             *)
AdviceUnderWay ==
    waiting /\ ~dropped =>
      Unread \/ \E q \in Query : q.verb # "MOTOR" /\ queries[q] > 0
=============================================================================
