-------------------------- MODULE ControlPanelProofs --------------------------
(***************************************************************************)
(* Proofs about ControlPanel: the types, and that each press of the payment *)
(* button pays once, for what was selected, and each dialog is about one    *)
(* breed.  All rest on one inductive invariant: what each slot under way    *)
(* knows of the lists it shares with the others.                            *)
(***************************************************************************)
EXTENDS ControlPanel, TLAPS

Slot == Payment \cup Inquiry \cup Dialog

(* Where a slot stands that lets another one run on top of it. *)
Nested == {"sent", "recorded", "asked"}

(* A payment and the selection it iterates over: while it sends orders, and  *)
(* when it has sent its record.                                              *)
Sending(p) == p.at \in {"order", "sent"}
Iterates(p, sel) ==
    /\ p.valid => Len(p.asked) <= Len(sel)
    /\ p.alone => /\ p.valid /\ sel = p.asked
                  /\ \A k \in 1 .. Len(p.sent) : p.sent[k] = p.asked[k]
Completed(p) ==
    /\ Len(p.sent) = Len(p.asked)
    /\ p.alone => /\ p.sent = p.asked
                  /\ p.record = SeqRange(p.asked) \cap Recorded
PaymentFits(p, sel) ==
    /\ p.run = 1 /\ Len(p.sent) <= Len(p.asked)
    /\ Sending(p) => Iterates(p, sel)
    /\ p.at = "recorded" => Completed(p)

(* Only the innermost slot is outside of processEvents; the second run of a *)
(* payment finds the selection empty.                                       *)
StackFits(slots, sel) ==
    /\ slots \in Seq(Slot)
    /\ \A k \in 1 .. Len(slots) : slots[k].slot = "payment" => PaymentFits(slots[k], sel)
    /\ \A k \in 2 .. Len(slots) : slots[k].at \in Nested
    /\ slots # <<>> /\ slots[1].at = "again" => sel = <<>>

-----------------------------------------------------------------------------
(* Sequences and slots *)

(* A slot is known by its name. *)
LEMMA SlotKinds ==
  ASSUME NEW s \in Slot
  PROVE  /\ s.slot = "payment" => s \in Payment
         /\ s.slot = "inquiry" => s \in Inquiry
         /\ s.slot = "dialog" => s \in Dialog
         /\ s.slot \in {"payment", "inquiry", "dialog"}
  <1>1. CASE s \in Payment  BY <1>1 DEF Payment
  <1>2. CASE s \in Inquiry  BY <1>2 DEF Inquiry
  <1>3. CASE s \in Dialog  BY <1>3 DEF Dialog
  <1> QED  BY <1>1, <1>2, <1>3 DEF Slot

(* A slot pushed on a stack. *)
LEMMA Pushed ==
  ASSUME NEW S, NEW x \in S, NEW s \in Seq(S)
  PROVE  LET t == <<x>> \o s IN
         /\ t \in Seq(S) /\ Len(t) = Len(s) + 1 /\ t # <<>>
         /\ t[1] = x /\ \A k \in 2 .. Len(t) : t[k] = s[k - 1]
  OBVIOUS

(* A slot popped from a stack. *)
LEMMA Popped ==
  ASSUME NEW S, NEW s \in Seq(S), s # <<>>
  PROVE  /\ Head(s) = s[1] /\ s[1] \in S /\ Len(s) \in Nat \ {0}
         /\ Tail(s) \in Seq(S) /\ Len(Tail(s)) = Len(s) - 1
         /\ \A k \in 1 .. Len(Tail(s)) : Tail(s)[k] = s[k + 1]
  OBVIOUS

(* What Disturb leaves of a slot: all of it, but of a payment that is sending *)
(* orders what it knows of the selection.                                     *)
SlotDisturbed(s, t, moved) ==
    /\ t.slot = s.slot /\ t.at = s.at
    /\ ~(s.slot = "payment" /\ s.at \in {"order", "sent"}) => t = s
    /\ s.slot = "payment" /\ s.at \in {"order", "sent"} =>
         /\ t.run = s.run /\ t.sent = s.sent /\ t.asked = s.asked
         /\ t.alone = FALSE
         /\ t.valid => s.valid /\ ~moved

Forgetful(p, moved) == [p EXCEPT !.alone = FALSE, !.valid = @ /\ ~moved]

LEMMA DisturbedPayment ==
  ASSUME NEW p \in Payment, p.at \in {"order", "sent"}, NEW moved \in BOOLEAN
  PROVE  Forgetful(p, moved) \in Slot /\ SlotDisturbed(p, Forgetful(p, moved), moved)
  <1> DEFINE q == Forgetful(p, moved)
  <1>1. p.valid \in BOOLEAN /\ p.slot = "payment"  BY DEF Payment
  <1>2. (p.valid /\ ~moved) \in BOOLEAN  OBVIOUS
  <1>3. q \in Payment  BY <1>2 DEF Payment, Forgetful
  <1>4. q.valid = (p.valid /\ ~moved)  BY DEF Payment, Forgetful
  <1>5. /\ q.slot = p.slot /\ q.at = p.at /\ q.run = p.run
        /\ q.sent = p.sent /\ q.asked = p.asked
        /\ q.alone = FALSE
    BY DEF Payment, Forgetful
  <1> HIDE DEF q
  <1>6. q \in Slot /\ SlotDisturbed(p, q, moved)
    BY <1>1, <1>3, <1>4, <1>5 DEF SlotDisturbed, Slot
  <1> QED  BY <1>6 DEF q

LEMMA Disturbed ==
  ASSUME NEW slots \in Seq(Slot), NEW moved \in BOOLEAN
  PROVE  LET t == Disturb(slots, moved) IN
         /\ t \in Seq(Slot) /\ Len(t) = Len(slots)
         /\ \A k \in 1 .. Len(slots) : SlotDisturbed(slots[k], t[k], moved)
  <1> DEFINE sending(k) == slots[k].slot = "payment" /\ slots[k].at \in {"order", "sent"}
             t == Disturb(slots, moved)
  <1>1. DOMAIN slots = 1 .. Len(slots) /\ Len(slots) \in Nat  OBVIOUS
  <1>2. t = [k \in 1 .. Len(slots) |->
               IF sending(k) THEN Forgetful(slots[k], moved) ELSE slots[k]]
    BY <1>1 DEF Disturb, Forgetful
  <1>3. ASSUME NEW k \in 1 .. Len(slots)
        PROVE  t[k] \in Slot /\ SlotDisturbed(slots[k], t[k], moved)
    <2>0. slots[k] \in Slot  OBVIOUS
    <2> HIDE DEF t
    <2>1. CASE sending(k)
      <3>1. slots[k] \in Payment  BY <2>0, <2>1, SlotKinds
      <3>2. t[k] = Forgetful(slots[k], moved)  BY <1>2, <2>1
      <3> QED  BY <2>1, <3>1, <3>2, DisturbedPayment
    <2>2. CASE ~sending(k)
      <3>1. t[k] = slots[k]  BY <1>2, <2>2
      <3> QED  BY <2>0, <2>2, <3>1 DEF SlotDisturbed
    <2> QED  BY <2>1, <2>2
  <1> HIDE DEF t
  <1>4. \A k \in 1 .. Len(slots) : t[k] \in Slot  BY <1>3
  <1>5. t = [k \in 1 .. Len(slots) |-> t[k]]  BY <1>2
  <1>6. t \in Seq(Slot) /\ Len(t) = Len(slots)  BY <1>1, <1>4, <1>5
  <1> QED  BY <1>3, <1>6 DEF t
-----------------------------------------------------------------------------
(* Stacks *)

(* The innermost slot lets another one run on top of it. *)
Interrupted(slots) == slots # <<>> => slots[1].at \in Nested

(* A new slot goes on top of one that waits. *)
LEMMA PushFits ==
  ASSUME NEW sel, NEW slots, StackFits(slots, sel), Interrupted(slots),
         NEW x \in Slot, x.slot = "payment" => PaymentFits(x, sel),
         x.at = "again" => sel = <<>>
  PROVE  StackFits(<<x>> \o slots, sel)
  <1> DEFINE t == <<x>> \o slots
  <1>0. slots \in Seq(Slot) /\ Len(slots) \in Nat  BY DEF StackFits
  <1>1. /\ t \in Seq(Slot) /\ Len(t) = Len(slots) + 1
        /\ t[1] = x /\ \A k \in 2 .. Len(t) : t[k] = slots[k - 1]
    BY <1>0, Pushed
  <1> HIDE DEF t
  <1>2. \A k \in 1 .. Len(t) : t[k].slot = "payment" => PaymentFits(t[k], sel)
    <2> TAKE k \in 1 .. Len(t)
    <2>1. CASE k = 1  BY <2>1, <1>1
    <2>2. CASE k # 1
      <3>1. k - 1 \in 1 .. Len(slots) /\ t[k] = slots[k - 1]  BY <2>2, <1>0, <1>1
      <3> QED  BY <3>1 DEF StackFits
    <2> QED  BY <2>1, <2>2
  <1>3. \A k \in 2 .. Len(t) : t[k].at \in Nested
    <2> TAKE k \in 2 .. Len(t)
    <2>1. k - 1 \in 1 .. Len(slots) /\ t[k] = slots[k - 1]  BY <1>0, <1>1
    <2>2. CASE k = 2  BY <2>1, <2>2, <1>0 DEF Interrupted
    <2>3. CASE k # 2
      <3>1. k - 1 \in 2 .. Len(slots)  BY <2>1, <2>3, <1>0
      <3> QED  BY <2>1, <3>1 DEF StackFits
    <2> QED  BY <2>2, <2>3
  <1>4. StackFits(t, sel)  BY <1>1, <1>2, <1>3 DEF StackFits
  <1> QED  BY <1>4 DEF t

(* When the innermost slot returns, the one below it goes on. *)
LEMMA PopFits ==
  ASSUME NEW sel, NEW slots, StackFits(slots, sel), slots # <<>>
  PROVE  StackFits(Tail(slots), sel) /\ Interrupted(Tail(slots))
  <1> DEFINE t == Tail(slots)
  <1>0. slots \in Seq(Slot) /\ Len(slots) \in Nat \ {0}  BY Popped DEF StackFits
  <1>1. /\ t \in Seq(Slot) /\ Len(t) = Len(slots) - 1
        /\ \A k \in 1 .. Len(t) : t[k] = slots[k + 1]
    BY <1>0, Popped
  <1> HIDE DEF t
  <1>2. \A k \in 1 .. Len(t) : k + 1 \in 2 .. Len(slots) /\ k + 1 \in 1 .. Len(slots)
    BY <1>0, <1>1
  <1>3. \A k \in 1 .. Len(t) : /\ t[k].slot = "payment" => PaymentFits(t[k], sel)
                               /\ t[k].at \in Nested
    BY <1>1, <1>2 DEF StackFits
  <1>4. t # <<>> => 1 \in 1 .. Len(t)  BY <1>1
  <1>5. \A k \in 2 .. Len(t) : k \in 1 .. Len(t)  BY <1>0, <1>1
  <1>6. Interrupted(t)  BY <1>3, <1>4 DEF Interrupted
  <1>7. t # <<>> => t[1].at # "again"  BY <1>3, <1>4 DEF Nested
  <1>8. StackFits(t, sel)  BY <1>1, <1>3, <1>5, <1>7 DEF StackFits
  <1> QED  BY <1>6, <1>8 DEF t

(* The selection may change under the slots on a stack: a payment that is    *)
(* sending orders is told, and its iterators stay good only if the list was  *)
(* neither moved nor made shorter.                                           *)
LEMMA DisturbFits ==
  ASSUME NEW sel \in Seq(Product), NEW new \in Seq(Product), NEW moved \in BOOLEAN,
         NEW slots, StackFits(slots, sel), Interrupted(slots),
         moved \/ Len(new) >= Len(sel)
  PROVE  StackFits(Disturb(slots, moved), new) /\ Interrupted(Disturb(slots, moved))
  <1> DEFINE t == Disturb(slots, moved)
  <1>0. slots \in Seq(Slot) /\ Len(slots) \in Nat  BY DEF StackFits
  <1>1. /\ t \in Seq(Slot) /\ Len(t) = Len(slots)
        /\ \A k \in 1 .. Len(slots) : SlotDisturbed(slots[k], t[k], moved)
    BY <1>0, Disturbed
  <1> HIDE DEF t
  <1>2. \A k \in 1 .. Len(t) : t[k].slot = "payment" => PaymentFits(t[k], new)
    <2> SUFFICES ASSUME NEW k \in 1 .. Len(slots), t[k].slot = "payment"
                 PROVE  PaymentFits(t[k], new)
      BY <1>1
    <2> DEFINE p == slots[k]
               q == t[k]
    <2>1. SlotDisturbed(p, q, moved)  BY <1>1
    <2>2. p.slot = "payment"  BY <2>1 DEF SlotDisturbed
    <2>3. PaymentFits(p, sel)  BY <1>0, <2>2 DEF StackFits
    <2>4. p \in Payment /\ p \in Slot  BY <1>0, <2>2, SlotKinds
    <2> SUFFICES PaymentFits(q, new)  OBVIOUS
    <2> HIDE DEF p, q
    <2>5. CASE Sending(p)
      <3>1. /\ q.run = p.run /\ q.sent = p.sent /\ q.asked = p.asked /\ q.at = p.at
            /\ ~q.alone
        BY <2>1, <2>2, <2>5 DEF SlotDisturbed, Sending
      <3>2. q.valid => p.valid /\ ~moved  BY <2>1, <2>2, <2>5 DEF SlotDisturbed, Sending
      <3>3. p.valid => Len(p.asked) <= Len(sel)
        <4>1. Iterates(p, sel)  BY <2>3, <2>5 DEF PaymentFits
        <4> QED  BY <4>1 DEF Iterates
      <3>4. Len(p.asked) \in Nat /\ Len(sel) \in Nat /\ Len(new) \in Nat
        BY <2>4 DEF Payment
      <3>5. q.valid => Len(q.asked) <= Len(new)  BY <3>1, <3>2, <3>3, <3>4
      <3>6. p.run = 1 /\ Len(p.sent) <= Len(p.asked)  BY <2>3 DEF PaymentFits
      <3>7. q.at # "recorded"  BY <2>5, <3>1 DEF Sending
      <3>8. Iterates(q, new)  BY <3>1, <3>5 DEF Iterates
      <3> QED  BY <3>1, <3>6, <3>7, <3>8 DEF PaymentFits
    <2>6. CASE ~Sending(p)
      <3>1. q = p  BY <2>1, <2>6 DEF SlotDisturbed, Sending
      <3> QED  BY <2>3, <2>6, <3>1 DEF PaymentFits
    <2> QED  BY <2>5, <2>6
  <1>3. \A k \in 1 .. Len(slots) : t[k].at = slots[k].at  BY <1>1 DEF SlotDisturbed
  <1>4. \A k \in 2 .. Len(t) : t[k].at \in Nested
    <2>1. \A k \in 2 .. Len(slots) : k \in 1 .. Len(slots)  BY <1>0
    <2> QED  BY <1>1, <1>3, <2>1 DEF StackFits
  <1>5. t # <<>> => t[1].at \in Nested
    <2>1. t # <<>> => slots # <<>> /\ 1 \in 1 .. Len(slots)  BY <1>0, <1>1
    <2> QED  BY <1>3, <2>1 DEF Interrupted
  <1>6. t # <<>> => t[1].at # "again"  BY <1>5 DEF Nested
  <1>7. StackFits(t, new)  BY <1>1, <1>2, <1>4, <1>6 DEF StackFits
  <1> QED  BY <1>5, <1>7 DEF Interrupted, t

(* A stack whose slots fit the selection fits it still when nothing changes. *)
LEMMA EventLoop ==
  ASSUME StackFits(stack, selected), Dispatching
  PROVE  Interrupted(stack)
  <1> SUFFICES ASSUME stack # <<>> PROVE stack[1].at \in Nested  BY DEF Interrupted
  <1>1. Head(stack) = stack[1]  BY Popped DEF StackFits
  <1> QED  BY <1>1 DEF Dispatching, Nested
-----------------------------------------------------------------------------
(* Types, and the slots under way *)

StackInv == StackFits(stack, selected)

(* The types but for that of the stack, which StackInv gives. *)
Fields ==
    /\ selected \in Seq(Product) /\ breed \in Text
    /\ title \in Text /\ basic \in Seq(Breed) /\ waiting \in BOOLEAN
    /\ inbox \in Seq(Answer) /\ notified \in BOOLEAN /\ queries \in [Query -> Nat]
    /\ clicks \in 0 .. MaxClicks
    /\ overlapped \in BOOLEAN /\ dropped \in BOOLEAN

LEMMA FieldsAreTypes ==
  ASSUME Fields, StackInv
  PROVE  TypeOK
  <1>1. stack \in Seq(Payment \cup Inquiry \cup Dialog)  BY DEF StackInv, StackFits, Slot
  <1> QED  BY <1>1 DEF TypeOK, Fields

(* What is asked is counted. *)
LEMMA AskTypes ==
  ASSUME Fields, NEW verb, NEW about, [verb |-> verb, about |-> about] \in Query,
         Ask(verb, about)
  PROVE  queries' \in [Query -> Nat]
  BY DEF Ask, Fields

LEMMA QueryKinds ==
  ASSUME NEW q \in Query
  PROVE  \/ q = [verb |-> "MOTOR", about |-> None]
         \/ q = [verb |-> "RECO", about |-> None]
         \/ \E b \in Text : q = [verb |-> "DB_RECO", about |-> b]
  BY DEF Query

LEMMA AnswerTypes ==
  ASSUME NEW q \in Query, NEW a \in Answers(q)
  PROVE  a \in Answer
  <1>1. CASE q = [verb |-> "MOTOR", about |-> None]  BY <1>1 DEF Answers, Answer
  <1>2. CASE q = [verb |-> "RECO", about |-> None]  BY <1>2 DEF Answers, Answer
  <1>3. ASSUME NEW b \in Text, q = [verb |-> "DB_RECO", about |-> b] PROVE a \in Answer
    BY <1>3 DEF Answers, Answer
  <1> QED  BY <1>1, <1>2, <1>3, QueryKinds

(* The three ways in which a step leaves stack and selection. *)
LEMMA StackSame ==
  ASSUME StackInv, stack' = stack, selected' = selected
  PROVE  StackInv'
  <1>1. StackFits(stack', selected')  BY DEF StackInv
  <1> QED  BY <1>1 DEF StackInv

LEMMA ButtonSteps ==
  ASSUME Fields, StackInv,
         \/ \E p \in Product : ProductButton(p)
         \/ ClearButton \/ PaymentButton \/ RecommendButton \/ CloseWaiting
  PROVE  Fields' /\ StackInv'
  <1>0. Press /\ Interrupted(stack) /\ stack \in Seq(Slot)
    BY EventLoop DEF ProductButton, ClearButton, PaymentButton, RecommendButton, CloseWaiting,
       Press, StackInv, StackFits
  <1>1. clicks' \in 0 .. MaxClicks  BY <1>0, PanelConstants DEF Press, Fields
  <1>2. CASE \E p \in Product : ProductButton(p)
    <2>1. PICK p \in Product : ProductButton(p)  BY <1>2
    <2>2. PICK moved \in BOOLEAN : stack' = Disturb(stack, moved)  BY <2>1 DEF ProductButton
    <2>3. selected' \in Seq(Product) /\ Len(selected') >= Len(selected)
      BY <2>1 DEF ProductButton, Fields
    <2>4. StackFits(Disturb(stack, moved), selected')
      BY <1>0, <2>3, DisturbFits DEF StackInv, Fields
    <2>5. StackInv'  BY <2>2, <2>4 DEF StackInv
    <2> QED
      BY <1>1, <2>1, <2>3, <2>5 DEF ProductButton, Fields, advice, network, socket, history
  <1>3. CASE ClearButton
    <2>1. selected' = <<>> /\ stack' = Disturb(stack, TRUE)
      BY <1>3 DEF ClearButton, resetSelection
    <2>2. StackFits(Disturb(stack, TRUE), <<>>)
      <3>1. <<>> \in Seq(Product)  OBVIOUS
      <3> QED  BY <1>0, <3>1, DisturbFits DEF StackInv, Fields
    <2>3. StackInv'  BY <2>1, <2>2 DEF StackInv
    <2> QED
      BY <1>1, <1>3, <2>1, <2>3 DEF ClearButton, Fields, advice, network, socket, history
  <1>4. CASE PaymentButton
    <2>1. Begin(1, stack) /\ selected' = selected  BY <1>4 DEF PaymentButton
    <2>2. CASE selected = <<>>
      <3>1. stack' = stack /\ breed' = None  BY <2>1, <2>2 DEF Begin
      <3>2. StackInv'  BY <2>1, <3>1, StackSame
      <3> QED
        BY <1>1, <1>4, <2>1, <3>1, <3>2 DEF PaymentButton, Fields, advice, network, socket,
           history, Text
    <2>3. CASE selected # <<>>
      <3> DEFINE p == [slot |-> "payment", at |-> "order", run |-> 1, asked |-> selected,
                       sent |-> <<>>, record |-> {}, breed |-> None,
                       valid |-> TRUE, alone |-> TRUE]
      <3>1. stack' = <<p>> \o stack /\ breed' = breed  BY <2>1, <2>3 DEF Begin
      <3>2. p \in Slot  BY DEF Slot, Payment, Text, Fields
      <3>3. PaymentFits(p, selected) /\ p.at # "again"
        BY DEF PaymentFits, Sending, Iterates, Fields
      <3> HIDE DEF p
      <3>4. StackFits(<<p>> \o stack, selected)
        BY <1>0, <3>2, <3>3, PushFits DEF StackInv
      <3>5. StackInv'  BY <2>1, <3>1, <3>4 DEF StackInv
      <3> QED
        BY <1>1, <1>4, <2>1, <3>1, <3>5 DEF PaymentButton, Fields, advice, network, socket, history
    <2> QED  BY <2>2, <2>3
  <1>5. CASE RecommendButton
    <2>1. Ask("RECO", None) /\ waiting' = TRUE /\ stack' = stack
      BY <1>5 DEF RecommendButton, Recommend
    <2>2. queries' \in [Query -> Nat]
      <3>1. [verb |-> "RECO", about |-> None] \in Query  BY DEF Query
      <3> QED  BY <2>1, <3>1, AskTypes
    <2>3. StackInv'  BY <1>5, <2>1, StackSame DEF RecommendButton, selection
    <2> QED
      BY <1>1, <1>5, <2>1, <2>2, <2>3 DEF RecommendButton, Fields, selection, socket, history
  <1>6. CASE CloseWaiting
    <2>1. StackInv'  BY <1>6, StackSame DEF CloseWaiting, selection
    <2> QED
      BY <1>1, <1>6, <2>1 DEF CloseWaiting, Fields, selection, network, socket
  <1> QED  BY <1>2, <1>3, <1>4, <1>5, <1>6
(* The innermost slot is a payment: what is known of it. *)
LEMMA PaymentOnTop ==
  ASSUME StackInv, NEW at, Paying(at)
  PROVE  /\ stack # <<>> /\ Top = stack[1] /\ Top \in Payment /\ Top.slot = "payment"
         /\ Top.at = at /\ PaymentFits(Top, selected)
         /\ StackFits(Tail(stack), selected) /\ Interrupted(Tail(stack))
  <1>1. stack # <<>> /\ Top.slot = "payment" /\ Top.at = at  BY DEF Paying, Top
  <1>2. stack \in Seq(Slot) /\ StackFits(stack, selected)  BY DEF StackInv, StackFits
  <1>3. Top = stack[1] /\ Top \in Slot /\ 1 \in 1 .. Len(stack)
    BY <1>1, <1>2, Popped DEF Top
  <1>4. Top \in Payment  BY <1>1, <1>3, SlotKinds
  <1>5. PaymentFits(Top, selected)  BY <1>1, <1>2, <1>3 DEF StackFits
  <1>6. StackFits(Tail(stack), selected) /\ Interrupted(Tail(stack))
    BY <1>1, <1>2, PopFits
  <1> QED  BY <1>1, <1>3, <1>4, <1>5, <1>6

(* The innermost slot goes on. *)
LEMMA TopFits ==
  ASSUME StackInv, NEW at, Paying(at), NEW x \in Payment, PaymentFits(x, selected),
         x.at # "again", Update(x), selected' = selected
  PROVE  StackInv'
  <1>1. StackFits(Tail(stack), selected) /\ Interrupted(Tail(stack))  BY PaymentOnTop
  <1>2. x \in Slot  BY DEF Slot
  <1>3. StackFits(<<x>> \o Tail(stack), selected)  BY <1>1, <1>2, PushFits
  <1> QED  BY <1>3 DEF StackInv, Update

LEMMA SendOrderStep ==
  ASSUME Fields, StackInv, SendOrder
  PROVE  Fields' /\ StackInv'
  <1> DEFINE t == Top
  <1>0. /\ t \in Payment /\ t.at = "order" /\ PaymentFits(t, selected)
        /\ Len(t.sent) < Len(t.asked) /\ Paying("order")
    BY PaymentOnTop DEF SendOrder
  <1>1. PICK p \in IF t.valid THEN {selected[Len(t.sent) + 1]} ELSE Product \cup {Other} :
          Update([t EXCEPT !.at = "sent", !.sent = Append(@, p)])
    BY DEF SendOrder
  <1> DEFINE x == [t EXCEPT !.at = "sent", !.sent = Append(@, p)]
  <1>2. selected' = selected /\ Ask("MOTOR", None)  BY DEF SendOrder, selection
  <1> HIDE DEF t
  <1>3. t.sent \in Seq(Product \cup {Other}) /\ t.asked \in Seq(Product)  BY <1>0 DEF Payment
  <1>4. selected \in Seq(Product)  BY DEF Fields
  <1>5. Iterates(t, selected)  BY <1>0 DEF PaymentFits, Sending
  <1>6. p \in Product \cup {Other}
    <2>1. CASE t.valid
      <3>1. p = selected[Len(t.sent) + 1]  BY <1>1, <2>1
      <3>2. Len(t.asked) <= Len(selected)  BY <1>5, <2>1 DEF Iterates
      <3>3. Len(t.sent) + 1 \in 1 .. Len(selected)  BY <1>0, <1>3, <1>4, <3>2
      <3> QED  BY <1>4, <3>1, <3>3
    <2>2. CASE ~t.valid  BY <1>1, <2>2
    <2> QED  BY <2>1, <2>2
  <1>7. /\ x \in Payment /\ x.at = "sent" /\ x.sent = Append(t.sent, p)
        /\ x.asked = t.asked /\ x.run = t.run /\ x.valid = t.valid /\ x.alone = t.alone
    <2> DEFINE s == Append(t.sent, p)
    <2>1. s \in Seq(Product \cup {Other})  BY <1>3, <1>6
    <2>2. x = [t EXCEPT !.at = "sent", !.sent = s]  OBVIOUS
    <2> HIDE DEF s, x
    <2>3. x \in Payment  BY <1>0, <2>1, <2>2 DEF Payment
    <2>4. /\ x.at = "sent" /\ x.sent = s /\ x.asked = t.asked /\ x.run = t.run
          /\ x.valid = t.valid /\ x.alone = t.alone
      BY <1>0, <2>2 DEF Payment
    <2> QED  BY <2>3, <2>4 DEF s
  <1>8. x.alone => p = x.asked[Len(t.sent) + 1]
    <2>1. SUFFICES ASSUME x.alone PROVE p = x.asked[Len(t.sent) + 1]  OBVIOUS
    <2>2. t.alone  BY <1>7, <2>1, Zenon
    <2>3. t.valid /\ selected = t.asked  BY <1>5, <2>2 DEF Iterates
    <2>4. p = selected[Len(t.sent) + 1]  BY <1>1, <2>3
    <2> QED  BY <1>7, <2>3, <2>4
  <1> HIDE DEF x
  <1>9. Len(x.sent) <= Len(x.asked)  BY <1>0, <1>3, <1>6, <1>7
  <1>10. Iterates(x, selected)
    <2>1. x.valid => Len(x.asked) <= Len(selected)  BY <1>5, <1>7 DEF Iterates
    <2>2. SUFFICES ASSUME x.alone
                   PROVE  /\ x.valid /\ selected = x.asked
                          /\ \A k \in 1 .. Len(x.sent) : x.sent[k] = x.asked[k]
      BY <2>1 DEF Iterates
    <2>3. t.alone  BY <1>7, <2>2, Zenon
    <2>4. t.valid /\ selected = t.asked /\ \A k \in 1 .. Len(t.sent) : t.sent[k] = t.asked[k]
      BY <1>5, <2>3 DEF Iterates
    <2>5. x.valid /\ selected = x.asked  BY <1>7, <2>4, Zenon
    <2>6. ASSUME NEW k \in 1 .. Len(x.sent) PROVE x.sent[k] = x.asked[k]
      <3>1. CASE k = Len(t.sent) + 1
        <4>1. x.sent[k] = p  BY <1>3, <1>6, <1>7, <3>1
        <4> QED  BY <1>8, <2>2, <3>1, <4>1
      <3>2. CASE k # Len(t.sent) + 1
        <4>1. k \in 1 .. Len(t.sent) /\ x.sent[k] = t.sent[k]  BY <1>3, <1>6, <1>7, <3>2
        <4> QED  BY <1>7, <2>4, <4>1
      <3> QED  BY <3>1, <3>2
    <2> QED  BY <2>5, <2>6
  <1>11. PaymentFits(x, selected)
    <2>1. x.run = 1  BY <1>0, <1>7 DEF PaymentFits
    <2> QED  BY <1>7, <1>9, <1>10, <2>1 DEF PaymentFits
  <1>12. StackInv'
    <2>1. Update(x)  BY <1>1 DEF x
    <2> QED  BY <1>0, <1>2, <1>7, <1>11, <2>1, TopFits
  <1>13. queries' \in [Query -> Nat]
    <2>1. [verb |-> "MOTOR", about |-> None] \in Query  BY DEF Query
    <2> QED  BY <1>2, <2>1, AskTypes
  <1> QED
    BY <1>12, <1>13 DEF SendOrder, Fields, selection, advice, socket, history

LEMMA NextOrderStep ==
  ASSUME Fields, StackInv, NextOrder
  PROVE  Fields' /\ StackInv'
  <1> DEFINE t == Top
             x == [t EXCEPT !.at = "order"]
  <1>0. t \in Payment /\ t.at = "sent" /\ PaymentFits(t, selected) /\ Paying("sent")
    BY PaymentOnTop DEF NextOrder
  <1>1. Update(x) /\ selected' = selected  BY DEF NextOrder, selection
  <1> HIDE DEF t
  <1>2. /\ x \in Payment /\ x.at = "order" /\ x.sent = t.sent
        /\ x.asked = t.asked /\ x.run = t.run /\ x.valid = t.valid /\ x.alone = t.alone
    BY <1>0 DEF Payment
  <1> HIDE DEF x
  <1>3. Iterates(t, selected)  BY <1>0 DEF PaymentFits, Sending
  <1>4. Iterates(x, selected)  BY <1>2, <1>3, Zenon DEF Iterates
  <1>5. x.run = 1 /\ Len(x.sent) <= Len(x.asked)  BY <1>0, <1>2 DEF PaymentFits
  <1>6. PaymentFits(x, selected)  BY <1>2, <1>4, <1>5 DEF PaymentFits
  <1>7. StackInv'  BY <1>0, <1>1, <1>2, <1>6, TopFits
  <1> QED
    BY <1>7 DEF NextOrder, Fields, selection, advice, network, socket, history

LEMMA SendRecordStep ==
  ASSUME Fields, StackInv, SendRecord
  PROVE  Fields' /\ StackInv'
  <1> DEFINE t == Top
             x == [t EXCEPT !.at = "recorded", !.record = itemFlags, !.breed = breed]
  <1>0. /\ t \in Payment /\ t.at = "order" /\ PaymentFits(t, selected)
        /\ Len(t.sent) = Len(t.asked) /\ Paying("order")
    BY PaymentOnTop DEF SendRecord
  <1>1. Update(x) /\ selected' = selected  BY DEF SendRecord, selection
  <1> HIDE DEF t
  <1>2. itemFlags \in SUBSET Recorded /\ breed \in Text  BY DEF itemFlags, Fields
  <1>3. /\ x \in Payment /\ x.at = "recorded" /\ x.sent = t.sent /\ x.record = itemFlags
        /\ x.asked = t.asked /\ x.run = t.run /\ x.alone = t.alone
    BY <1>0, <1>2 DEF Payment
  <1> HIDE DEF x
  <1>4. Completed(x)
    <2>1. Len(x.sent) = Len(x.asked)  BY <1>0, <1>3
    <2>2. SUFFICES ASSUME x.alone
                   PROVE  x.sent = x.asked /\ x.record = SeqRange(x.asked) \cap Recorded
      BY <2>1 DEF Completed
    <2>3. t.alone  BY <1>3, <2>2, Zenon
    <2>4. Iterates(t, selected)  BY <1>0 DEF PaymentFits, Sending
    <2>5. selected = t.asked /\ \A k \in 1 .. Len(t.sent) : t.sent[k] = t.asked[k]
      BY <2>3, <2>4 DEF Iterates
    <2>6. t.sent \in Seq(Product \cup {Other}) /\ t.asked \in Seq(Product)
      BY <1>0 DEF Payment
    <2>7. t.asked \in Seq(Product \cup {Other})  BY <2>6
    <2>8. t.sent = t.asked  BY <1>0, <2>5, <2>6, <2>7
    <2>9. itemFlags = SeqRange(t.asked) \cap Recorded  BY <2>5 DEF itemFlags, SeqRange
    <2> QED  BY <1>3, <2>8, <2>9
  <1>5. x.run = 1 /\ Len(x.sent) <= Len(x.asked)  BY <1>0, <1>3 DEF PaymentFits
  <1>6. PaymentFits(x, selected)  BY <1>3, <1>4, <1>5 DEF PaymentFits, Sending
  <1>7. StackInv'  BY <1>0, <1>1, <1>3, <1>6, TopFits
  <1> QED
    BY <1>7 DEF SendRecord, Fields, selection, advice, network, socket, history

LEMMA EndPaymentStep ==
  ASSUME Fields, StackInv, EndPayment
  PROVE  Fields' /\ StackInv'
  <1> DEFINE t == Top
             x == [t EXCEPT !.at = "again"]
             rest == Disturb(Tail(stack), TRUE)
  <1>0. /\ t \in Payment /\ PaymentFits(t, selected)
        /\ StackFits(Tail(stack), selected) /\ Interrupted(Tail(stack))
    BY PaymentOnTop DEF EndPayment
  <1>1. selected' = <<>> /\ breed' = None  BY DEF EndPayment, resetSelection
  <1>2. t.run = 1  BY <1>0 DEF PaymentFits
  <1>3. stack' = <<x>> \o rest  BY <1>2 DEF EndPayment
  <1>4. StackFits(rest, <<>>) /\ Interrupted(rest)
    <2>1. <<>> \in Seq(Product)  OBVIOUS
    <2> QED  BY <1>0, <2>1, DisturbFits DEF Fields
  <1> HIDE DEF t, rest
  <1>5. /\ x \in Payment /\ x.at = "again" /\ x.sent = t.sent
        /\ x.asked = t.asked /\ x.run = t.run
    BY <1>0 DEF Payment
  <1> HIDE DEF x
  <1>6. PaymentFits(x, <<>>)  BY <1>0, <1>5 DEF PaymentFits, Sending
  <1>7. StackFits(<<x>> \o rest, <<>>)  BY <1>4, <1>5, <1>6, PushFits DEF Slot
  <1>8. StackInv'  BY <1>1, <1>3, <1>7 DEF StackInv
  <1>9. selected' \in Seq(Product) /\ breed' \in Text  BY <1>1 DEF Text
  <1> QED
    BY <1>8, <1>9 DEF EndPayment, Fields, advice, network, socket, history

(* The second run of the slot: the first one has emptied the selection. *)
LEMMA SecondRunStep ==
  ASSUME Fields, StackInv, SecondRun
  PROVE  Fields' /\ StackInv'
  <1>1. StackFits(Tail(stack), selected)  BY PaymentOnTop DEF SecondRun
  <1>2. selected = <<>>
    <2>1. stack # <<>> /\ stack[1].at = "again"  BY PaymentOnTop DEF SecondRun
    <2> QED  BY <2>1 DEF StackInv, StackFits
  <1>3. stack' = Tail(stack) /\ breed' = None /\ selected' = selected
    BY <1>2 DEF SecondRun, Begin
  <1>4. StackInv'  BY <1>1, <1>3 DEF StackInv
  <1>5. breed' \in Text  BY <1>3 DEF Text
  <1> QED
    BY <1>4, <1>5 DEF SecondRun, Fields, advice, network, socket, history
(* What is read from the socket is an answer of one of the peers. *)
LEMMA FirstAnswer ==
  ASSUME Fields, Read
  PROVE  /\ Head(inbox) \in Answer /\ Head(inbox) = inbox[1]
         /\ 1 \in 1 .. Len(inbox) /\ inbox' \in Seq(Answer)
  BY Popped DEF Fields, Read

LEMMA AnswerKinds ==
  ASSUME NEW a \in Answer
  PROVE  /\ IsBreed(a) => a.about \in Breed \cup {Other}
         /\ IsFavourites(a) => a.about \in Text
  <1>1. CASE a \in [verb : {"ACK"}, about : {None}]
    BY <1>1 DEF IsBreed, IsFavourites
  <1>2. CASE a \in [verb : {"BREED"}, about : Breed \cup {Other}]
    BY <1>2 DEF IsBreed, IsFavourites
  <1>3. CASE a \in [verb : {"DB_BREED"}, about : Text]
    BY <1>3 DEF IsBreed, IsFavourites
  <1> QED  BY <1>1, <1>2, <1>3 DEF Answer

LEMMA SocketSteps ==
  ASSUME Fields, StackInv, Socket
  PROVE  Fields' /\ StackInv'
  <1>5. CASE BufferOnly
    <2>1. StackInv'  BY <1>5, StackSame DEF BufferOnly, selection
    <2> QED  BY <1>5, <2>1 DEF BufferOnly, Fields, selection, advice, history
  <1> SUFFICES ASSUME ~BufferOnly PROVE Fields' /\ StackInv'  BY <1>5
  <1>0. Read /\ notified' \in BOOLEAN
    BY DEF Socket, ReadBreed, ReadFavourites, ReadOther, Read
  <1>1. /\ Interrupted(stack) /\ selected' = selected /\ clicks' = clicks
        /\ overlapped' = overlapped /\ dropped' \in BOOLEAN
        /\ inbox' \in Seq(Answer) /\ Head(inbox) \in Answer
    <2>1. Interrupted(stack)  BY <1>0, EventLoop DEF Read, StackInv
    <2>2. dropped' \in BOOLEAN  BY <1>0 DEF Read, Fields
    <2> QED  BY <1>0, <2>1, <2>2, FirstAnswer DEF Read
  <1>2. CASE ReadBreed
    <2> DEFINE x == [slot |-> "inquiry", at |-> "asked"]
    <2>1. breed' \in Breed \cup {Other}  BY <1>1, <1>2, AnswerKinds DEF ReadBreed
    <2>2. [verb |-> "DB_RECO", about |-> breed'] \in Query  BY <2>1 DEF Query, Text
    <2>3. queries' \in [Query -> Nat]  BY <1>2, <2>2, AskTypes DEF ReadBreed
    <2>4. stack' = <<x>> \o stack  BY <1>2 DEF ReadBreed
    <2>5. x \in Slot /\ x.slot # "payment" /\ x.at # "again"  BY DEF Slot, Inquiry
    <2> HIDE DEF x
    <2>6. StackFits(<<x>> \o stack, selected)  BY <1>1, <2>5, PushFits DEF StackInv
    <2>7. StackInv'  BY <1>1, <2>4, <2>6 DEF StackInv
    <2> QED  BY <1>0, <1>1, <1>2, <2>1, <2>3, <2>7 DEF ReadBreed, Fields, advice, Text
  <1>3. CASE ReadFavourites
    <2> DEFINE x == [slot |-> "dialog", at |-> "shown", title |-> title,
                     basic |-> basic, db |-> Head(inbox).about]
    <2>1. Head(inbox).about \in Text  BY <1>1, <1>3, AnswerKinds DEF ReadFavourites
    <2>2. stack' = <<x>> \o stack  BY <1>3 DEF ReadFavourites
    <2>3. x \in Slot /\ x.slot # "payment" /\ x.at # "again"
      BY <2>1 DEF Slot, Dialog, Fields
    <2> HIDE DEF x
    <2>4. StackFits(<<x>> \o stack, selected)  BY <1>1, <2>3, PushFits DEF StackInv
    <2>5. StackInv'  BY <1>1, <2>2, <2>4 DEF StackInv
    <2> QED  BY <1>0, <1>1, <1>3, <2>5 DEF ReadFavourites, Fields
  <1>4. CASE ReadOther
    <2>1. StackInv'  BY <1>1, <1>4, StackSame DEF ReadOther
    <2> QED  BY <1>0, <1>1, <1>4, <2>1 DEF ReadOther, Fields, advice
  <1> QED  BY <1>2, <1>3, <1>4 DEF Socket

(* The slots that return: the rest of an inquiry, and a dialog. *)
LEMMA ReturnSteps ==
  ASSUME Fields, StackInv, Classify \/ DialogOk
  PROVE  Fields' /\ StackInv'
  <1>1. stack # <<>> /\ stack' = Tail(stack) /\ selected' = selected /\ breed' = breed
    BY DEF Classify, DialogOk, selection
  <1>2. StackFits(Tail(stack), selected)  BY <1>1, PopFits DEF StackInv
  <1>3. StackInv'  BY <1>1, <1>2 DEF StackInv
  <1>4. CASE Classify
    <2>1. title' \in Text /\ basic' \in Seq(Breed)
      <3>1. CASE breed \in Breed
        <4>1. title' = breed /\ basic' = Append(basic, breed)  BY <1>4, <3>1 DEF Classify
        <4> QED  BY <3>1, <4>1 DEF Fields
      <3>2. CASE breed \notin Breed
        <4>1. title' = Other /\ basic' = basic  BY <1>4, <3>2 DEF Classify
        <4> QED  BY <4>1 DEF Fields, Text
      <3> QED  BY <3>1, <3>2
    <2> QED  BY <1>1, <1>3, <1>4, <2>1 DEF Classify, Fields, network, socket, history
  <1>5. CASE DialogOk
    <2>1. basic' \in Seq(Breed)  BY <1>5 DEF DialogOk, ClearLists
    <2> QED  BY <1>1, <1>3, <1>5, <2>1 DEF DialogOk, Fields, network, socket, history
  <1> QED  BY <1>4, <1>5

LEMMA PeerSteps ==
  ASSUME Fields, StackInv, Peers
  PROVE  Fields' /\ StackInv'
  <1>1. PICK q \in Query : Reply(q)  BY DEF Peers
  <1>2. queries' \in [Query -> Nat]
    <2>1. queries[q] \in Nat /\ queries[q] > 0  BY <1>1 DEF Reply, Fields
    <2>2. queries[q] - 1 \in Nat  BY <2>1
    <2> QED  BY <1>1, <2>2 DEF Reply, Fields
  <1>3. inbox' \in Seq(Answer)
    <2>1. PICK a \in Answers(q) : inbox' = Append(inbox, a)  BY <1>1 DEF Reply
    <2>2. a \in Answer  BY AnswerTypes
    <2> QED  BY <2>1, <2>2 DEF Fields
  <1>4. dropped' \in BOOLEAN  BY <1>1 DEF Reply, Fields
  <1>5. StackInv'  BY <1>1, StackSame DEF Reply, selection
  <1> QED  BY <1>1, <1>2, <1>3, <1>4, <1>5 DEF Reply, Fields, selection, advice

LEMMA TypesKept ==
  ASSUME Fields, StackInv, [Next]_vars
  PROVE  Fields' /\ StackInv'
  <1>1. CASE Customer  BY <1>1, ButtonSteps, ReturnSteps DEF Customer
  <1>2. CASE Slots
    BY <1>2, SendOrderStep, NextOrderStep, SendRecordStep, EndPaymentStep, SecondRunStep,
       ReturnSteps DEF Slots
  <1>3. CASE Socket  BY <1>3, SocketSteps
  <1>4. CASE Peers  BY <1>4, PeerSteps
  <1>5. CASE UNCHANGED vars
    <2>1. StackInv'  BY <1>5, StackSame DEF vars, selection
    <2> QED  BY <1>5, <2>1 DEF vars, selection, advice, network, socket, history, Fields
  <1> QED  BY <1>1, <1>2, <1>3, <1>4, <1>5 DEF Next

LEMMA TypesInitially ==
  ASSUME Init
  PROVE  Fields /\ StackInv
  <1>1. Fields
    <2>1. selected \in Seq(Product) /\ basic \in Seq(Breed) /\ inbox \in Seq(Answer)
      BY DEF Init
    <2>2. breed \in Text /\ title \in Text  BY DEF Init, Text
    <2>3. queries \in [Query -> Nat]  BY DEF Init
    <2>4. clicks \in 0 .. MaxClicks  BY PanelConstants DEF Init
    <2>5. /\ waiting \in BOOLEAN /\ overlapped \in BOOLEAN /\ dropped \in BOOLEAN
          /\ notified \in BOOLEAN
      BY DEF Init
    <2> QED  BY <2>1, <2>2, <2>3, <2>4, <2>5 DEF Fields
  <1>2. stack = <<>> /\ selected = <<>>  BY DEF Init
  <1>3. StackFits(<<>>, <<>>)
    <2>1. <<>> \in Seq(Slot) /\ Len(<<>>) = 0  OBVIOUS
    <2> QED  BY <2>1 DEF StackFits
  <1> QED  BY <1>1, <1>2, <1>3 DEF StackInv

LEMMA TypesAlways == Spec => [](Fields /\ StackInv)
  <1>1. Init => Fields /\ StackInv  BY TypesInitially
  <1>2. (Fields /\ StackInv) /\ [Next]_vars => (Fields /\ StackInv)'
    BY TypesKept
  <1> QED  BY <1>1, <1>2, PTL DEF Spec

(* Every variable of the panel stays in its range: no payment reads past the *)
(* end of a selection it iterates over, unless it was moved under it.        *)
THEOREM PanelTypes == Spec => []TypeOK
  <1>1. Fields /\ StackInv => TypeOK  BY FieldsAreTypes
  <1> QED  BY <1>1, TypesAlways, PTL

(* The payments under way fit the selection. *)
LEMMA PaymentsFit ==
  ASSUME StackInv, NEW p \in Payments
  PROVE  p \in Payment /\ PaymentFits(p, selected)
  <1>1. stack \in Seq(Slot)  BY DEF StackInv, StackFits
  <1>2. PICK k \in 1 .. Len(stack) : p = stack[k] /\ p.slot = "payment"
    BY <1>1 DEF Payments
  <1>3. p \in Slot  BY <1>1, <1>2
  <1>4. p \in Payment  BY <1>2, <1>3, SlotKinds
  <1> QED  BY <1>2, <1>4 DEF StackInv, StackFits

(* One press pays once: the second run of the doubly connected slot always   *)
(* finds the selection emptied by the first, whatever ran in between.        *)
THEOREM OnePayment == Spec => []OnePaymentPerPress
  <1>1. Fields /\ StackInv => OnePaymentPerPress
    BY PaymentsFit DEF OnePaymentPerPress, PaymentFits
  <1> QED  BY <1>1, TypesAlways, PTL

(* What was paid for is what was selected: as many orders as products at the *)
(* press, and, if no button touched the selection meanwhile, these products  *)
(* in their order and in the record.                                         *)
THEOREM PaymentMatches == Spec => []PaymentMatchesSelection
  <1>1. ASSUME Fields, StackInv
        PROVE  PaymentMatchesSelection
    <2> SUFFICES ASSUME NEW p \in Payments, p.at = "recorded"
                 PROVE  /\ Len(p.sent) = Len(p.asked)
                        /\ p.alone => /\ p.sent = p.asked
                                      /\ p.record = SeqRange(p.asked) \cap Recorded
      BY DEF PaymentMatchesSelection
    <2>1. PaymentFits(p, selected)  BY <1>1, PaymentsFit
    <2>2. Completed(p)  BY <2>1 DEF PaymentFits
    <2> QED  BY <2>2 DEF Completed
  <1>2. Fields /\ StackInv => PaymentMatchesSelection  BY <1>1
  <1> QED  BY <1>2, TypesAlways, PTL
-----------------------------------------------------------------------------
(* A dialog is about one breed: from the press of the button to the dialog   *)
(* there is one question under way, in one place.                            *)

Reco == [verb |-> "RECO", about |-> None]
DbReco(b) == [verb |-> "DB_RECO", about |-> b]

(* The slots under way that belong to a recommendation. *)
Asides(slots) == {slots[k] : k \in {j \in 1 .. Len(slots) : slots[j].slot # "payment"}}
NoInquiry(slots) == \A s \in Asides(slots) : s.slot # "inquiry"
NoDialog(slots) == \A s \in Asides(slots) : s.slot # "dialog"

NoBreed == \A k \in 1 .. Len(inbox) : inbox[k].verb # "BREED"
NoFavourites == \A k \in 1 .. Len(inbox) : inbox[k].verb # "DB_BREED"
FavouritesOf(b) == \A k \in 1 .. Len(inbox) : inbox[k].verb = "DB_BREED" => inbox[k].about = b
NoDbReco == \A c \in Text : queries[DbReco(c)] = 0
OnlyDbReco(b) == queries[DbReco(b)] = 1 /\ \A c \in Text : c # b => queries[DbReco(c)] = 0

Known(b) == IF b \in Breed THEN <<b>> ELSE <<>>
Right(d) == d.db = d.title /\ d.basic = Known(d.title)

(* Nothing is under way, or its dialog is open. *)
Idle ==
    /\ waiting = FALSE
    /\ queries[Reco] = 0 /\ NoBreed /\ NoDbReco /\ NoFavourites
    /\ NoInquiry(stack)
    /\ \A s \in Asides(stack) : s.slot = "dialog" => Right(s)
    /\ NoDialog(stack) => basic = <<>>

(* The camera was asked, has answered, or its answer was lost. *)
Requested ==
    /\ waiting = TRUE
    /\ NoDbReco /\ NoFavourites
    /\ NoInquiry(stack) /\ NoDialog(stack) /\ basic = <<>>
    /\ queries[Reco] = 0 \/ (queries[Reco] = 1 /\ NoBreed)

(* The database was asked about b, and the slot that asked is under way. *)
Inquiring(b) ==
    /\ stack # <<>> /\ stack[1].slot = "inquiry" /\ NoInquiry(Tail(stack))
    /\ breed = b /\ basic = <<>>
Queried(b) ==
    /\ waiting = TRUE
    /\ queries[Reco] = 0 /\ NoBreed /\ NoDialog(stack)
    /\ FavouritesOf(b) /\ (NoDbReco \/ (OnlyDbReco(b) /\ NoFavourites))
    /\ \/ Inquiring(b)
       \/ NoInquiry(stack) /\ title = b /\ basic = Known(b)

AdviceInv ==
    overlapped \/ Idle \/ Requested \/ \E b \in Breed \cup {Other} : Queried(b)

(* Asides of a stack that grows, shrinks or is told of a new selection. *)
LEMMA AsidesPushed ==
  ASSUME NEW slots \in Seq(Slot), NEW x \in Slot
  PROVE  Asides(<<x>> \o slots) =
           Asides(slots) \cup (IF x.slot = "payment" THEN {} ELSE {x})
  <1> DEFINE t == <<x>> \o slots
  <1>1. /\ Len(t) = Len(slots) + 1 /\ Len(slots) \in Nat
        /\ t[1] = x /\ \A k \in 2 .. Len(t) : t[k] = slots[k - 1]
    BY Pushed
  <1> HIDE DEF t
  <1>2. ASSUME NEW s \in Asides(t)
        PROVE  s \in Asides(slots) \/ (s = x /\ x.slot # "payment")
    <2>1. PICK k \in 1 .. Len(t) : s = t[k] /\ t[k].slot # "payment"  BY DEF Asides
    <2>2. CASE k = 1  BY <1>1, <2>1, <2>2
    <2>3. CASE k # 1
      <3>1. k - 1 \in 1 .. Len(slots) /\ s = slots[k - 1]  BY <1>1, <2>1, <2>3
      <3> QED  BY <2>1, <3>1 DEF Asides
    <2> QED  BY <2>2, <2>3
  <1>3. ASSUME NEW s \in Asides(slots)
        PROVE  s \in Asides(t)
    <2>1. PICK k \in 1 .. Len(slots) : s = slots[k] /\ s.slot # "payment"  BY DEF Asides
    <2>2. k + 1 \in 2 .. Len(t) /\ k + 1 \in 1 .. Len(t) /\ (k + 1) - 1 = k  BY <1>1
    <2>3. t[k + 1] = s  BY <1>1, <2>1, <2>2
    <2> QED  BY <2>1, <2>2, <2>3 DEF Asides
  <1>4. x.slot # "payment" => x \in Asides(t)
    <2>1. 1 \in 1 .. Len(t)  BY <1>1
    <2> QED  BY <1>1, <2>1 DEF Asides
  <1>5. Asides(t) = Asides(slots) \cup (IF x.slot = "payment" THEN {} ELSE {x})
    BY <1>2, <1>3, <1>4
  <1> QED  BY <1>5 DEF t

LEMMA AsidesPopped ==
  ASSUME NEW slots \in Seq(Slot), slots # <<>>
  PROVE  Asides(slots) =
           Asides(Tail(slots)) \cup (IF slots[1].slot = "payment" THEN {} ELSE {slots[1]})
  <1>1. Tail(slots) \in Seq(Slot) /\ slots[1] \in Slot  BY Popped
  <1>2. slots = <<slots[1]>> \o Tail(slots)  OBVIOUS
  <1>3. Asides(<<slots[1]>> \o Tail(slots)) =
          Asides(Tail(slots)) \cup (IF slots[1].slot = "payment" THEN {} ELSE {slots[1]})
    BY <1>1, AsidesPushed
  <1> QED  BY <1>2, <1>3

LEMMA AsidesDisturbed ==
  ASSUME NEW slots \in Seq(Slot), NEW moved \in BOOLEAN
  PROVE  Asides(Disturb(slots, moved)) = Asides(slots)
  <1> DEFINE t == Disturb(slots, moved)
  <1>1. /\ Len(t) = Len(slots)
        /\ \A k \in 1 .. Len(slots) : SlotDisturbed(slots[k], t[k], moved)
    BY Disturbed
  <1> HIDE DEF t
  <1>2. \A k \in 1 .. Len(slots) : /\ t[k].slot = slots[k].slot
                                   /\ slots[k].slot # "payment" => t[k] = slots[k]
    BY <1>1 DEF SlotDisturbed
  <1>3. Asides(t) = Asides(slots)  BY <1>1, <1>2 DEF Asides
  <1> QED  BY <1>3 DEF t
(* Steps of customers and payments that touch nothing of a recommendation.   *)
LEMMA QuietStep ==
  ASSUME AdviceInv,
         (waiting = FALSE) \/ (stack # <<>> /\ stack[1].slot = "payment"),
         UNCHANGED <<title, basic, waiting, inbox, overlapped>>,
         queries'[Reco] = queries[Reco],
         \A c \in Text : queries'[DbReco(c)] = queries[DbReco(c)],
         Asides(stack') = Asides(stack)
  PROVE  AdviceInv'
  <1>1. NoBreed' = NoBreed /\ NoFavourites' = NoFavourites
    BY DEF NoBreed, NoFavourites
  <1>2. NoDbReco => NoDbReco'  BY DEF NoDbReco
  <1>3. /\ NoInquiry(stack) => NoInquiry(stack')
        /\ NoDialog(stack) <=> NoDialog(stack')
    BY DEF NoInquiry, NoDialog
  <1>4. CASE overlapped  BY <1>4 DEF AdviceInv
  <1>5. CASE Idle
    <2>1. Idle'  BY <1>1, <1>2, <1>3, <1>5 DEF Idle
    <2> QED  BY <2>1 DEF AdviceInv
  <1>6. CASE Requested
    <2>1. Requested'  BY <1>1, <1>2, <1>3, <1>6 DEF Requested
    <2> QED  BY <2>1 DEF AdviceInv
  <1>7. ASSUME NEW b \in Breed \cup {Other}, Queried(b)
        PROVE  AdviceInv'
    <2>1. b \in Text /\ ~Inquiring(b)  BY <1>7 DEF Text, Queried, Inquiring
    <2>2. OnlyDbReco(b) => OnlyDbReco(b)'  BY <2>1 DEF OnlyDbReco
    <2>3. FavouritesOf(b) => FavouritesOf(b)'  BY DEF FavouritesOf
    <2>4. NoInquiry(stack) /\ title = b /\ basic = Known(b)  BY <1>7, <2>1 DEF Queried
    <2>5. NoInquiry(stack') /\ title' = b /\ basic' = Known(b)  BY <1>3, <2>4
    <2>6. Queried(b)'  BY <1>1, <1>2, <1>3, <1>7, <2>2, <2>3, <2>5 DEF Queried
    <2> QED  BY <2>6 DEF AdviceInv
  <1> QED  BY <1>4, <1>5, <1>6, <1>7 DEF AdviceInv

(* A question does not count for another one. *)
LEMMA AskOthers ==
  ASSUME Fields, NEW verb, NEW about, Ask(verb, about),
         NEW q \in Query, q # [verb |-> verb, about |-> about]
  PROVE  queries'[q] = queries[q]
  BY DEF Ask, Fields

LEMMA RecommendationQueries ==
  Reco \in Query /\ \A b \in Text : DbReco(b) \in Query
  BY DEF Query, Reco, DbReco

LEMMA QuietActions ==
  ASSUME Fields, StackInv, AdviceInv,
         \/ \E p \in Product : ProductButton(p)
         \/ ClearButton \/ PaymentButton
         \/ SendOrder \/ NextOrder \/ SendRecord \/ EndPayment \/ SecondRun
  PROVE  AdviceInv'
  <1>0. stack \in Seq(Slot)  BY DEF StackInv, StackFits
  <1>1. UNCHANGED <<title, basic, waiting, inbox, overlapped>>
    BY DEF ProductButton, ClearButton, PaymentButton, SendOrder, NextOrder, SendRecord,
       EndPayment, SecondRun, advice, network, socket, history
  <1>2. \A at : Paying(at) =>
          /\ stack # <<>> /\ stack[1].slot = "payment"
          /\ Tail(stack) \in Seq(Slot) /\ Asides(stack) = Asides(Tail(stack))
    <2> SUFFICES ASSUME NEW at, Paying(at)
                 PROVE  /\ stack # <<>> /\ stack[1].slot = "payment"
                        /\ Tail(stack) \in Seq(Slot) /\ Asides(stack) = Asides(Tail(stack))
      OBVIOUS
    <2>1. stack # <<>> /\ stack[1].slot = "payment"  BY PaymentOnTop
    <2> QED  BY <1>0, <2>1, AsidesPopped, Popped
  <1>3. (waiting = FALSE) \/ (stack # <<>> /\ stack[1].slot = "payment")
    BY <1>2 DEF ProductButton, ClearButton, PaymentButton, SendOrder, NextOrder, SendRecord,
       EndPayment, SecondRun, Fields
  <1>4. queries'[Reco] = queries[Reco] /\ \A c \in Text : queries'[DbReco(c)] = queries[DbReco(c)]
    <2>1. CASE SendOrder
      <3>1. Ask("MOTOR", None)  BY <2>1 DEF SendOrder
      <3>2. Reco # [verb |-> "MOTOR", about |-> None]
        BY DEF Reco
      <3>3. \A c \in Text : DbReco(c) # [verb |-> "MOTOR", about |-> None]
        BY DEF DbReco
      <3> QED  BY <3>1, <3>2, <3>3, AskOthers, RecommendationQueries
    <2>2. CASE ~SendOrder
      <3>1. queries' = queries
        BY <2>2 DEF ProductButton, ClearButton, PaymentButton, NextOrder, SendRecord,
           EndPayment, SecondRun, network, socket
      <3> QED  BY <3>1
    <2> QED  BY <2>1, <2>2
  (* A payment pushed, or one in the place of another. *)
  <1>5. \A x \in Payment : \A s \in Seq(Slot) : Asides(<<x>> \o s) = Asides(s)
    <2> TAKE x \in Payment
    <2> TAKE s \in Seq(Slot)
    <2>1. x \in Slot /\ x.slot = "payment"  BY DEF Slot, Payment
    <2> QED  BY <2>1, AsidesPushed
  <1>6. Asides(stack') = Asides(stack)
    <2>1. CASE (\E p \in Product : ProductButton(p)) \/ ClearButton
      <3>1. PICK moved \in BOOLEAN : stack' = Disturb(stack, moved)
        BY <2>1 DEF ProductButton, ClearButton
      <3> QED  BY <1>0, <3>1, AsidesDisturbed
    <2>2. ASSUME NEW run \in {1, 2}, NEW below \in Seq(Slot), Begin(run, below)
          PROVE  Asides(stack') = Asides(below)
      <3>1. CASE selected = <<>>  BY <2>2, <3>1 DEF Begin
      <3>2. CASE selected # <<>>
        <4> DEFINE p == [slot |-> "payment", at |-> "order", run |-> run, asked |-> selected,
                         sent |-> <<>>, record |-> {}, breed |-> None,
                         valid |-> TRUE, alone |-> TRUE]
        <4>1. stack' = <<p>> \o below  BY <2>2, <3>2 DEF Begin
        <4>2. p \in Payment  BY DEF Payment, Text, Fields
        <4> HIDE DEF p
        <4> QED  BY <1>5, <4>1, <4>2
      <3> QED  BY <3>1, <3>2
    <2>3. CASE PaymentButton  BY <1>0, <2>2, <2>3 DEF PaymentButton
    <2>4. CASE SecondRun
      <3>1. Paying("again") /\ Begin(2, Tail(stack))  BY <2>4 DEF SecondRun
      <3> QED  BY <1>2, <2>2, <3>1
    <2>5. CASE SendOrder \/ NextOrder \/ SendRecord \/ EndPayment
      <3>1. PICK at : Paying(at)  BY <2>5 DEF SendOrder, NextOrder, SendRecord, EndPayment
      <3>2. Asides(stack) = Asides(Tail(stack)) /\ Tail(stack) \in Seq(Slot)  BY <1>2, <3>1
      <3>3. StackInv'
        BY <2>5, SendOrderStep, NextOrderStep, SendRecordStep, EndPaymentStep
      <3>4. \E r \in Seq(Slot) : Asides(r) = Asides(Tail(stack)) /\ \E x : stack' = <<x>> \o r
                                   /\ x.slot = "payment"
        <4>1. CASE EndPayment
          <5>1. Top \in Payment /\ PaymentFits(Top, selected)
            BY <4>1, PaymentOnTop DEF EndPayment
          <5>2. Top.run = 1  BY <5>1 DEF PaymentFits
          <5>3. stack' = <<[Top EXCEPT !.at = "again"]>> \o Disturb(Tail(stack), TRUE)
            BY <4>1, <5>2 DEF EndPayment
          <5>4. [Top EXCEPT !.at = "again"].slot = "payment"  BY <5>1 DEF Payment
          <5>5. Asides(Disturb(Tail(stack), TRUE)) = Asides(Tail(stack))
                /\ Disturb(Tail(stack), TRUE) \in Seq(Slot)
            BY <3>2, AsidesDisturbed, Disturbed
          <5> QED  BY <5>3, <5>4, <5>5
        <4>2. CASE SendOrder \/ NextOrder \/ SendRecord
          <5>1. Top \in Payment
            BY <4>2, PaymentOnTop DEF SendOrder, NextOrder, SendRecord
          <5>2. PICK x : stack' = <<x>> \o Tail(stack) /\ x.slot = "payment"
            <6>1. CASE SendOrder
              <7>1. PICK p : Update([Top EXCEPT !.at = "sent", !.sent = Append(@, p)])
                BY <6>1 DEF SendOrder
              <7>2. [Top EXCEPT !.at = "sent", !.sent = Append(@, p)].slot = "payment"
                BY <5>1 DEF Payment
              <7> QED  BY <7>1, <7>2 DEF Update
            <6>2. CASE NextOrder
              <7>1. [Top EXCEPT !.at = "order"].slot = "payment"  BY <5>1 DEF Payment
              <7> QED  BY <6>2, <7>1 DEF NextOrder, Update
            <6>3. CASE SendRecord
              <7>1. [Top EXCEPT !.at = "recorded", !.record = itemFlags, !.breed = breed].slot
                      = "payment"
                BY <5>1 DEF Payment
              <7> QED  BY <6>3, <7>1 DEF SendRecord, Update
            <6> QED  BY <4>2, <6>1, <6>2, <6>3
          <5> QED  BY <3>2, <5>2
        <4> QED  BY <2>5, <4>1, <4>2
      <3>5. PICK r \in Seq(Slot) : Asides(r) = Asides(Tail(stack)) /\ \E x : stack' = <<x>> \o r
                                     /\ x.slot = "payment"
        BY <3>4
      <3>6. PICK x : stack' = <<x>> \o r /\ x.slot = "payment"  BY <3>5
      <3>7. x \in Slot
        <4>1. stack' \in Seq(Slot)  BY <3>3 DEF StackInv, StackFits
        <4>2. stack' # <<>> /\ stack'[1] = x  BY <3>6
        <4> QED  BY <4>1, <4>2, Popped
      <3>8. Asides(<<x>> \o r) = Asides(r)
        <4>1. Asides(<<x>> \o r) =
                Asides(r) \cup (IF x.slot = "payment" THEN {} ELSE {x})
          BY ONLY r \in Seq(Slot), <3>7, AsidesPushed
        <4> QED  BY <3>6, <4>1
      <3> QED  BY <3>2, <3>5, <3>6, <3>8
    <2> QED  BY <2>1, <2>3, <2>4, <2>5
  <1> QED  BY <1>1, <1>3, <1>4, <1>6, QuietStep
(* A new question: everything of the last one is done. *)
LEMMA RecommendAdvice ==
  ASSUME Fields, StackInv, AdviceInv, RecommendButton
  PROVE  AdviceInv'
  <1>1. /\ waiting = FALSE /\ waiting' = TRUE /\ stack' = stack /\ basic' = basic
        /\ inbox' = inbox /\ overlapped' = overlapped /\ Ask("RECO", None)
    BY DEF RecommendButton, Recommend, socket, history, Fields
  <1>2. CASE overlapped  BY <1>1, <1>2 DEF AdviceInv
  <1>3. CASE ~overlapped
    <2>1. Idle  BY <1>1, <1>3 DEF AdviceInv, Requested, Queried
    <2>2. NoDialog(stack)
      <3>1. Interrupted(stack) /\ stack \in Seq(Slot)
        BY EventLoop DEF RecommendButton, Press, StackInv, StackFits
      <3>2. ASSUME NEW k \in 1 .. Len(stack) PROVE stack[k].at \in Nested
        <4>1. CASE k = 1  BY <3>1, <3>2, <4>1 DEF Interrupted
        <4>2. CASE k # 1
          <5>1. k \in 2 .. Len(stack)  BY <3>1, <3>2, <4>2
          <5> QED  BY <5>1 DEF StackInv, StackFits
        <4> QED  BY <4>1, <4>2
      <3>3. ASSUME NEW s \in Asides(stack) PROVE s.slot # "dialog"
        <4>1. PICK k \in 1 .. Len(stack) : s = stack[k]  BY DEF Asides
        <4>2. s \in Slot /\ s.at # "shown"  BY <3>1, <3>2, <4>1 DEF Nested
        <4>3. s.slot = "dialog" => s.at = "shown"  BY <4>2, SlotKinds DEF Dialog
        <4> QED  BY <4>2, <4>3
      <3> QED  BY <3>3 DEF NoDialog
    <2>3. queries'[Reco] = 1
      <3>1. queries[Reco] = 0  BY <2>1 DEF Idle
      <3> QED  BY <1>1, <3>1, RecommendationQueries DEF Ask, Fields, Reco
    <2>4. NoDbReco'
      <3>1. \A c \in Text : DbReco(c) # [verb |-> "RECO", about |-> None]  BY DEF DbReco
      <3>2. \A c \in Text : queries'[DbReco(c)] = queries[DbReco(c)]
        BY <1>1, <3>1, AskOthers, RecommendationQueries
      <3> QED  BY <2>1, <3>2 DEF NoDbReco, Idle
    <2>5. NoBreed' /\ NoFavourites'  BY <1>1, <2>1 DEF Idle, NoBreed, NoFavourites
    <2>6. NoInquiry(stack') /\ NoDialog(stack') /\ basic' = <<>>
      BY <1>1, <2>1, <2>2 DEF Idle
    <2>7. Requested'  BY <1>1, <2>3, <2>4, <2>5, <2>6 DEF Requested
    <2> QED  BY <2>7 DEF AdviceInv
  <1> QED  BY <1>2, <1>3

(* The dialog is closed: the list of recommended products is empty again. *)
LEMMA DialogOkAdvice ==
  ASSUME Fields, StackInv, AdviceInv, DialogOk
  PROVE  AdviceInv'
  <1>1. /\ stack # <<>> /\ stack \in Seq(Slot) /\ stack' = Tail(stack) /\ basic' = <<>>
        /\ waiting' = waiting /\ queries' = queries /\ inbox' = inbox
        /\ overlapped' = overlapped /\ stack[1].slot = "dialog"
    BY Popped DEF DialogOk, ClearLists, network, socket, history, StackInv, StackFits, Top
  <1>2. CASE overlapped  BY <1>1, <1>2 DEF AdviceInv
  <1>3. CASE ~overlapped
    <2>1. Asides(stack) = Asides(stack') \cup {stack[1]}  BY <1>1, AsidesPopped
    <2>2. ~NoDialog(stack)  BY <1>1, <2>1 DEF NoDialog
    <2>3. Idle  BY <1>3, <2>2 DEF AdviceInv, Requested, Queried
    <2>4. NoBreed' /\ NoFavourites' /\ NoDbReco'
      BY <1>1, <2>3 DEF Idle, NoBreed, NoFavourites, NoDbReco
    <2>5. NoInquiry(stack') /\ \A s \in Asides(stack') : s.slot = "dialog" => Right(s)
      BY <2>1, <2>3 DEF Idle, NoInquiry
    <2>6. Idle'  BY <1>1, <2>3, <2>4, <2>5 DEF Idle
    <2> QED  BY <2>6 DEF AdviceInv
  <1> QED  BY <1>2, <1>3

(* The inquiry ends for the breed it asked about. *)
LEMMA ClassifyAdvice ==
  ASSUME Fields, StackInv, AdviceInv, Classify
  PROVE  AdviceInv'
  <1>1. /\ stack # <<>> /\ stack \in Seq(Slot) /\ stack' = Tail(stack)
        /\ waiting' = waiting /\ queries' = queries /\ inbox' = inbox
        /\ overlapped' = overlapped /\ stack[1].slot = "inquiry"
    BY Popped DEF Classify, network, socket, history, StackInv, StackFits, Top
  <1>2. CASE overlapped  BY <1>1, <1>2 DEF AdviceInv
  <1>3. CASE ~overlapped
    <2>1. Asides(stack) = Asides(stack') \cup {stack[1]}  BY <1>1, AsidesPopped
    <2>2. ~NoInquiry(stack)  BY <1>1, <2>1 DEF NoInquiry
    <2>3. PICK b \in Breed \cup {Other} : Queried(b) /\ Inquiring(b)
      BY <1>3, <2>2 DEF AdviceInv, Idle, Requested, Queried
    <2>4. NoInquiry(stack') /\ breed = b /\ basic = <<>>
      BY <1>1, <2>3 DEF Inquiring
    <2>5. title' = b /\ basic' = Known(b)
      <3>1. CASE b \in Breed  BY <2>4, <3>1 DEF Classify, Known
      <3>2. CASE b \notin Breed
        <4>1. b = Other  BY <3>2
        <4> QED  BY <2>4, <3>2, <4>1 DEF Classify, Known
      <3> QED  BY <3>1, <3>2
    <2>6. NoDialog(stack')  BY <2>1, <2>3 DEF Queried, NoDialog
    <2>7. /\ NoBreed' = NoBreed /\ NoFavourites' = NoFavourites /\ NoDbReco' = NoDbReco
          /\ FavouritesOf(b)' = FavouritesOf(b) /\ OnlyDbReco(b)' = OnlyDbReco(b)
      BY <1>1 DEF NoBreed, NoFavourites, NoDbReco, FavouritesOf, OnlyDbReco
    <2>8. Queried(b)'  BY <1>1, <2>3, <2>4, <2>5, <2>6, <2>7 DEF Queried
    <2> QED  BY <2>8 DEF AdviceInv
  <1> QED  BY <1>2, <1>3

(* After a read nothing is left in the socket. *)
LEMMA ReadEmpties ==
  ASSUME inbox' = <<>>
  PROVE  NoBreed' /\ NoFavourites' /\ \A b : FavouritesOf(b)'
  BY DEF NoBreed, NoFavourites, FavouritesOf

(* No other slot of a recommendation is under way when the socket is read. *)
LEMMA ReadAlone ==
  ASSUME StackInv, Read
  PROVE  NoInquiry(stack) /\ NoDialog(stack)
  BY DEF Read, Reading, NoInquiry, NoDialog, Asides, StackInv, StackFits

(* The breed has come: the database is asked about it. *)
LEMMA ReadBreedAdvice ==
  ASSUME Fields, StackInv, AdviceInv, ReadBreed
  PROVE  AdviceInv'
  <1> DEFINE x == [slot |-> "inquiry", at |-> "asked"]
  <1>0. Read  BY DEF ReadBreed
  <1>1. /\ inbox' = <<>> /\ overlapped' = overlapped /\ stack' = <<x>> \o stack
        /\ waiting' = waiting /\ basic' = basic /\ Ask("DB_RECO", breed')
        /\ stack \in Seq(Slot) /\ x \in Slot
    BY <1>0 DEF ReadBreed, Read, advice, StackInv, StackFits, Slot, Inquiry
  <1>2. CASE overlapped  BY <1>1, <1>2 DEF AdviceInv
  <1>3. CASE ~overlapped
    <2>1. 1 \in 1 .. Len(inbox) /\ Head(inbox) \in Answer /\ Head(inbox) = inbox[1]
      BY <1>0, FirstAnswer
    <2>2. inbox[1].verb = "BREED"  BY <2>1 DEF ReadBreed, IsBreed
    <2>3. ~NoBreed  BY <2>1, <2>2 DEF NoBreed
    <2>4. Requested /\ queries[Reco] = 0
      BY <1>3, <2>3 DEF AdviceInv, Idle, Queried, Requested
    <2>5. PICK b \in Breed \cup {Other} : b = breed' /\ b \in Text
      BY <2>1, AnswerKinds DEF ReadBreed, Text
    <2>6. queries'[Reco] = 0
      <3>1. Reco # [verb |-> "DB_RECO", about |-> b]  BY DEF Reco
      <3> QED  BY <1>1, <2>4, <2>5, <3>1, AskOthers, RecommendationQueries
    <2>7. OnlyDbReco(b)'
      <3>1. queries[DbReco(b)] = 0  BY <2>4, <2>5 DEF Requested, NoDbReco
      <3>2. queries'[DbReco(b)] = 1
        BY <1>1, <2>5, <3>1, RecommendationQueries DEF Ask, Fields, DbReco
      <3>3. \A c \in Text : c # b => DbReco(c) # [verb |-> "DB_RECO", about |-> b]
        BY DEF DbReco
      <3>4. \A c \in Text : c # b => queries'[DbReco(c)] = 0
        BY <1>1, <2>4, <2>5, <3>3, AskOthers, RecommendationQueries DEF Requested, NoDbReco
      <3> QED  BY <3>2, <3>4 DEF OnlyDbReco
    <2>8. NoInquiry(stack) /\ NoDialog(stack)  BY <1>0, ReadAlone
    <2>9. /\ stack' # <<>> /\ stack'[1] = x /\ Tail(stack') = stack
          /\ Asides(stack') = Asides(stack) \cup {x}
      <3>1. x.slot # "payment"  OBVIOUS
      <3> HIDE DEF x
      <3>2. Asides(<<x>> \o stack) = Asides(stack) \cup {x}  BY <1>1, <3>1, AsidesPushed
      <3>3. <<x>> \o stack # <<>> /\ (<<x>> \o stack)[1] = x /\ Tail(<<x>> \o stack) = stack
        BY <1>1
      <3> QED  BY <1>1, <3>2, <3>3
    <2>10. x.slot = "inquiry"  OBVIOUS
    <2> HIDE DEF x
    <2>11. NoDialog(stack')  BY <2>8, <2>9, <2>10 DEF NoDialog
    <2>12. Inquiring(b)'
      BY <1>1, <2>4, <2>5, <2>8, <2>9, <2>10 DEF Inquiring, Requested
    <2>13. NoBreed' /\ NoFavourites' /\ FavouritesOf(b)'  BY <1>1, ReadEmpties
    <2>14. waiting' = TRUE  BY <1>1, <2>4 DEF Requested
    <2>15. Queried(b)'
      BY <2>6, <2>7, <2>11, <2>12, <2>13, <2>14 DEF Queried
    <2> QED  BY <2>5, <2>15 DEF AdviceInv
  <1> QED  BY <1>2, <1>3
(* The favourites have come: the dialog opens with what is known of them. *)
LEMMA ReadFavouritesAdvice ==
  ASSUME Fields, StackInv, AdviceInv, ReadFavourites
  PROVE  AdviceInv'
  <1> DEFINE x == [slot |-> "dialog", at |-> "shown", title |-> title,
                   basic |-> basic, db |-> Head(inbox).about]
  <1>0. Read  BY DEF ReadFavourites
  <1>1. /\ inbox' = <<>> /\ overlapped' = overlapped /\ stack' = <<x>> \o stack
        /\ waiting' = FALSE /\ queries' = queries /\ stack \in Seq(Slot)
    BY <1>0 DEF ReadFavourites, Read, StackInv, StackFits
  <1>2. CASE overlapped  BY <1>1, <1>2 DEF AdviceInv
  <1>3. CASE ~overlapped
    <2>1. 1 \in 1 .. Len(inbox) /\ Head(inbox) \in Answer /\ Head(inbox) = inbox[1]
      BY <1>0, FirstAnswer
    <2>2. inbox[1].verb = "DB_BREED"  BY <2>1 DEF ReadFavourites, IsFavourites
    <2>3. ~NoFavourites  BY <2>1, <2>2 DEF NoFavourites
    <2>4. PICK b \in Breed \cup {Other} : Queried(b)
      BY <1>3, <2>3 DEF AdviceInv, Idle, Requested
    <2>5. NoInquiry(stack) /\ NoDialog(stack)  BY <1>0, ReadAlone
    <2>6. title = b /\ basic = Known(b)
      <3>1. CASE Inquiring(b)
        <4>1. Asides(stack) = Asides(Tail(stack)) \cup {stack[1]}
          BY <1>1, <3>1, AsidesPopped DEF Inquiring
        <4> QED  BY <2>5, <3>1, <4>1 DEF Inquiring, NoInquiry
      <3>2. CASE ~Inquiring(b)  BY <2>4, <3>2 DEF Queried
      <3> QED  BY <3>1, <3>2
    <2>7. Head(inbox).about = b  BY <2>1, <2>2, <2>4 DEF Queried, FavouritesOf
    <2>8. NoDbReco /\ queries[Reco] = 0  BY <2>3, <2>4 DEF Queried
    <2>9. x \in Slot
      <3>1. Head(inbox).about \in Text  BY <2>1, AnswerKinds DEF ReadFavourites
      <3> QED  BY <3>1 DEF Slot, Dialog, Fields
    <2>10. x.slot = "dialog" /\ Right(x)  BY <2>6, <2>7 DEF Right
    <2> HIDE DEF x
    <2>11. Asides(stack') = Asides(stack) \cup {x}
      BY <1>1, <2>9, <2>10, AsidesPushed
    <2>12. /\ NoInquiry(stack') /\ ~NoDialog(stack')
           /\ \A s \in Asides(stack') : s.slot = "dialog" => Right(s)
      BY <2>5, <2>10, <2>11 DEF NoInquiry, NoDialog
    <2>13. NoBreed' /\ NoFavourites'  BY <1>1, ReadEmpties
    <2>14. NoDbReco' /\ queries'[Reco] = 0  BY <1>1, <2>8 DEF NoDbReco
    <2>15. Idle'  BY <1>1, <2>12, <2>13, <2>14 DEF Idle
    <2> QED  BY <2>15 DEF AdviceInv
  <1> QED  BY <1>2, <1>3

(* What else is read changes nothing, but what came with it is lost. *)
LEMMA ReadOtherAdvice ==
  ASSUME Fields, StackInv, AdviceInv, ReadOther
  PROVE  AdviceInv'
  <1>1. /\ inbox' = <<>> /\ overlapped' = overlapped /\ stack' = stack
        /\ waiting' = waiting /\ queries' = queries /\ title' = title /\ basic' = basic
        /\ breed' = breed
    BY DEF ReadOther, Read, advice
  <1>2. NoBreed' /\ NoFavourites' /\ \A b : FavouritesOf(b)'  BY <1>1, ReadEmpties
  <1>3. NoDbReco' = NoDbReco  BY <1>1 DEF NoDbReco
  <1>4. CASE overlapped  BY <1>1, <1>4 DEF AdviceInv
  <1>5. CASE Idle
    <2>1. Idle'  BY <1>1, <1>2, <1>3, <1>5 DEF Idle
    <2> QED  BY <2>1 DEF AdviceInv
  <1>6. CASE Requested
    <2>1. Requested'  BY <1>1, <1>2, <1>3, <1>6 DEF Requested
    <2> QED  BY <2>1 DEF AdviceInv
  <1>7. ASSUME NEW b \in Breed \cup {Other}, Queried(b)
        PROVE  AdviceInv'
    <2>1. OnlyDbReco(b)' = OnlyDbReco(b)  BY <1>1 DEF OnlyDbReco
    <2>2. Inquiring(b)' = Inquiring(b)  BY <1>1 DEF Inquiring
    <2>3. Queried(b)'  BY <1>1, <1>2, <1>3, <1>7, <2>1, <2>2 DEF Queried
    <2> QED  BY <2>3 DEF AdviceInv
  <1> QED  BY <1>4, <1>5, <1>6, <1>7 DEF AdviceInv

(* A peer answers what it was asked. *)
LEMMA ReplyAdvice ==
  ASSUME Fields, StackInv, AdviceInv, NEW q \in Query, Reply(q)
  PROVE  AdviceInv'
  <1>1. /\ overlapped' = overlapped /\ stack' = stack /\ waiting' = waiting
        /\ title' = title /\ basic' = basic /\ breed' = breed
        /\ queries[q] > 0 /\ queries' = [queries EXCEPT ![q] = @ - 1]
    BY DEF Reply, selection, advice
  <1>2. PICK a \in Answers(q) : inbox' = Append(inbox, a)  BY DEF Reply
  <1>3. /\ Len(inbox) \in Nat /\ Len(inbox') = Len(inbox) + 1 /\ inbox'[Len(inbox) + 1] = a
        /\ \A k \in 1 .. Len(inbox) : inbox'[k] = inbox[k]
    BY <1>2 DEF Fields
  <1>4. /\ \A k \in 1 .. Len(inbox') : k \in 1 .. Len(inbox) \/ k = Len(inbox) + 1
        /\ Len(inbox) + 1 \in 1 .. Len(inbox')
    BY <1>3
  <1>5. /\ NoBreed /\ a.verb # "BREED" => NoBreed'
        /\ NoFavourites /\ a.verb # "DB_BREED" => NoFavourites'
        /\ \A b : FavouritesOf(b) /\ (a.verb = "DB_BREED" => a.about = b) => FavouritesOf(b)'
    BY <1>3, <1>4 DEF NoBreed, NoFavourites, FavouritesOf
  <1>6. /\ \A r \in Query : r # q => queries'[r] = queries[r]
        /\ queries'[q] = queries[q] - 1
        /\ \A r \in Query : queries[r] \in Nat
    BY <1>1 DEF Fields
  <1>7. CASE overlapped  BY <1>1, <1>7 DEF AdviceInv
  <1>8. CASE ~overlapped /\ q = [verb |-> "MOTOR", about |-> None]
    <2>1. a.verb = "ACK"  BY <1>8 DEF Answers
    <2>2. q # Reco /\ \A b \in Text : q # DbReco(b)  BY <1>8 DEF Reco, DbReco
    <2>3. queries'[Reco] = queries[Reco] /\ \A c \in Text : queries'[DbReco(c)] = queries[DbReco(c)]
      BY <1>6, <2>2, RecommendationQueries
    <2>4. NoDbReco' = NoDbReco  BY <2>3 DEF NoDbReco
    <2>5. CASE Idle
      <3>1. Idle'  BY <1>1, <1>5, <2>1, <2>3, <2>4, <2>5 DEF Idle
      <3> QED  BY <3>1 DEF AdviceInv
    <2>6. CASE Requested
      <3>1. Requested'  BY <1>1, <1>5, <2>1, <2>3, <2>4, <2>6 DEF Requested
      <3> QED  BY <3>1 DEF AdviceInv
    <2>7. ASSUME NEW b \in Breed \cup {Other}, Queried(b)
          PROVE  AdviceInv'
      <3>0. b \in Text  BY DEF Text
      <3>1. OnlyDbReco(b)' = OnlyDbReco(b)  BY <2>3, <3>0 DEF OnlyDbReco
      <3>2. Inquiring(b)' = Inquiring(b)  BY <1>1 DEF Inquiring
      <3>3. Queried(b)'  BY <1>1, <1>5, <2>1, <2>3, <2>4, <2>7, <3>1, <3>2 DEF Queried
      <3> QED  BY <3>3 DEF AdviceInv
    <2> QED  BY <1>8, <2>5, <2>6, <2>7 DEF AdviceInv
  <1>9. CASE ~overlapped /\ q = Reco
    <2>1. a.verb = "BREED"  BY <1>9 DEF Answers, Reco
    <2>2. Requested /\ queries[Reco] = 1
      BY <1>1, <1>9 DEF AdviceInv, Idle, Queried, Requested
    <2>3. queries'[Reco] = 0  BY <1>6, <1>9, <2>2
    <2>4. \A b \in Text : DbReco(b) # Reco  BY DEF Reco, DbReco
    <2>5. NoDbReco'
      BY <1>6, <1>9, <2>2, <2>4, RecommendationQueries DEF NoDbReco, Requested
    <2>6. NoFavourites'  BY <1>5, <2>1, <2>2 DEF Requested
    <2>7. Requested'  BY <1>1, <2>2, <2>3, <2>5, <2>6 DEF Requested
    <2> QED  BY <2>7 DEF AdviceInv
  <1>10. ASSUME ~overlapped, NEW c \in Text, q = DbReco(c)
         PROVE  AdviceInv'
    <2>1. a.verb = "DB_BREED" /\ a.about = c  BY <1>10 DEF Answers, DbReco
    <2>2. queries[DbReco(c)] # 0  BY <1>1, <1>10
    <2>3. PICK b \in Breed \cup {Other} : Queried(b)
      BY <1>10, <2>2 DEF AdviceInv, Idle, Requested, NoDbReco
    <2>4. OnlyDbReco(b) /\ NoFavourites  BY <1>10, <2>2, <2>3 DEF Queried, NoDbReco
    <2>5. c = b  BY <1>10, <2>2, <2>4 DEF OnlyDbReco
    <2>6. NoDbReco'
      <3>1. queries'[DbReco(c)] = 0  BY <1>6, <1>10, <2>4, <2>5 DEF OnlyDbReco
      <3>2. \A d \in Text : d # c => DbReco(d) # DbReco(c)  BY DEF DbReco
      <3>3. \A d \in Text : d # c => queries'[DbReco(d)] = 0
        BY <1>6, <1>10, <2>4, <2>5, <3>2, RecommendationQueries DEF OnlyDbReco
      <3> QED  BY <3>1, <3>3 DEF NoDbReco
    <2>7. queries'[Reco] = 0
      <3>1. Reco # DbReco(c)  BY DEF Reco, DbReco
      <3> QED  BY <1>6, <1>10, <2>3, <3>1, RecommendationQueries DEF Queried
    <2>8. NoBreed' /\ FavouritesOf(b)'  BY <1>5, <2>1, <2>3, <2>5 DEF Queried
    <2>9. Inquiring(b)' = Inquiring(b)  BY <1>1 DEF Inquiring
    <2>10. Queried(b)'  BY <1>1, <2>3, <2>6, <2>7, <2>8, <2>9 DEF Queried
    <2> QED  BY <2>10 DEF AdviceInv
  <1>11. q = Reco \/ q = [verb |-> "MOTOR", about |-> None] \/ \E c \in Text : q = DbReco(c)
    BY QueryKinds DEF Reco, DbReco
  <1> QED  BY <1>7, <1>8, <1>9, <1>10, <1>11

(* What is only buffered changes nothing. *)
LEMMA SameAdvice ==
  ASSUME AdviceInv, UNCHANGED <<selection, advice, stack, inbox, queries, history>>
  PROVE  AdviceInv'
  BY DEF selection, advice, history, AdviceInv, Idle, Requested, Queried,
     Inquiring, NoBreed, NoFavourites, FavouritesOf, NoDbReco, OnlyDbReco

LEMMA AdviceKept ==
  ASSUME Fields, StackInv, AdviceInv, [Next]_vars
  PROVE  AdviceInv'
  <1>1. CASE Customer
    <2>1. CASE CloseWaiting
      <3>1. overlapped' = TRUE  BY <2>1 DEF CloseWaiting
      <3> QED  BY <3>1 DEF AdviceInv
    <2> QED
      BY <1>1, <2>1, QuietActions, RecommendAdvice, DialogOkAdvice DEF Customer
  <1>2. CASE Slots  BY <1>2, QuietActions, ClassifyAdvice DEF Slots
  <1>3. CASE Socket
    BY <1>3, ReadBreedAdvice, ReadFavouritesAdvice, ReadOtherAdvice, SameAdvice
    DEF Socket, BufferOnly
  <1>4. CASE Peers  BY <1>4, ReplyAdvice DEF Peers
  <1>5. CASE UNCHANGED vars
    BY <1>5, SameAdvice DEF vars, network, socket
  <1> QED  BY <1>1, <1>2, <1>3, <1>4, <1>5 DEF Next

LEMMA AdviceInitially ==
  ASSUME Init
  PROVE  AdviceInv
  <1>1. Asides(stack) = {} /\ Len(inbox) = 0  BY DEF Init, Asides
  <1>2. NoInquiry(stack) /\ basic = <<>> /\ waiting = FALSE
    BY <1>1 DEF NoInquiry, Init
  <1>3. NoBreed /\ NoFavourites  BY <1>1 DEF NoBreed, NoFavourites
  <1>4. queries[Reco] = 0 /\ NoDbReco
    BY RecommendationQueries DEF Init, NoDbReco
  <1>5. Idle  BY <1>1, <1>2, <1>3, <1>4 DEF Idle
  <1> QED  BY <1>5 DEF AdviceInv

(* The dialog is about one breed, as long as no customer closed the waiting  *)
(* dialog before its answer came: the title, the products recommended for it *)
(* and the favourites of its owners answer one question.                     *)
THEOREM DialogOfOneBreed == Spec => []DialogAboutOneBreed
  <1>1. Init => AdviceInv  BY AdviceInitially
  <1>2. Fields /\ StackInv /\ AdviceInv /\ [Next]_vars => AdviceInv'  BY AdviceKept
  <1>3. ASSUME StackInv, AdviceInv
        PROVE  DialogAboutOneBreed
    <2> SUFFICES ASSUME NEW k \in DOMAIN stack, stack[k].slot = "dialog", ~overlapped
                 PROVE  Right(stack[k])
      BY DEF DialogAboutOneBreed, Right, Known
    <2>1. stack[k] \in Asides(stack)  BY <1>3 DEF Asides, StackInv, StackFits
    <2>2. ~NoDialog(stack)  BY <2>1 DEF NoDialog
    <2>3. Idle  BY <1>3, <2>2 DEF AdviceInv, Requested, Queried
    <2> QED  BY <2>1, <2>3 DEF Idle
  <1>4. StackInv /\ AdviceInv => DialogAboutOneBreed  BY <1>3
  <1> QED  BY <1>1, <1>2, <1>4, TypesAlways, PTL DEF Spec

-----------------------------------------------------------------------------
(* The waiting dialog waits for something: a question is with a peer, or the  *)
(* answer to one is with the socket.                                          *)

(* A step that takes no question and no answer away. *)
LEMMA UnderWaySame ==
  ASSUME Fields, AdviceUnderWay,
         waiting' => waiting, dropped' = dropped, inbox' = inbox,
         \A q \in Query : q.verb # "MOTOR" => queries'[q] = queries[q]
  PROVE  AdviceUnderWay'
  BY DEF AdviceUnderWay, Unread, IsBreed, IsFavourites

LEMMA AskedNow ==
  ASSUME Fields, NEW verb, NEW about, verb # "MOTOR",
         [verb |-> verb, about |-> about] \in Query, Ask(verb, about)
  PROVE  AdviceUnderWay'
  <1> DEFINE q == [verb |-> verb, about |-> about]
  <1>1. q \in Query /\ q.verb # "MOTOR" /\ queries[q] \in Nat  BY DEF Fields
  <1>2. queries'[q] = queries[q] + 1  BY <1>1 DEF Ask, Fields
  <1>3. queries'[q] > 0  BY <1>1, <1>2
  <1> HIDE DEF q
  <1> QED  BY <1>1, <1>3 DEF AdviceUnderWay, Unread

LEMMA UnderWayCustomer ==
  ASSUME Fields, AdviceUnderWay, Customer
  PROVE  AdviceUnderWay'
  <1>1. CASE \E p \in Product : ProductButton(p)
    BY <1>1, UnderWaySame DEF ProductButton, advice, network, socket, history
  <1>2. CASE ClearButton
    BY <1>2, UnderWaySame DEF ClearButton, advice, network, socket, history
  <1>3. CASE PaymentButton
    BY <1>3, UnderWaySame DEF PaymentButton, advice, network, socket, history
  <1>4. CASE RecommendButton
    BY <1>4, AskedNow, RecommendationQueries DEF RecommendButton, Recommend, Reco
  <1>5. CASE CloseWaiting
    <2>1. waiting' = FALSE  BY <1>5 DEF CloseWaiting
    <2> QED  BY <2>1 DEF AdviceUnderWay, Unread
  <1>6. CASE DialogOk
    BY <1>6, UnderWaySame DEF DialogOk, network, socket, history
  <1> QED  BY <1>1, <1>2, <1>3, <1>4, <1>5, <1>6 DEF Customer

LEMMA UnderWaySlots ==
  ASSUME Fields, AdviceUnderWay, Slots
  PROVE  AdviceUnderWay'
  <1>1. CASE SendOrder
    <2>1. [verb |-> "MOTOR", about |-> None] \in Query  BY DEF Query
    <2>2. \A q \in Query : q.verb # "MOTOR" => queries'[q] = queries[q]
      BY <1>1, <2>1, AskOthers DEF SendOrder
    <2> QED  BY <1>1, <2>2, UnderWaySame DEF SendOrder, advice, socket, history
  <1>2. CASE NextOrder
    BY <1>2, UnderWaySame DEF NextOrder, advice, network, socket, history
  <1>3. CASE SendRecord
    BY <1>3, UnderWaySame DEF SendRecord, advice, network, socket, history
  <1>4. CASE EndPayment
    BY <1>4, UnderWaySame DEF EndPayment, advice, network, socket, history
  <1>5. CASE SecondRun
    BY <1>5, UnderWaySame DEF SecondRun, advice, network, socket, history
  <1>6. CASE Classify
    BY <1>6, UnderWaySame DEF Classify, network, socket, history
  <1> QED  BY <1>1, <1>2, <1>3, <1>4, <1>5, <1>6 DEF Slots

LEMMA UnderWaySocket ==
  ASSUME Fields, AdviceUnderWay, Socket
  PROVE  AdviceUnderWay'
  <1>1. CASE ReadBreed
    <2>1. Read  BY <1>1 DEF ReadBreed
    <2>2. breed' \in Breed \cup {Other}
      BY <1>1, <2>1, FirstAnswer, AnswerKinds DEF ReadBreed
    <2>3. [verb |-> "DB_RECO", about |-> breed'] \in Query /\ Ask("DB_RECO", breed')
      BY <1>1, <2>2 DEF ReadBreed, Query, Text
    <2> QED  BY <2>3, AskedNow
  <1>2. CASE ReadFavourites
    <2>1. waiting' = FALSE  BY <1>2 DEF ReadFavourites
    <2> QED  BY <2>1 DEF AdviceUnderWay, Unread
  <1>3. CASE ReadOther
    <2>1. /\ Read /\ UNCHANGED <<waiting, queries>>
          /\ ~IsBreed(Head(inbox)) /\ ~IsFavourites(Head(inbox))
          /\ dropped' = (dropped \/ Len(inbox) > 1)
      BY <1>3 DEF ReadOther, Read, advice
    <2>2. Head(inbox) = inbox[1] /\ 1 \in 1 .. Len(inbox)  BY <2>1, FirstAnswer
    <2>3. SUFFICES ASSUME waiting', ~dropped' PROVE \E q \in Query : q.verb # "MOTOR" /\ queries'[q] > 0
      BY DEF AdviceUnderWay, Unread
    <2>4. waiting /\ ~dropped /\ ~(Len(inbox) > 1)  BY <2>1, <2>3
    <2>5. ~(\E j \in DOMAIN inbox : IsBreed(inbox[j]) \/ IsFavourites(inbox[j]))
      <3>1. \A j \in DOMAIN inbox : j = 1  BY <2>4 DEF Fields
      <3> QED  BY <2>1, <2>2, <3>1
    <2> QED  BY <2>1, <2>4, <2>5 DEF AdviceUnderWay, Unread
  <1>4. CASE BufferOnly
    BY <1>4, UnderWaySame DEF BufferOnly, advice, history
  <1> QED  BY <1>1, <1>2, <1>3, <1>4 DEF Socket

LEMMA UnderWayPeers ==
  ASSUME Fields, AdviceUnderWay, NEW q \in Query, Reply(q)
  PROVE  AdviceUnderWay'
  <1>1. PICK a \in Answers(q) : inbox' = Append(inbox, a)  BY DEF Reply
  <1>2. /\ UNCHANGED waiting /\ (dropped => dropped')
        /\ \A r \in Query : r # q => queries'[r] = queries[r]
    BY DEF Reply, advice, Fields
  <1>3. /\ Len(inbox) \in Nat /\ DOMAIN inbox = 1 .. Len(inbox)
        /\ DOMAIN inbox' = 1 .. Len(inbox) + 1 /\ inbox'[Len(inbox) + 1] = a
        /\ \A j \in 1 .. Len(inbox) : inbox'[j] = inbox[j]
    <2>1. a \in Answer /\ inbox \in Seq(Answer)  BY AnswerTypes DEF Fields
    <2> QED  BY <1>1, <2>1
  <1>4. CASE q = [verb |-> "MOTOR", about |-> None]
    <2>1. \A r \in Query : r.verb # "MOTOR" => queries'[r] = queries[r]  BY <1>2, <1>4
    <2>2. \A j \in DOMAIN inbox : j \in DOMAIN inbox' /\ inbox'[j] = inbox[j]  BY <1>3
    <2> QED  BY <1>2, <2>1, <2>2 DEF AdviceUnderWay, Unread, IsBreed, IsFavourites
  <1>5. CASE q.verb # "MOTOR"
    <2>1. IsBreed(a) \/ IsFavourites(a)
      <3>1. CASE q = [verb |-> "RECO", about |-> None]  BY <3>1 DEF Answers, IsBreed
      <3>2. CASE \E b \in Text : q = [verb |-> "DB_RECO", about |-> b]
        BY <3>2 DEF Answers, IsFavourites
      <3> QED  BY <1>5, <3>1, <3>2, QueryKinds
    <2>2. Len(inbox) + 1 \in DOMAIN inbox'  BY <1>3
    <2> QED  BY <1>3, <2>1, <2>2 DEF AdviceUnderWay, Unread, IsBreed, IsFavourites
  <1> QED  BY <1>4, <1>5, QueryKinds

(* The safety half of WaitingEnds: as long as no messages were taken for one,  *)
(* a waiting dialog has its answer, or the breed that leads to it, owed or     *)
(* unread; closing the dialog and asking anew takes none of that away          *)
(* (l. 207-228).                                                               *)
THEOREM NoWaitingInVain == Spec => []AdviceUnderWay
  <1>1. Init => AdviceUnderWay  BY DEF Init, AdviceUnderWay, Unread
  <1>2. Fields /\ AdviceUnderWay /\ [Next]_vars => AdviceUnderWay'
    <2> SUFFICES ASSUME Fields, AdviceUnderWay, [Next]_vars PROVE AdviceUnderWay'  OBVIOUS
    <2>1. CASE Customer  BY <2>1, UnderWayCustomer
    <2>2. CASE Slots  BY <2>2, UnderWaySlots
    <2>3. CASE Socket  BY <2>3, UnderWaySocket
    <2>4. CASE Peers  BY <2>4, UnderWayPeers DEF Peers
    <2>5. CASE UNCHANGED vars  BY <2>5, UnderWaySame DEF vars, advice, network, socket, history
    <2> QED  BY <2>1, <2>2, <2>3, <2>4, <2>5 DEF Next
  <1> QED  BY <1>1, <1>2, TypesAlways, PTL DEF Spec
=============================================================================
