# Verification of the smart pet vending machine

A vending machine for dog food.  A touch screen sells products and recommends
some of them after a camera has recognised the breed of the customer's dog.  The
parts talk over one TCP message server; a microcontroller behind a Bluetooth
bridge turns the motors that drop the products.  This directory holds TLA+
models of these parts, the TLC runs that check them on small instances and
proofs that hold for every instance.

```
 touch screen (QT) ----+
 camera (Jetson) ------+--- iot_server ---+--- Bluetooth bridge ~~~ vending controller (STM32)
 database client ------+                  +--- console clients
```

All traffic is lines of text.  A client logs in with `[ID:PASSWD]` and sends
`[TO]text`; the server delivers `[FROM]text` to the client logged in as `TO`.

| message | from, to | answer |
|---|---|---|
| `MOTOR@n` | panel, vending controller | `MOTOR@n...` as acknowledgement |
| `RECO` | panel, camera | `BREED@b` |
| `DB_RECO@b` | panel, database | `DB_BREED@p@q` |
| `DB@b@f1..f6` | panel, database | none |
| `GETTIME`, `IDLIST`, `ALLMSG` | any client, the server | the reply, or a broadcast |

Paths below are relative to `src/In_Progress`.

## Contents

| file | what it is |
|---|---|
| `IotServer.tla` | the message server, statement by statement of its threads |
| `VendingFirmware.tla` | the controller: reception interrupt, queue, two tasks, sensors |
| `Dispenser.tla` | what the controller promises, as an abstract specification |
| `ControlPanel.tla` | the touch screen: slots that run inside each other |
| `BluetoothBridge.tla` | the bridge: two threads and the descriptor they share |
| `Kiosk.tla` | panel, server, bridge and controller composed: the way of an order |
| `OrderService.tla` | what these four promise of an order, as an abstract specification |
| `DatabaseClient.tla` | the sales table: messages, inserts, the two best products |
| `BreedPipeline.tla` | from the request for advice to the breed: Jetson client, camera, classifier |
| `DogTracker.tla` | the camera mount: stepper, servo and the way back |
| `*Proofs.tla` | the theorems about the module they are named after; those about the server's routing are in `IotServerRoutingProofs.tla` |
| `MC*.tla`, `*.cfg` | the instances TLC checks; each cfg is one run |
| `PROJECT.json` | the index: components, runs, mutants, hazards, findings, theorems, and for every definition the source lines it models |

`Kiosk` extends `BluetoothBridge` and instantiates `Dispenser`, which
`VendingFirmware` implements, and is shown to implement `OrderService`:

```
 OrderService
      ^ implemented by
    Kiosk ---- extends ----> BluetoothBridge
      |  instantiates
      v
  Dispenser <---- implemented by ---- VendingFirmware
```

To check one run: `tlc -config server_sessions.cfg MCIotServer.tla`.  To check the
proofs: `tlapm IotServerProofs.tla`.  Every property that a run checks has a
mutant, a definition marked `\* mutant` that changes one definition of the
model as a plausible slip in the code would; with the mutant in its place TLC
finds the property violated.  No specification uses the mutants.

The type invariants (`TypeOK`) are not in the runs: for every module they are
proved.

## Inventory

What each part keeps, does and risks.  The list of hazards with their lines and
the properties about them is in `PROJECT.json`.

**IoT server** (`Server/iot_server.c`; `IotServer`).  State: the registration
table `client_info`, one slot per known ID with the descriptor of its session;
the number of sessions `clnt_cnt`; the descriptors.  Operations: the main loop
(accept, refuse when full, login, refuse a second login of an ID and free its
slot, register, start a thread) and per session a thread (read, route to an ID
or to all, time, list of IDs, close, unregister).  Shared without a lock: all
of the table; the mutex covers only the two updates of the count.  Hard: reuse
of a descriptor between its close and the clearing of its slot; a session that
lost its slot to a second login; main blocked in the read of a login; several
messages in one read; a descriptor stored in a `char`.  Correct when the count
equals the sessions and never exceeds the table, a refused client's retry
is not refused again, messages carry their sender's ID and stay in order,
replies reach who asked, and everything drains when the clients leave.

**Vending controller** (`Vending_Machine/Core/Src`: `freertos.c`, `usart.c`,
`main.c`; `VendingFirmware`).  State: the line buffer, the message queue, the
motor pins, per sensor a ring of samples and its last vote.  Operations: the
receive interrupt (one byte; at a newline the whole line is parsed, answered and
queued there), `UART_Task` (queue to pin), `IR_Task` (samples, vote, edge, pin
off), start.  Hard: bytes lost while the interrupt works, a full queue, the
preemption of one task by the other, debouncing, errors of the line, the time
between the start of reception and that of the queue.  Correct when the orders
that reach the pins are the accepted lines in their order, acknowledgements
answer lines that were sent, and a motor stops when, and only when, its product
has passed.

**Control panel** (`QT/tab3controlpannel.cpp`: `ControlPanel`; its connection,
`QT/tab2sockeclient.cpp` and `QT/socketclient.cpp`: `Kiosk`).  State: the
selected products, the breed, the lists of recommended products, two dialogs,
the socket and its buffer.  Operations: the product, clear, payment and
recommendation buttons, the two receive slots, connecting and disconnecting.
One thread, but `processEvents` in the payment and in a receive slot, and
`exec` of the dialog, run other slots in the middle.  Hard: exactly these
re-entrant slots, a slot that is connected twice, answers out of order, several
messages in one read, orders written while there is no connection.  Correct
when a payment orders and records what was selected, once, and a dialog shows
the advice for one breed.

**Bluetooth bridge** (`Server/iot_client_Bluetooth/iot_client_bluetooth.c`;
`BluetoothBridge`, in `Kiosk`).  Two threads, one for each direction, and a
structure with both descriptors that both threads read and reset.  The one
towards the server collects bytes until a newline.  Hard: the end of one side
seen by the other thread, a full buffer, several lines in one write.  Correct
when the server only ever gets whole lines and the process ends when a side is
gone.

**Database client** (`Databases/0920_.../iot_client_sensor.c`;
`DatabaseClient`).  Reads a message, splits it into `pArray`, inserts a sale, or
sums the sales and answers with the two best products.  Hard: messages read
together, errors that end one thread and not the other, ties, the descriptor
both threads reset.  Correct when the rows are the sales and the answer names
the two best.

**Jetson client and breed classifier** (`Client_in_Jetson/iot_client.c`,
`Classification/infer_tflite.py`; `BreedPipeline`).  The client passes `RECO` on
as `START` to the camera program and a breed from port 7000 on to the server;
the classifier fills a window of predictions from one file, stops the camera,
sends the breed and removes the file.  Hard: `START` and `STOP` that cross, an
image removed although a newer one was written, one of two sends failing.
Correct when a breed is made of the pictures of one dog and every request gets
one.

**Dog tracker** (`Dog_Tracking/Motor_Control/0916_motor_detect.py`;
`DogTracker`).  Counts the turns of a stepper and remembers the angle of a
servo, and undoes both at the end.  Hard: phases repeated at a reversal, the
clamp of the angle, an interruption in the middle of a movement.  Correct when
the mount comes back to where it began.

## The server: `IotServer`

A session thread is named by the connection whose login started it.  `slotFd`
is the table, `fdConn` the descriptor table of the process, `pending` and
`inbox` the two directions of a socket.  `mainPc` and `pc` say where main and
the threads are; a step is one statement that touches shared data, so
everything between two reads of the table can happen.

| code | actions |
|---|---|
| `accept`; the comparison with `MAX_CLNT`, "socket full" | `Accept`; `AcceptFull`, `Admit` |
| `read` of the login | `EnterLogin`, `LoginEof`, `LoginAuthError`, `LoginBusy`, `Register` |
| "Already logged!" and the slot it frees | `LoginBusy`, then `Kick` |
| greeting, `pthread_create` | `Spawn` |
| `clnt_connection` | `SessionRead`, `SessionReceive`, `Fetch` (the slot's descriptor, read once more for the answer), `SessionEof`, `SessionClose`, `SessionExit` |
| `send_msg` | `Scan` (one slot of the loop), `WriteSlot`, `ScanEnd`, `Reply` |
| the clients | `Connect`, `SendLogin`, `Send`, `Close`, `Reset` |

A write to a reset connection raises SIGPIPE and ends the process (`alive`).
One `read` may return several messages, of which the first is used
(`Consume`).  Clients speak after their login was accepted only; what comes of an
order that is written before the login is in `Kiosk`.  Not modelled: the text of the
messages and its tokens, a failing `accept` (it changes nothing), a failing
`pthread_create`.

| run | instance | shows |
|---|---|---|
| `server_sessions` | 4 connections, 2 IDs, 2 slots, no messages | `SessionCount`: the count is the number of live sessions; `NeverOverCapacity`, although the comparison is unlocked: only main increments; `RetryAccepted` |
| `server_routing` | 3 connections, 2 IDs, 1 message: direct, to all or `GETTIME` | `SlotNamesItsSession`, `AuthenticSender`, `MisdeliveryOnlyByReuse` |
| `server_replies` | 2 connections, 3 messages in all, a `char` of two values | `ReplyToAsker` for descriptors that fit, `PerSenderOrder` |
| `server_liveness` | 3 connections, wrong passwords and an unknown name, fair | `FdAccounting`: which descriptors are open; `Drains`, `EveryoneAnswered` |

Four connections are enough for a session, the login that kicks it, the login
that takes its slot and one more that a table of two must turn away.  That run
has a `VIEW` without `inbox`, what was delivered to the clients: no step reads it and
none of the run's properties does, so that states which differ in it alone are one.  A `char`
of two values makes the second descriptor overflow it.  Deadlock is not checked:
when all clients are gone and main waits in `accept` nothing happens any more.

Several properties hold only while nobody logs in twice (`NoDuplicate`); the
condition is in the formula, because the code really breaks it: a kicked
session goes on reading through the slot of the next one, clears that slot when
it ends, and leaves the other descriptor open.  What remains true with
duplicates:

- `SessionCount`, `NeverOverCapacity`, `RetryAccepted`, `Drains`, and that no
  connection is forgotten (`NobodyForgotten`);
- the damage stays with the ID: a kicked session clears no slot but its own ID's,
  so that an ID nobody logged in twice as keeps one session and a slot that names
  it, whatever others do (the first parts of `SlotNamesItsSession`);
- `MisdeliveryOnlyByReuse`: a message reaches another than its receiver, and an
  answer another than who asked, only through a descriptor that was closed and
  given out again (for answers, if all descriptors fit a `char`);
- `ImpersonationOnlyByReuse`, the same of the sender's ID.  It is proved and in no
  run: a message under the ID of another than its sender takes four connections
  and three slots, more than the runs with messages can have.

Fairness (`FairSpec`): the threads are scheduled, and a client that has
connected sends its login, as every client in the repository does.  A silent
client would hold up main for ever; that is what the code does, and why the
assumption is there.

## The controller: `VendingFirmware` and `Dispenser`

The processor has one interrupt level in use and two tasks.  The interrupt runs
to its end, so that a byte is one step (`Accumulate`) and the end of a line
another (`BluetoothCommand`, `BluetoothOther`, `BluetoothTooEarly`) in which
the parse, `osMessagePut`, the acknowledgement and the bytes lost meanwhile are
all contained.  `IR_Task` has the higher priority: a pass over the sensors
(`Sample`) is one step.  `UART_Task` can be preempted between taking an order
and driving the pin: `Get`, `Drive`, `Wake`.  A line is four pieces, so that the
loss of its first bytes can cut the sender's ID, the whole ID, or more
(`Text`, `ReplyTo`).  `LineError` is a framing or noise error, after which
nothing arms reception again.  Times are not modelled: any number of samples
can fall between two steps of the other task.  Lines longer than the buffer and
the console on USART2, whose input nothing reads, are left out.

| run | instance | shows |
|---|---|---|
| `firmware_orders` | 2 motors, queue of 2, 2 senders, 3 lines, bytes lost | `OrdersInOrder`, `AcksMatchLines`, `ImplementsDispenser`; `BurstFits`: only orders behind a full queue's worth of others are refused |
| `firmware_sensors` | 1 motor, a vote of three, queue of 1, 2 orders, fair | `StopsAtPassage`, `EveryOrderServed`, `StopsWhenBlocked` |

A queue of one or two fills with the lines at hand; the code has 32 places.
The vote has an odd length as in the code, where it is five: with three the
majority still differs from one reading and from all, and the window of the vote
before the last is part of the state.  `StopsAtPassage` gives the numbers the
debouncing implies: with votes of N readings a passage is certain to be seen
after `2(N - (N/2+1)) + 1` clear and `N + N/2` blocked ones, 5 and 7 for N = 5;
with fewer than three blocked readings it is certain to be missed.  Deadlock is
not checked, a controller stopped by a failed assertion does nothing more.

`Dispenser` is the promise: a line of at most `Capacity` orders, served in
turn, motors that serving turns on and only a product turns off.  The firmware
implements it with `Capacity` one above the queue's length (the order in
`UART_Task`'s hand).  What the promise does not contain, because the code does
not keep it: that an acknowledged order was taken, and that two orders for one
running motor drop two products.

Fairness: a pending interrupt is taken, `IR_Task` sleeps 50 ms in every round so
that the task below it runs, and neither blocks for good.

## The panel: `ControlPanel`

`stack` holds the slots under way, the innermost first: a payment (where its
loop is, what it was asked for, what it sent), `tab3RecvDataSlot` in its
`processEvents`, or the dialog in its `exec`.  Events are dispatched when the
stack is empty or its top is in `processEvents`; the dialog and the waiting
dialog are modal.  A step runs from one return to the event loop to the next.

| code | actions |
|---|---|
| product, clear, payment, recommendation buttons | `ProductButton`, `ClearButton`, `PaymentButton`, `RecommendButton` |
| the loop of `on_pbPayment_clicked` | `SendOrder`, `NextOrder`, `SendRecord`, `EndPayment` |
| the second run of that slot, connected by name and by hand | `SecondRun` |
| `slotSocketReadData`, `socketRecvUpdateSlot`, the receive slots | `ReadBreed`, `Classify`, `ReadFavourites`, `ReadOther` |
| what the socket receives while its slot is running, or too much for a read | `BufferOnly` |
| the dialogs | `CloseWaiting`, `DialogOk` |

The payment's loop iterates over `selectedProducts` itself.  Once a slot that
ran inside it has cleared the list, or an append has moved it, its iterators
point to freed storage and every order it still sends is for an arbitrary
product (`valid`); the number of rounds does not change, since both iterators
are the old ones.  A read takes all that has been received and dispatches it as
its first message.  `readyRead` is emitted for data that comes (`notified`), never
inside its own slot, and not again once that slot has returned: what the event
loop takes in while `tab3RecvDataSlot` is in its `processEvents`, or the dialog is
open, stays in the buffer until something comes behind it (`BufferOnly`).  Peers
answer a query once, at any time, or never.  Not modelled: prices, texts; the
connection is in `Kiosk`.

| run | instance | shows |
|---|---|---|
| `panel` | 2 products, one of them without a column in the database, 2 breeds, 5 presses, fair | `PaymentMatchesSelection`, `OnePaymentPerPress`, `DialogAboutOneBreed`, `PaymentEnds`, `WaitingEnds` |
| `panel_record` | 1 breed, 4 presses | violation of `RecordIsOfThePress` |

Five presses are a selection, a payment, a product and a payment inside it, and
one more; or a question, its end by the customer, another question, and a
payment between their answers.  `ReadLimit` of two stands for the 1024 bytes of
a block.  The fairness is that of the event loop; that peers answer is assumed
for `WaitingEnds` only, which holds as long as no answer was lost behind another
message (`dropped`) or lies unread, received while the slot of an earlier one ran
(`Stranded`).  Deadlock is not checked: the bound on presses ends every behaviour.

Finding.  The record of a sale is made from the selection as it is after the
orders went out: a product pressed meanwhile is recorded as sold, never ordered,
and removed from the selection (`panel_record`).  Seen while modelling and not
the subject of a run: the database's answer, when it is quick enough to arrive in
the `processEvents` right behind the question (`tab3controlpannel.cpp:264`), stays
unread, and the waiting dialog it should close stays until another message comes,
when both are taken for one; and a customer who closes the waiting dialog and asks again
before the first dialog was shown gets the recommended products of both breeds
under one title, since the list is emptied only when a dialog is closed
(`tab3controlpannel.cpp:271`); `DialogAboutOneBreed` excludes this case by
`overlapped`.

## The way of an order: `BluetoothBridge`, `Kiosk`, `OrderService`

`BluetoothBridge` has the two threads of the bridge between any server and any
link; a line is two pieces, and a read returns any number of those that have
arrived.

| code | actions |
|---|---|
| `recv_msg`: the test of `sockfd`, `read`, the write to the link, the end | `RecvCall`, `RecvRead`, `RecvWrite`, `RecvEnd` |
| `send_msg`: `select`, `read` into `msg` | `SndRead`, `SndReadNothing` (0), `SndReadError` (-1) |
| its write of what ends with a newline | `SndWrite`, `SndWriteFails`, `SndWriteClosed` |
| `main`, which joins `send_msg` only | `Exit` |

`Kiosk` composes it with what an order passes before and after it.

| part | actions |
|---|---|
| the panel's socket (`QT`) | `Connect`, `Connected`, `Lost`, `Abandon`, `Disconnect`, `Order` |
| the server: the panel's login, the two sessions that relay | `Login`, `RelayOrder`, `SessionEnds`, `RelayAck`, `ServerEnd` |
| the link | `LinkEnd`, `LineError` |
| the controller: reception, then `Dispenser` | `Receive`, `Serve`, `Stop` |

An order is its position in `ordered`, so that a copy, a swap or an order that
turns up later is seen.  What may be lost and where: an order written without a
connection, in the panel; a line behind another in one `read`, in the server;
everything for a bridge that is gone; bytes while the interrupt works, in the
controller; an order that finds the queue full.

`OrderService` is what remains as a promise: no order reaches the controller
twice or out of turn, none is driven twice, out of turn or without having
reached it, and acknowledgements come back in order and for orders that did.
A step of `Kiosk` maps to one of its four actions or to a stutter: `Order` to
`Order`, `Receive` to `Reach`, `Serve` to `Drive`, `RelayAck` to `Acknowledge`.

The run `kiosk` has two orders, one connection, two products of which one has
no motor, a buffer of three pieces and a queue of one, so that a line and a half
fill the buffer and the second order can find the queue full.  It shows:

- `ImplementsOrderService`, through every reconnection, loss and end;
- `WritesWholeLines`: the server never gets a line without its end;
- `EndsForACause`: the bridge gives up only when a side is gone, or when a line
  fills `msg`: the next read is then one of 0 bytes, taken for the end of the link;
- `EarlyOrderNeverReaches`: an order made without a connection is not dispensed
  later, whoever is then in front of the machine;
- `SlotLostToEarlyOrder`: only such an order can unregister the bridge;
- `EndsWithNextLine`, `OrderAloneServed`, `AckAloneReturned` under fairness of the
  threads, the event loop and the interrupt: nobody has to order, connect or leave.

How an early order unregisters the bridge: written while the socket connects, it
goes out before the login, or without one if the customer gives up connecting
(`Abandon`: `close` waits for the connection and sends what was written; that it may
also drop it is allowed).  The server takes the first thing it reads for the
login; the first word of the order is the bridge's ID, which is logged in, so
that the connection is refused as a second login and the slot of the bridge is
freed.  Its session ends at the next message, with the connection open, and the
machine takes no orders until the bridge is started again.

Left out: the byte that `msg[total] = 0` writes past a full buffer, into the
next local variable; the branch taken at a timeout of `select` (l. 144-148),
which cannot be reached once the server is gone, because `select` then reports
the socket at once in every round.

## The database: `DatabaseClient`

| code | actions |
|---|---|
| `recv_msg`: top of the loop, `read`, its end | `Call`, `Receive`, `Eof` |
| a sale: nine tokens, `INSERT` | `Insert` |
| a question: the sums, the loop over the products, the answer | `Query`, `QueryFails`, `Pick`, `PickEnd`, `Answer`, `AnswerFails` |
| `send_msg` | `Quit`, `LineFails`, `Timeout` |
| the server | `Send`, `ServerEnd` |

Messages read together run on in `pArray`: a sale then has more than nine tokens
and is dropped, a question is answered.  `Pick` is one round of the loop that
keeps the two greatest sums.  The run `database` has three products, three
messages and three tables to begin with: empty, and with ties in different
places.  It shows `RowsAreSales`, `AnswersAreTopTwo` (against the definition by
rank, ties to the lower number), `AtMostOneAfterQuit`: the read that waits keeps
the old descriptor, so that one message is still handled after the other thread
reset it, and never two; `QuestionAnswered` and `EndsWithServer` when threads are
scheduled and queries return.  `EndsWithServer` has an exception, which is what
the code does: an error of a query ends the reading thread and leaves the socket
open, and the client stays logged in without answering.

The breed is left out, because nothing selects by it: the sums that answer
`DB_RECO@b` are over all sales (`iot_client_sensor.c:199-202`), although the panel
shows them as what owners of that breed prefer (`tab3controlpannel.cpp:352`).

## From picture to breed: `BreedPipeline`

| code | actions |
|---|---|
| `recv_msg` of the Jetson client, `trigger_python_detection` | `Receive`, `ReceiveEnd`, `trigger_python_detection` |
| `receive_breed` | `BreedRead`, `BreedWrite`, `BreedWriteFails` |
| `send_msg` | `Quit` |
| the loop of `infer_tflite.py` | `Load`, `Infer`, `send_stop_detection_command`, `send_confirmed_breed`, `Remove` |
| the camera program, which is not in the repository | `CameraCommand`, `Shoot` |

A picture is the number of the session it was taken in, and a breed the window
of pictures it was decided on.  The run `pipeline` has three requests, a window
of two pictures, ports that hold two connections and one connection that fails.
`OneDogPerBreed`: as long as no `START` came while the camera was on, every `STOP`
got through and the camera took no picture behind it (`disturbed`), the pictures
of a decision are of one session.  That rests on the removal of the file after
the decision whatever it holds: the mutant that spares a newer picture brings
the last dog into the next decision.  `EveryStartAnswered`: a breed follows every
`START`, however `START` and `STOP` cross, unless a breed was lost or an end
came.  Fairness: threads and classifier run, and the camera takes its commands
and pictures while it is on, which is an assumption on that program.

## The camera mount: `DogTracker`

| code | actions |
|---|---|
| `step_motor` | `TurnPhase` (one phase of the sequence), `TurnEnd` |
| `move_servo` | `TiltPulse`, `TiltEnd` |
| the loop of `run_inference` | `Follow`, `Leave` |
| `reset_motors`, the keyboard interrupt, another one | `Reset` in `Leave` and `Interrupt`, `InterruptReset` |

The rotor stands where the coils pull it (`Pull`): to the nearest position of
the phase that is on, to either side when it stands opposite.  A reversed turn
begins with the phase the last one ended with, so that a turn to and fro does
not add up to zero.  The run `tracker` has four frames, turns of two cycles, tilts
that reach both stops, every first position of the rotor, and interruptions at
every phase and on the way back.  `ReturnsHome`: without an interruption the
servo is back and the stepper within five phases of its start, however often
the dog changed sides: what is lost at a reversal is lost once.
`CutCostsOneTurn`: an interrupted turn is not recorded, so that the way back is
wrong by at most that turn and a cycle.  A servo interrupted between its pulse
and the record of its angle is believed to be home and is left tilted.  No
fairness is needed: the properties are about where the mount is, not whether it
gets there.

## Proofs

Eight modules hold theorems; each holds for every value of the constants that
satisfies the module's named assumption, which TLC evaluates in the runs.  The
type invariant of every module is proved, so that no run repeats it.  Every
invariant, every action property and both refinements that a run checks are
theorems; what is left to TLC is liveness.

`IotServerProofs`: `TypeCorrect`, `CountIsExact` (`SessionCount`) and
`CapacityKept` (`NeverOverCapacity`), for every number of connections, slots and
descriptors.  The count alone is not inductive: the invariant adds what the
program counters of main say of the connection at hand, that every thread has a
slot (`SessionInv`), that a connection waits for accept once and before main or
a thread deals with it (`BacklogInv`), and that the number of live sessions is
below the limit while main is between its comparison and its increment.

`IotServerRoutingProofs`: what the server delivers, for every set of connections,
table, range of descriptors, width of the `char` and choice of messages.  None of
these properties is inductive as it stands; the invariant `RInv` adds what follows.
What holds whoever logs in twice is `BaseInv`:

- main's answer to a client says how far its connection got (`AnswerInv`), an open
  descriptor has the number its connection was accepted at (`DescriptorInv`), and
  every descriptor in the table was registered there by a login (`HolderInv`);
- a slot refused as busy is free from the `Kick` on until a login takes it
  (`RefusedInv`), which is `RetryNeverBusy` (`RetryAccepted`);
- what waits in a socket is its client's, in the order of its numbers
  (`PendingInv`), and the loop of `send_msg` only writes where the message wants to
  go (`RequestInv`).  With `HolderInv` this gives `MisdeliveryExplained`
  (`MisdeliveryOnlyByReuse`): whatever descriptor the loop found in a slot, a
  session of that slot's ID once had it;
- the connection a session reads has the number that a login for the session's ID
  got, and so has the sender of the message it serves (`SenderInv`).  That is
  `ImpersonationExplained` (`ImpersonationOnlyByReuse`): what is passed on carries
  the ID of another than its sender only through the reuse of a descriptor;
- what the session found in its slot for the answer to `GETTIME` or `IDLIST` is a
  number a session of its ID had (`ReplyInv`), which is the part of
  `MisdeliveryExplained` about answers;
- the live sessions of an ID that nobody logged in twice as are one, and the slot
  has its descriptor (`SlotInv`): `TableNamesSessions` (`SlotNamesItsSession`).

`NobodyIsForgotten` (`NobodyForgotten`) also holds whoever logs in twice.

What holds as long as nobody has logged in twice is `QuietInv`:

- who has to close which descriptor (`OwnerInv`), and that slots and sessions
  correspond one to one (`TableInv`, which `SlotInv` gives for all IDs at once).
  `SocketsAccounted` (`FdAccounting`) and the last part of `SlotNamesItsSession`
  follow;
- a session reads the socket of its own client, and what it serves was written
  before all that still waits there (`ServingInv`): `SendersAuthentic`
  (`AuthenticSender`) and `AskersAnswered` (`ReplyToAsker`);
- a message delivered was sent before what its sender's session will read, and
  before the one it is serving, unless it is that one and the loop is past the slot
  of its receiver, or it goes to all (`DeliveryInv`): `SendersInOrder`
  (`PerSenderOrder`).  The exception for `ALLMSG` is the one in the property: a
  descriptor that is closed and reused during the loop is met in two slots.

The condition `NoDuplicate` cannot be dropped, as the section on the server says;
it can only become false, at a `LoginBusy`, so that the implication is inductive.

`VendingFirmwareProofs`: `TypeCorrect`, `OrdersReachPins` (`OrdersInOrder`),
`AcksAreHonest` (`AcksMatchLines`), `BurstsTaken` (`BurstFits`),
`PassageStopsMotor` (`StopsAtPassage`) and `FirmwareRefinesDispenser`
(`ImplementsDispenser`), for every number of motors, length of queue, window and
set of lines.  Driven, held and queued orders form one sequence (`Flow`) that
only grows at its end, by a line later than all in it.  The strengthening says
that the wire carries whole tails of lines in ascending order and that the
pieces in the buffer belong to the line that arrives next (`WireInv`), and that a
line with a verdict has left the wire (`HandledInv`, `AckInv`), so that what the
end of a line finds in the buffer is newer than everything before.  The
refinement maps a step of the interrupt to `Take` or a stutter, `Get` to a
stutter, `Drive` to `Serve` and a pass over the sensors to `Stop`.

`BurstsTaken` needs that invariant and a count: a queue that refuses holds
`QUEUE_LEN` orders at the end of `Flow`, so of different lines that were queued,
all before the line at hand (`FullQueueAhead`).  No verdict is ever changed, so
the number stays.

`PassageStopsMotor` is about one sensor and has its own invariant, `StopInv`: the
samples since the last vote are the newest readings (`WindowInv`), `current` is the
majority of the `SAMPLE_COUNT` readings before those, or unset when no vote has
fallen (`VoteInv`), and a motor that was on when the blocked readings began is off
once a vote has seen `Need` of them (`PassageInv`).  The step where the motor must
stop is the first such vote: the vote before it saw more than
`SAMPLE_COUNT - Need` of the clear readings (`ClearBeforePassage`), so that the two
are an edge.  The numbers `Lows` and `Highs` are used exactly there: at the worst
alignment the `Lows` clear readings leave just that many in the earlier vote, and
the `Highs` blocked ones just reach the end of the next.

`ControlPanelProofs`: `PanelTypes`, `OnePayment` (`OnePaymentPerPress`),
`PaymentMatches` (`PaymentMatchesSelection`) and `DialogOfOneBreed`
(`DialogAboutOneBreed`), for any number of products, breeds and presses, so for
any depth of slots within slots.  The invariant of the stack (`StackFits`) says
that all slots but the innermost are in `processEvents`, that a payment that is
sending orders iterates over a list that is at least as long as the one it
began with, or knows that it was moved, and over the very list if nobody
disturbed it; and that between the two runs of the slot, when nothing is
dispatched, the selection is empty.  The invariant of the advice (`AdviceInv`)
says that there is one question under way, in one place: nothing (`Idle`), the
camera's (`Requested`), or the database's about the breed that the slot under
way, or the title, names (`Queried`).

`KioskProofs`: `KioskTypes`, `ServiceImplemented` (`ImplementsOrderService`),
`EarlyOrders` (`EarlyOrderNeverReaches`), `SlotLost` (`SlotLostToEarlyOrder`),
`WholeWrites` (`WritesWholeLines`) and `BridgeEnds` (`EndsForACause`), for every
size of the buffer and of the queue, any number of orders and of connections.
The parts of the invariant `IInv`:

- `PanelInv`: where the orders made before the login stand among the lines of the
  panel.  They are in front of it, so that none is left when the login is read;
- `BridgeInv`: what `msg` ends with in each state of `send_msg`, and why `sockfd`
  was reset;
- `FlowInv`: what may still reach the controller, from the read of the interrupt
  back to the socket of the server, is one sequence of lines, whole but perhaps
  for the first; its orders ascend, are later than those that reached it, earlier
  than those still at the panel, and none is early;
- `QueueInv`: the orders in the controller ascend, have reached it and were not
  driven;
- `AckInv`: what comes back is whole lines; acknowledged orders are before those
  written to the server, and these before those in `msg` and on the link, and all
  are about orders that reached the controller.

Each action of `Kiosk` moves a piece from one of these sequences to the next, and
the lemmas on `SubSeq` and `Append` say what that keeps.  The refinement then is
a case for each of the four actions that are not stutters.

`DatabaseClientProofs`: `DatabaseTypes`, `QuitCostsOneMessage`
(`AtMostOneAfterQuit`), `SalesStoredOnce` (`RowsAreSales`) and
`AnswersNameTheBest` (`AnswersAreTopTwo`), for any number of products, any table
to begin with and any number of messages.  The loop's invariant is the textbook
one: the two indices are the two best of the first `i`.  What it needs beside is
that the table does not change between the sums and the answer, and that rows
stored later come from later messages, so that an old answer stays right.

`BreedPipelineProofs`: `PipelineTypes`, `PicturesCountOnce` (`NoPictureTwice`,
which no run repeats) and `BreedsOfOneDog` (`OneDogPerBreed`), for every window
and backlog.  The invariant says, as long as nothing was `disturbed`, which
session the pictures in the window, the one loaded and the one in the file are
of, given where the classifier is and whether a `STOP` is under way.

`DogTrackerProofs`: `TrackerTypes`, `MountReturnsHome` (`ReturnsHome`) and
`CutCosts` (`CutCostsOneTurn`), for every length of a turn, every tilt and any
number of frames.  After the first phase of the first turn the rotor is a whole
number of cycles, the recorded ones, from one of two places, given by the side
it last turned to; the places are fixed by where the first phase pulled it.

### Liveness, and the half of it that is proved

Only model-checked is liveness itself, since what fairness says is ENABLED, which
the prover does not reason about.  A promise that something happens has a safety
half, though: that what is owed stays under way, and no step gives it up.  For
all of these properties but one that half is a theorem for every instance, and
what is left to TLC is that the fair scheduling of a step that is never taken
away takes it.  The definitions stand beside the liveness properties, and no run
repeats them.

| liveness, checked | safety half, proved | what it says |
|---|---|---|
| `EveryoneAnswered` | `NobodyIsForgotten` | a connection without an answer is in the queue of `accept` or in main's hands |
| `Drains` | `CountIsExact` | the count is that of the live sessions: one that ends gives back its unit and no other; that they end is left to TLC |
| `EveryOrderServed` | `TakenOrdersRun`, `OrdersReachPins` | what was queued is in `Flow` until it is driven, and a controller that stops has queued nothing |
| `StopsWhenBlocked` | `BlockedSensorIsVoted`, `BlockedVoteStopsMotor` | `Highs` blocked readings are a blocked vote, and the step from a clear vote to it leaves the motor off |
| `WaitingEnds` | `NoWaitingInVain` | an answer is owed by a peer or unread, to be reported or stranded |
| `OrderAloneServed` | `OrdersReachMotors` | an order with nothing before it is first and whole on its way, or queued, until it is driven |
| `AckAloneReturned` | `AcksReachPanel` | an acknowledgement with none before it stays first until the panel has it |
| `EndsWithNextLine` | `BridgeFollows` | the line that meets the reset descriptor stays until the bridge has ended |
| `QuestionAnswered` | `NoQuestionDropped` | a question that was read is with the search, or has its answer |
| `EndsWithServer` | `EndsAreTold` | a thread that ended left the descriptor reset for the other |
| `EveryStartAnswered` | `NoStartForgotten` | the camera is on or will be, or a breed is on its way |

Those about the way of an order are action properties over `Coming`, the
sequence from the read of the interrupt back to the server's socket: a line at its
head is kept there by every step but the controller's, which takes it, whatever is
lost behind it.  `OrderUnderWay` and `AckUnderWay` hold wherever the liveness
property's condition does.  The invariants beside those above are small: that the
thread to the link has reset the descriptor when it has ended (`ResetInv`), that
a controller that does not run holds and has driven nothing (`RunInv`), that a
search is about a question (`EndInv`).  The exceptions are those of the liveness
properties: the error of a query (`Mute`), a breed that was lost (`failed`),
messages taken for one (`dropped`), an answer that is not reported (`Stranded`).

`PaymentEnds` has no such half: nothing can take a payment off the stack but its
own end, which `StackFits` says, so that all that is left is progress.

## Not modelled

- The dog detection scripts, a camera loop around a neural network whose only
  state is a frame; what the network makes of a picture.
- The older copies of the server and of the bridge on the Jetson, and older
  revisions of scripts: the last revision is modelled.
- The console client, the PHP pages, the on-screen keyboard, the start of the
  Qt application and `localtime.c`, which keep no state.
- STM32 HAL, CMSIS and FreeRTOS, vendored: what the firmware uses of them (the
  UART reception and its error path, the queue, the scheduler) is in
  `VendingFirmware`.  They are nearly all of the lines under `src/`: about 160 000,
  against a few thousand of the project's own, so that the share of all lines
  that the map covers stays below one in a hundred although the programs above
  are modelled whole.
- A write to a client that is gone raises SIGPIPE and ends the server for all
  (`iot_server.c:250`).  The models have this end (`alive`, `ServerEnd`); no property
  is about it, since the code makes no promise to survive.
- `breed_msg` sent past its terminated part (`iot_client.c:157`): `ControlPanel` has
  the breed it does not know for what may arrive.
- A failing `pthread_create` (`iot_server.c:162`), lines longer than `btData`
  (`usart.c:285`), the byte behind a full `msg` of the bridge.

## Plan

Done: all the programs that keep state, their composition on the way of an
order, two refinements, a proof of every safety property that a run checks, what
the server keeps after a second login, and the safety halves of the liveness
properties.  Left:

1. Which descriptors stay open for good after a second login (`FdAccounting` without
   its condition).
2. The breed in the composition: `BreedPipeline`, `DatabaseClient` and the
   `ControlPanel`'s dialog over one server, as `Kiosk` has the order.
