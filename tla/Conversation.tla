----------------------------- MODULE Conversation ------------------------------
(* What the assistant says and does over one customer's WhatsApp chat: the    *)
(* engine's reduce(), the effects it asks of the pipeline and the re-entry    *)
(* with their outcome, as one turn.  The queues, retries and lost replies     *)
(* around a turn are WaPipeline's; here turns follow each other while prices, *)
(* orders, the account and the session's age change between them.             *)
EXTENDS Integers, Sequences, FiniteSets, Functions

CONSTANTS
  NoItem,       \* a depot or product not chosen
  Depots, Products,
  Capacity,     \* litres one truck may carry
  MaxTrucks,    \* trucks one chat order may name
  Quantities,   \* the litres between the least and the most an order may be
  Numbers,      \* the whole numbers a customer may type
  Older,        \* buttons further up in the chat, which can be tapped for ever
  MaxFailures,  \* unread messages in a row before the menu is offered
  MaxExpected,  \* depositors that may be named on one order
  MaxOrders     \* bound: orders this customer ever has

ASSUME ConversationAssumption ==
  /\ NoItem \notin Depots \cup Products
  /\ Capacity \in Nat \ {0} /\ MaxTrucks \in Nat \ {0} /\ Quantities \subseteq Nat \ {0} /\ Numbers \subseteq Nat
  /\ MaxFailures \in Nat \ {0} /\ MaxExpected \in Nat /\ MaxOrders \in Nat

VARIABLES
  chat,      \* the saved session
  lapsed,    \* it has been idle past its time
  account,   \* the customer: "none", "active" or "barred"
  catalog,   \* the priced <<depot, product>> pairs
  placed,    \* this customer's orders, oldest first; "Closed" is cancelled, expired or deleted
  notes,     \* payment notices on their way to the chat
  untold,    \* orders paid since the chat was last told of a payment of theirs
  offered,   \* the buttons and rows of the last answer, while nothing it was based on has changed
  unheard    \* offered taps that were answered as if they could not be read

chatVars == <<chat, lapsed, account, catalog, placed, notes, untold, offered, unheard>>

Types == {"none", "pickup", "delivery"}
Building == {"DEPOT", "PRODUCT", "QUANTITY", "COMPANY", "COLLECT", "LOGISTICS", "CONFIRM"}
States == Building \cup {"IDENTIFY", "MENU", "EXPECTED_PAYMENT", "AWAIT_PAYMENT"}

EmptyCart == [depot |-> NoItem, product |-> NoItem, quantity |-> 0, company |-> FALSE, type |-> "none",
              address |-> FALSE, declare |-> FALSE, truckCount |-> 0, litres |-> 0, trucks |-> <<>>,
              deferred |-> FALSE, awaiting |-> 0, expected |-> 0, resume |-> FALSE]

FreshChat == [state |-> "MENU", cart |-> EmptyCart, last |-> 0, fails |-> 0]

InitChat ==
  /\ chat = FreshChat /\ lapsed = FALSE
  /\ account = "none" /\ catalog = Depots \X Products
  /\ placed = <<>> /\ notes = {} /\ untold = {}
  /\ offered = {} /\ unheard = {}

-----------------------------------------------------------------------------
(* The cart.                                                                 *)

OnOffer(d) == \E p \in Products : <<d, p>> \in catalog
Sold(cart) == <<cart.depot, cart.product>> \in catalog
Assigned(cart) == SumFunction(cart.trucks)
Remaining(cart) == cart.quantity - Assigned(cart)

MinTrucks(q) == (q + Capacity - 1) \div Capacity
MaxTrucksFor(q) == IF q < MaxTrucks THEN q ELSE MaxTrucks
TrucksNeeded(cart) == IF cart.quantity <= Capacity THEN 1 ELSE cart.truckCount
LogisticsDone(cart) ==
  cart.deferred \/ (TrucksNeeded(cart) > 0 /\ Len(cart.trucks) >= TrucksNeeded(cart))
Declaring(cart) ==
  cart.declare \/ cart.truckCount > 0 \/ cart.litres > 0 \/ (cart.trucks # <<>> /\ ~cart.deferred)

ClearTrucks(cart) ==
  [cart EXCEPT !.trucks = <<>>, !.truckCount = 0, !.litres = 0, !.declare = FALSE, !.deferred = FALSE]
KeepTrucks(cart) == [cart EXCEPT !.quantity = 0]
ClearQuantity(cart) == [ClearTrucks(cart) EXCEPT !.quantity = 0]
ClearProduct(cart) == [ClearQuantity(cart) EXCEPT !.product = NoItem]
ClearDepot(cart) == [ClearProduct(cart) EXCEPT !.depot = NoItem]
ClearCollect(cart) == [ClearTrucks(cart) EXCEPT !.type = "none", !.address = FALSE]
ClearCompany(cart) == [cart EXCEPT !.company = FALSE]

(* The first unanswered question.                                            *)
NextStep(cart) ==
  IF cart.depot = NoItem THEN "DEPOT"
  ELSE IF cart.product = NoItem THEN "PRODUCT"
  ELSE IF cart.quantity = 0 THEN "QUANTITY"
  ELSE IF ~cart.company THEN "COMPANY"
  ELSE IF cart.type = "none" THEN "COLLECT"
  ELSE IF (cart.type = "delivery" /\ ~cart.address) \/ (cart.type = "pickup" /\ ~LogisticsDone(cart))
  THEN "LOGISTICS" ELSE "CONFIRM"

(* Drop what is no longer sold, and what hangs off it.                       *)
Revalidated(cart) ==
  IF cart.depot # NoItem /\ ~OnOffer(cart.depot) THEN ClearDepot(cart)
  ELSE IF cart.product # NoItem /\ ~Sold(cart) THEN ClearProduct(cart)
  ELSE cart

(* What a Confirm button remembers of the cart it was shown with.            *)
CartToken(cart) ==
  <<cart.depot, cart.product, cart.quantity, cart.company, cart.type, cart.trucks, cart.address>>

-----------------------------------------------------------------------------
(* The buttons and rows an answer offers.                                    *)

LastOrder == IF chat.last # 0 THEN chat.last ELSE Len(placed)

FinishRow == <<"paylast">>
LastRow == IF placed[LastOrder].status = "Pending" THEN <<"paylast">> ELSE <<"reorder">>
MenuRows ==
  IF catalog = {} THEN {<<"track">>, <<"help">>}
  ELSE {<<"order">>, <<"prices">>}
       \cup (IF LastOrder = 0 THEN {}
             ELSE {<<"track">>, LastRow})
DepotRows ==
  IF catalog = {} THEN {<<"track">>, <<"help">>} ELSE {<<"depot", d>> : d \in {x \in Depots : OnOffer(x)}}
ProductRows(d) == {<<"product", p>> : p \in {x \in Products : <<d, x>> \in catalog}}
Summary(cart) ==
  IF Sold(cart) THEN {<<"confirm", CartToken(cart)>>, <<"edit">>, <<"cancel">>} ELSE DepotRows
EditFields == {"depot", "product", "quantity", "company", "collect"}
EditRows == {<<"edit", f>> : f \in EditFields}

PromptFor(state, cart) ==
  CASE state = "MENU" -> MenuRows
    [] state = "DEPOT" -> DepotRows
    [] state = "PRODUCT" -> IF OnOffer(cart.depot) THEN ProductRows(cart.depot) ELSE DepotRows
    [] state = "QUANTITY" -> IF Sold(cart) THEN {} ELSE DepotRows
    [] state = "COLLECT" -> {<<"pickup">>, <<"delivery">>}
    [] state = "LOGISTICS" ->
         IF cart.type = "delivery" THEN {}
         ELSE {<<"defer_trucks">>} \cup (IF Declaring(cart) THEN {} ELSE {<<"declare_trucks">>})
    [] state = "CONFIRM" -> Summary(cart)
    [] state = "EXPECTED_PAYMENT" -> {<<"expectdone">>, <<"expectskip">>}
    [] state = "AWAIT_PAYMENT" -> IF cart.awaiting = 0 THEN {} ELSE {<<"cancelorder">>}
    [] OTHER -> {}

CancelQuestion == {<<"cancelorder:yes">>, <<"keeporder">>}

-----------------------------------------------------------------------------
(* Answers: the session after the turn, what is offered, whether the message *)
(* was understood, and the effect asked for.                                 *)

Says(c, buttons) == [chat |-> c, offers |-> buttons, heard |-> TRUE, does |-> "nothing"]
GoTo(c, cart, state) ==
  Says([c EXCEPT !.state = state, !.cart = cart, !.fails = 0], PromptFor(state, cart))
Onward(c, cart) == GoTo(c, cart, NextStep(cart))
Fails(c) == IF c.fails < MaxFailures THEN c.fails + 1 ELSE c.fails  \* counted no further
Fumble(c, buttons) ==
  IF c.fails + 1 >= MaxFailures /\ c.state # "IDENTIFY"
  THEN [Says([c EXCEPT !.fails = 0], {<<"menu">>, <<"retry">>}) EXCEPT !.heard = FALSE]
  ELSE [Says([c EXCEPT !.fails = Fails(c)], buttons) EXCEPT !.heard = FALSE]
Asks(c, effect) == [Says(c, {}) EXCEPT !.does = effect]

(* A message: tapped, typed or media.  Typed text is a command, a number, a  *)
(* number plate, a name, a long text (an address), an amount with a name, or *)
(* nothing that reads as any of them.                                        *)
Tap(id) == [by |-> "tap", id |-> id]
Texts == {<<w>> : w \in {"menu", "hi", "cancel", "retry", "confirm", "done", "name", "plate", "long", "split", "junk"}}
           \cup {<<"number", n>> : n \in Numbers}
Typed(t) == [by |-> "text", id |-> t]
Media == [by |-> "media", id |-> <<"media">>]
Messages == {Tap(b) : b \in offered \cup Older} \cup {Typed(t) : t \in Texts} \cup {Media}

IsText(m, kinds) == m.by = "text" /\ m.id[1] \in kinds
HasLetters(m) == m.by = "text" /\ m.id[1] \notin {"junk", "number"}
Number(m) == IF m.id[1] = "number" THEN m.id[2] ELSE -1

-----------------------------------------------------------------------------
(* One handler per state.                                                    *)

HandleIdentify(c, m) ==
  IF HasLetters(m) THEN Asks(c, "join")
  ELSE [Says([c EXCEPT !.fails = Fails(c)], {}) EXCEPT !.heard = FALSE]

HandleMenu(c, m) ==
  CASE m.id = <<"order">> -> IF catalog = {} THEN Says(c, offered) ELSE GoTo(c, EmptyCart, "DEPOT")
    [] m.id = <<"prices">> -> Says(c, offered)
    [] m.id = <<"paylast">> /\ LastOrder # 0 /\ placed[LastOrder].status = "Pending" ->
         GoTo([c EXCEPT !.last = LastOrder], [EmptyCart EXCEPT !.awaiting = LastOrder], "AWAIT_PAYMENT")
    [] m.id = <<"reorder">> /\ LastOrder # 0 ->
         LET o == placed[LastOrder]
             cart == [EmptyCart EXCEPT !.depot = o.depot, !.product = o.product,
                                       !.quantity = o.quantity, !.type = o.type]
         IN  IF Sold(cart) THEN Onward(c, cart) ELSE GoTo(c, EmptyCart, "DEPOT")
    [] OTHER -> Fumble(c, MenuRows)

HandleDepot(c, m) ==
  IF m.id[1] = "depot" /\ OnOffer(m.id[2]) THEN Onward(c, [ClearDepot(c.cart) EXCEPT !.depot = m.id[2]])
  ELSE Fumble(c, DepotRows)

HandleProduct(c, m) ==
  IF ~OnOffer(c.cart.depot) THEN GoTo(c, ClearDepot(c.cart), "DEPOT")
  ELSE IF m.id[1] = "product" /\ <<c.cart.depot, m.id[2]>> \in catalog
  THEN Onward(c, [ClearProduct(c.cart) EXCEPT !.product = m.id[2]])
  ELSE Fumble(c, PromptFor("PRODUCT", c.cart))

HandleQuantity(c, m) ==
  IF ~Sold(c.cart) THEN GoTo(c, ClearDepot(c.cart), "DEPOT")
  ELSE IF Number(m) \in Quantities THEN Onward(c, [ClearQuantity(c.cart) EXCEPT !.quantity = Number(m)])
  ELSE Fumble(c, {})

HandleCompany(c, m) ==
  IF HasLetters(m) THEN Onward(c, [c.cart EXCEPT !.company = TRUE]) ELSE Fumble(c, {})

HandleCollect(c, m) ==
  IF m.id \in {<<"pickup">>, <<"delivery">>} THEN Onward(c, [ClearCollect(c.cart) EXCEPT !.type = m.id[1]])
  ELSE Fumble(c, PromptFor("COLLECT", c.cart))

(* The litres of the truck being named: it must fit, and leave the trucks    *)
(* still to come a share each can carry.                                     *)
LitresFit(cart, v) ==
  LET after == cart.truckCount - (Len(cart.trucks) + 1)
  IN  v \in 1..Capacity /\ Remaining(cart) - v \in after..(after * Capacity)

WithTruck(cart, v) == [cart EXCEPT !.litres = 0, !.trucks = Append(@, v)]

HandleTrucks(c, m) ==
  LET cart == c.cart
      last == Len(cart.trucks) + 1 = cart.truckCount
      Unless(ok, answer) == IF ok THEN answer ELSE Fumble(c, {<<"defer_trucks">>})
      plate == IsText(m, {"plate"})
  IN  IF ~Declaring(cart) THEN Fumble(c, PromptFor("LOGISTICS", cart))
      ELSE IF cart.quantity <= Capacity THEN Unless(plate, Onward(c, [cart EXCEPT !.trucks = <<cart.quantity>>]))
      ELSE IF cart.truckCount = 0
      THEN Unless(Number(m) \in MinTrucks(cart.quantity)..MaxTrucksFor(cart.quantity),
                  Onward(c, [cart EXCEPT !.truckCount = Number(m), !.trucks = <<>>]))
      ELSE IF cart.litres > 0 THEN Unless(plate, Onward(c, WithTruck(cart, cart.litres)))
      ELSE IF last THEN Unless(plate, Onward(c, WithTruck(cart, Remaining(cart))))
      ELSE Unless(LitresFit(cart, Number(m)), GoTo(c, [cart EXCEPT !.litres = Number(m)], "LOGISTICS"))

HandleLogistics(c, m) ==
  IF c.cart.type = "delivery"
  THEN IF IsText(m, {"long"}) THEN Onward(c, [c.cart EXCEPT !.address = TRUE]) ELSE Fumble(c, {})
  ELSE CASE m.id = <<"defer_trucks">> -> Onward(c, [ClearTrucks(c.cart) EXCEPT !.deferred = TRUE])
         [] m.id = <<"declare_trucks">> ->
              GoTo(c, [c.cart EXCEPT !.declare = TRUE, !.deferred = FALSE], "LOGISTICS")
         [] OTHER -> HandleTrucks(c, m)

ClearField(cart, field) ==
  CASE field = "depot" -> ClearDepot(cart)
    [] field = "product" -> ClearProduct(cart)
    [] field = "quantity" -> ClearQuantity(cart)
    [] field = "company" -> ClearCompany(cart)
    [] field = "collect" -> ClearCollect(cart)

HandleConfirm(c, m) ==
  LET cart == c.cart
      valid == Revalidated(cart)
      outdated == Len(m.id) = 2 /\ m.id[2] # CartToken(cart)
  IN CASE m.id \in EditRows -> Onward(c, ClearField(cart, m.id[2]))
       [] m.id = <<"edit">> -> Says(c, EditRows)
       [] m.id[1] = "confirm" ->
            IF outdated THEN Says(c, Summary(cart))
            ELSE IF valid # cart \/ NextStep(valid) # "CONFIRM" THEN Onward(c, valid)
            ELSE Asks(c, "order")
       [] OTHER -> Fumble(c, Summary(cart))

HandleExpected(c, m) ==
  LET cart == c.cart
      leave == GoTo(c, [cart EXCEPT !.expected = 0], "AWAIT_PAYMENT")
      buttons == PromptFor("EXPECTED_PAYMENT", cart)
  IN CASE m.id = <<"expectskip">> -> leave
       [] m.id \in {<<"expectdone">>, <<"done">>} ->
            IF cart.expected = 0 THEN leave ELSE [leave EXCEPT !.does = "note"]
       [] IsText(m, {"split"}) ->
            IF cart.expected >= MaxExpected THEN Says(c, buttons)
            ELSE Says([c EXCEPT !.cart.expected = @ + 1, !.fails = 0], buttons)
       [] OTHER -> Fumble(c, buttons)

HandleAwait(c, m) ==
  CASE m.id = <<"cancelorder">> /\ c.last # 0 -> Says(c, CancelQuestion)
    [] m.id = <<"cancelorder:yes">> /\ c.last # 0 -> Asks(c, "cancel")
    [] OTHER -> Says(c, PromptFor("AWAIT_PAYMENT", c.cart))

HandleState(c, m) ==
  CASE c.state = "IDENTIFY" -> HandleIdentify(c, m)
    [] c.state = "MENU" -> HandleMenu(c, m)
    [] c.state = "DEPOT" -> HandleDepot(c, m)
    [] c.state = "PRODUCT" -> HandleProduct(c, m)
    [] c.state = "QUANTITY" -> HandleQuantity(c, m)
    [] c.state = "COMPANY" -> HandleCompany(c, m)
    [] c.state = "COLLECT" -> HandleCollect(c, m)
    [] c.state = "LOGISTICS" -> HandleLogistics(c, m)
    [] c.state = "CONFIRM" -> HandleConfirm(c, m)
    [] c.state = "EXPECTED_PAYMENT" -> HandleExpected(c, m)
    [] c.state = "AWAIT_PAYMENT" -> HandleAwait(c, m)

-----------------------------------------------------------------------------
(* What is looked at before the state: who is writing, media, the words that *)
(* work everywhere, and a cart offered back after a long silence.            *)

HandleWord(c, m) ==
  LET nameless == c.state = "IDENTIFY" /\ account = "none"
      building == c.state \in Building /\ c.cart # EmptyCart
  IN CASE m.id = <<"menu">> \/ (m.id = <<"hi">> /\ ~building) ->
            IF nameless THEN Says(c, {}) ELSE GoTo(c, c.cart, "MENU")
       [] m.id = <<"hi">> /\ building -> Says(c, PromptFor(c.state, c.cart))
       [] m.id = <<"cancel">> ->
            IF nameless THEN Says(c, {})
            ELSE IF c.state \in {"AWAIT_PAYMENT", "EXPECTED_PAYMENT"} /\ c.last # 0 THEN Says(c, CancelQuestion)
            ELSE GoTo(c, EmptyCart, "MENU")
       [] m.id \in {<<"help">>, <<"track">>} -> Says(c, offered)
       [] m.id = <<"retry">> -> Says([c EXCEPT !.fails = 0], PromptFor(c.state, c.cart))

IsWord(c, m) ==
  \/ m.id \in {<<"menu">>, <<"cancel">>, <<"help">>, <<"track">>, <<"retry">>}
  \/ m.id = <<"hi">> /\ ~(c.state \in Building /\ c.cart # EmptyCart /\ lapsed)

HandleSilence(c, m) ==
  IF lapsed /\ c.cart # EmptyCart /\ ~c.cart.resume
  THEN Says([c EXCEPT !.state = "MENU", !.cart.resume = TRUE], {<<"resume">>, <<"startover">>})
  ELSE IF c.cart.resume /\ m.id = <<"resume">>
  THEN Onward(c, Revalidated([c.cart EXCEPT !.resume = FALSE]))
  ELSE IF c.cart.resume /\ m.id = <<"startover">> THEN GoTo(c, EmptyCart, "MENU")
  ELSE HandleState(c, m)

Reduce(c, m) ==
  IF account = "none" /\ c.state # "IDENTIFY" THEN GoTo(c, EmptyCart, "IDENTIFY")
  ELSE IF account = "barred" THEN Says(c, offered)
  ELSE IF m.by = "media" THEN Fumble(c, PromptFor(c.state, c.cart))
  ELSE IF IsWord(c, m) THEN HandleWord(c, m)
  ELSE HandleSilence(c, m)

-----------------------------------------------------------------------------
(* A turn: the answer, the effect, the re-entry, the save.                   *)

Settle(c, buttons) ==
  chat' = c /\ lapsed' = FALSE /\ offered' = buttons

PlaceOrder(c) ==
  LET cart == c.cart
      Await(o) ==
        Settle([c EXCEPT !.state = "EXPECTED_PAYMENT", !.last = o, !.fails = 0,
                         !.cart = [EmptyCart EXCEPT !.awaiting = o]],
               {<<"cancelorder">>, <<"expectdone">>, <<"expectskip">>})
  IN \/ /\ Len(placed) < MaxOrders
        /\ placed' = Append(placed, [status |-> "Pending", depot |-> cart.depot, product |-> cart.product,
                                     quantity |-> cart.quantity, type |-> cart.type])
        /\ Await(Len(placed) + 1)
     \* the same order a moment ago: that one is answered
     \/ \E o \in DOMAIN placed :
          /\ <<placed[o].depot, placed[o].product, placed[o].quantity, placed[o].type>>
               = <<cart.depot, cart.product, cart.quantity, cart.type>>
          /\ placed[o].status # "Closed"
          /\ IF placed[o].status = "Paid"
             THEN Settle([c EXCEPT !.state = "MENU", !.cart = EmptyCart, !.last = o, !.fails = 0], {})
             ELSE Await(o)
          /\ UNCHANGED placed
     \* no stock to reserve
     \/ LET r == GoTo(c, ClearDepot(cart), "DEPOT") IN Settle(r.chat, r.offers) /\ UNCHANGED placed
     \* any other refusal
     \/ Settle(c, Summary(cart)) /\ UNCHANGED placed

(* A closed order, or a paid one that is already loading, is not cancelled;  *)
(* payment and release alone do not stand in the way.                        *)
CancelOrder(c) ==
  \/ /\ placed[c.last].status # "Pending"
     /\ Settle(c, PromptFor(c.state, c.cart)) /\ UNCHANGED placed
  \/ /\ placed[c.last].status # "Closed"
     /\ placed' = [placed EXCEPT ![c.last].status = "Closed"]
     /\ Settle(GoTo(c, EmptyCart, "MENU").chat, MenuRows')  \* the context is loaded again

TakeTurn(m) ==
  \E r \in {Reduce(chat, m)} :
     /\ UNCHANGED <<catalog, notes, untold>>
     /\ unheard' = IF m.by = "tap" /\ m.id \in offered /\ ~r.heard THEN {m.id} ELSE {}
     /\ CASE r.does = "order" -> PlaceOrder(r.chat) /\ UNCHANGED account
          [] r.does = "cancel" -> CancelOrder(r.chat) /\ UNCHANGED account
          [] r.does = "join" ->
               /\ account' = "active"
               /\ Settle([r.chat EXCEPT !.state = "MENU", !.cart = EmptyCart, !.fails = 0], MenuRows)
               /\ UNCHANGED placed
          [] OTHER -> Settle(r.chat, r.offers) /\ UNCHANGED <<account, placed>>

(* A payment is announced to the customer, who is done waiting for it.       *)
StaysWaiting(c) == IF c.state = "AWAIT_PAYMENT" THEN c ELSE [c EXCEPT !.state = "MENU", !.cart = EmptyCart]
Leaves(c) == [c EXCEPT !.state = "MENU", !.cart = EmptyCart, !.fails = 0]
Told(o) ==
  /\ o \in notes
  /\ notes' = notes \ {o} /\ untold' = untold \ {o}
  /\ Settle(Leaves(chat), {})
  /\ unheard' = {}
  /\ UNCHANGED <<account, catalog, placed>>

-----------------------------------------------------------------------------
(* What happens around the chat.                                             *)

Outside == offered' = {} /\ unheard' = {}

(* Money reaches an order: part of it, or all.  Matching a statement line    *)
(* tells the chat; a transfer from another order does not, and a notice may  *)
(* die in its queue.                                                         *)
Pay(o, all, notice) ==
  /\ placed[o].status = "Pending"
  /\ placed' = IF all THEN [placed EXCEPT ![o].status = "Paid"] ELSE placed
  /\ untold' = IF all THEN untold \cup {o} ELSE untold
  /\ notes' = IF notice THEN notes \cup {o} ELSE notes
  /\ Outside
  /\ UNCHANGED <<chat, lapsed, account, catalog>>

(* The payment window closes, or staff cancel.                               *)
CloseOrder(o) ==
  /\ placed[o].status # "Closed"
  /\ placed' = [placed EXCEPT ![o].status = "Closed"]
  /\ Outside
  /\ UNCHANGED <<chat, lapsed, account, catalog, notes, untold>>

FallIdle ==
  /\ ~lapsed /\ chat # FreshChat /\ lapsed' = TRUE
  /\ Outside
  /\ UNCHANGED <<chat, account, catalog, placed, notes, untold>>

SweepExpired ==
  /\ lapsed /\ lapsed' = FALSE /\ chat' = FreshChat
  /\ Outside
  /\ UNCHANGED <<account, catalog, placed, notes, untold>>

Reprice ==
  /\ \E sold \in SUBSET (Depots \X Products) : catalog' = sold
  /\ Outside
  /\ UNCHANGED <<chat, lapsed, account, placed, notes, untold>>

ChangeAccount ==
  /\ account' = IF account = "active" THEN "barred" ELSE "active"
  /\ Outside
  /\ UNCHANGED <<chat, lapsed, catalog, placed, notes, untold>>

NextChat ==
  \/ \E m \in Messages : TakeTurn(m)
  \/ \E o \in DOMAIN placed :
       \/ Told(o) \/ CloseOrder(o)
       \/ \E all, notice \in BOOLEAN : Pay(o, all, notice)
  \/ FallIdle \/ SweepExpired \/ Reprice \/ ChangeAccount

SpecChat == InitChat /\ [][NextChat]_chatVars

-----------------------------------------------------------------------------
(* Properties.                                                               *)

ChatTypes ==
  /\ chat.state \in States /\ chat.fails \in 0..MaxFailures
  /\ chat.last \in 0..Len(placed) /\ untold \subseteq DOMAIN placed

TrucksAddUp(cart) ==
  LET left == cart.truckCount - Len(cart.trucks) - (IF cart.litres > 0 THEN 1 ELSE 0)
      litres == Remaining(cart) - cart.litres
  IN /\ \A i \in DOMAIN cart.trucks : cart.trucks[i] \in 1..Capacity
     /\ cart.truckCount > 0 => left \in 0..MaxTrucks /\ litres \in left..(left * Capacity)
     /\ LogisticsDone(cart) /\ ~cart.deferred => Remaining(cart) = 0

(* However a cart came about - typed, edited, resumed after a silence, taken *)
(* from an earlier order, sent back by a refusal - the question being asked  *)
(* is its first unanswered one, its trucks can be and in the end are loaded  *)
(* with exactly its litres (placeOrder refuses any other split, and would at *)
(* every try), a parked cart waits in the menu, and the order whose payment  *)
(* is awaited is the one a cancellation would reach.                         *)
ChatHolds ==
  /\ ChatTypes
  /\ chat.state \in Building => chat.state = NextStep(chat.cart)
  /\ chat.cart.quantity > 0 => TrucksAddUp(chat.cart)
  /\ chat.cart.resume => chat.state = "MENU"
  /\ chat.state \in {"EXPECTED_PAYMENT", "AWAIT_PAYMENT"} => chat.last # 0 /\ chat.cart.awaiting = chat.last

(* A button of the last answer, tapped while nothing has changed since, is   *)
(* understood.  But the buttons of the cancel question are not while the     *)
(* depositors are being asked for, nor a depot row shown because the cart's  *)
(* product went off sale just before the summary.                            *)
TapsAreHeard ==
  \A b \in unheard :
    \/ chat.state = "EXPECTED_PAYMENT" /\ b \in CancelQuestion \cup {<<"cancelorder">>}
    \/ chat.state = "CONFIRM" /\ b[1] = "depot"

(* The chat cancels an order that has been paid only while it has not been   *)
(* told of the payment, by a notice still on its way or never sent.          *)
CancelsPaidOnlyUntold ==
  [][\A o \in DOMAIN placed :
       placed[o].status = "Paid" /\ chat' # chat /\ placed'[o].status = "Closed" => o \in untold]_chatVars

(* What copy.cancelOrderConfirm and copy.orderCancelled tell the customer,   *)
(* and the portal's own guard: the order cancelled has not been paid.        *)
NothingWasCharged ==
  [][\A o \in DOMAIN placed : placed[o].status = "Paid" /\ chat' # chat => placed'[o].status = "Paid"]_chatVars

(* Without the exceptions of TapsAreHeard: whatever is offered is read.      *)
EveryTapIsHeard == unheard = {}

(* "In AWAIT_PAYMENT there is no cart to discard - there is a REAL unpaid    *)
(* order": but resumed after a silence it is asked for a depot.              *)
UnpaidIsNoCart == chat.cart.awaiting # 0 => chat.state \notin Building

(* "Only the explicit "menu" and "cancel" commands" discard a half-built     *)
(* order: but a payment notice does.                                         *)
OnlyWordsDiscard ==
  [][chat.state \in Building /\ notes' # notes => chat'.cart = chat.cart]_chatVars
=============================================================================
