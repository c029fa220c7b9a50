----------------------------- MODULE Marketplace -----------------------------
(***************************************************************************)
(* The shop: products with a stock, carts, orders and their payments.      *)
(*   src/src/modules/admin/marketplace-management/                         *)
(*     marketplace-management.service.ts,                                  *)
(*   the marketplace branch of payment_intent.succeeded in                 *)
(*     src/src/modules/payment/stripe/stripe.controller.ts.                *)
(*                                                                         *)
(* Nothing is reserved at checkout: stock is compared when an item is put  *)
(* into the cart, again at checkout, and taken only when the webhook       *)
(* confirms the paid order, one product row at a time.                     *)
(***************************************************************************)
EXTENDS Integers, FiniteSets, FiniteSetsExt

CONSTANTS
    Buyers,
    Products,
    Rows,           \* primary keys of add_to_cart
    Orders,         \* primary keys of marketplace_orders; each has one payment
    Requests,       \* API calls that may be in flight at one time
    Hooks,          \* webhook deliveries that may be in flight at one time
    None,           \* SQL NULL in a foreign key
    Stock,          \* stock_quantity of every product at first
    Quantities,     \* quantities an athlete asks for
    StockEdits,     \* stock quantities the admin may write
    StatusEdits,    \* order statuses the admin may write
    ShelfEdits,     \* columns of a product the admin may write besides its stock
    Declines,       \* may the bank decline a card?
    MaxSold,        \* bound on sold_quantity: broken-off confirmations repeat
    Redeliver,      \* may Stripe deliver an event more than once?
    Faults          \* may a handler stop, or throw, between two awaits?

Procs == Requests \cup Hooks

ASSUME ProcsDisjoint == Requests \cap Hooks = {}
ASSUME NoneIsNoKey == None \notin Buyers \cup Products \cup Rows \cup Orders
ASSUME KeysAreFinite == IsFiniteSet(Rows) /\ IsFiniteSet(Orders)
ASSUME StockIsCount == Stock \in Nat /\ MaxSold \in Nat /\ StockEdits \subseteq Nat
ASSUME QuantitiesArePositive == Quantities \subseteq Nat \ {0}
ASSUME SwitchesAreBoolean == {Redeliver, Faults, Declines} \subseteq BOOLEAN
ASSUME ShelfEditsAreColumns == ShelfEdits \subseteq {"active", "deleted"}

OrderStatus == {"PENDING", "CONFIRMED", "SHIPPED", "DELIVERED", "CANCELLED"}

ASSUME EditsAreStatuses == StatusEdits \subseteq OrderStatus

VARIABLES
    products,   \* marketplace_products
    cart,       \* add_to_cart
    orders,     \* marketplace_orders with their items, transaction row and intent
    events,     \* payment_intent events Stripe still has to deliver
    proc,       \* the handlers in flight
    hist        \* history: orders the admin edited, confirmations that stopped,
                \* products whose stock the admin wrote

vars == <<products, cart, orders, events, proc, hist>>

-----------------------------------------------------------------------------
ProductRow == [stock  : Int,        \* stock_quantity
               sold   : Nat,        \* sold_quantity
               active : BOOLEAN,    \* is_active and status ACTIVE
               deleted: BOOLEAN]    \* deleted_at

CartRow == [buyer : Buyers \cup {None}, product : Products \cup {None}, qty : Nat]

NoRow == [buyer |-> None, product |-> None, qty |-> 0]

Item == [row : Rows, product : Products, qty : Nat]

OrderRow == [status : OrderStatus \cup {"ABSENT"},
             buyer  : Buyers \cup {None},
             items  : SUBSET Item,
             tx     : {"none", "pending", "failed", "succeeded", "captured"},
             intent : {"none", "open", "succeeded"},
             secret : BOOLEAN]      \* the client holds client_secret

NoOrder == [status |-> "ABSENT", buyer |-> None, items |-> {}, tx |-> "none",
            intent |-> "none", secret |-> FALSE]

Local == [pc    : {"idle", "add_write", "order_create", "order_pay", "order_clear",
                   "confirm_read", "confirm_item", "confirm_tx"},
          buyer : Buyers \cup {None},
          product : Products \cup {None},
          row   : Rows \cup {None},
          qty   : Nat,
          o     : Orders \cup {None},
          items : SUBSET Item,
          seen  : [Products -> Int]]    \* stock as it was read

Idle == [pc |-> "idle", buyer |-> None, product |-> None, row |-> None, qty |-> 0,
         o |-> None, items |-> {}, seen |-> [p \in Products |-> 0]]

Init ==
    /\ products = [p \in Products |->
                      [stock |-> Stock, sold |-> 0, active |-> TRUE, deleted |-> FALSE]]
    /\ cart = [c \in Rows |-> NoRow]
    /\ orders = [o \in Orders |-> NoOrder]
    /\ events = {}
    /\ proc = [x \in Procs |-> Idle]
    /\ hist = [edited |-> {}, stopped |-> {}, restocked |-> {}]

At(x, pc) == proc[x].pc = pc

Begin(x, l) == proc' = [proc EXCEPT ![x] = l]

Goto(x, pc) == proc' = [proc EXCEPT ![x].pc = pc]

Return(x) == proc' = [proc EXCEPT ![x] = Idle]

StockNow == [p \in Products |-> products[p].stock]

RowsOf(u) == {c \in Rows : cart[c].buyer = u}

-----------------------------------------------------------------------------
(* addToCart and removeFromCart                                            *)

\* Reads the product and the buyer's row for it, if there is one.  The stock read
\* here only caps the quantity; checkout compares again.
AddRead(r, u, p, q) ==
    /\ At(r, "idle")
    /\ products[p].active /\ ~products[p].deleted
    /\ products[p].stock > 0 /\ products[p].stock >= q
    /\ LET mine == {c \in RowsOf(u) : cart[c].product = p} IN
         \E c \in IF mine = {} THEN {None} ELSE mine :
            Begin(r, [Idle EXCEPT !.pc = "add_write", !.buyer = u, !.product = p, !.row = c,
                        !.qty = IF c = None THEN q ELSE Min({cart[c].qty + q, products[p].stock})])
    /\ UNCHANGED <<products, cart, orders, events, hist>>

\* An update of a row that is gone throws.
AddWrite(r) ==
    /\ At(r, "add_write")
    /\ LET l == proc[r] IN
         \/ /\ l.row = None
            /\ \E c \in Rows : /\ cart[c] = NoRow
                               /\ cart' = [cart EXCEPT ![c] =
                                     [buyer |-> l.buyer, product |-> l.product, qty |-> l.qty]]
         \/ l.row # None /\ cart[l.row] # NoRow /\ cart' = [cart EXCEPT ![l.row].qty = l.qty]
         \/ l.row # None /\ cart[l.row] = NoRow /\ cart' = cart
    /\ Return(r)
    /\ UNCHANGED <<products, orders, events, hist>>

\* Finding the row and deleting it: a second deletion throws, so one step.
RemoveFromCart(u, p) ==
    /\ \E c \in RowsOf(u) : cart[c].product = p /\ cart' = [cart EXCEPT ![c] = NoRow]
    /\ UNCHANGED <<products, orders, events, proc, hist>>

-----------------------------------------------------------------------------
(* checkout                                                                *)

\* Reads the cart with its products.  A deleted product is not asked for.
OrderRead(r, u) ==
    /\ At(r, "idle")
    /\ RowsOf(u) # {}
    /\ \A c \in RowsOf(u) : /\ products[cart[c].product].active
                            /\ products[cart[c].product].stock >= cart[c].qty
    /\ Begin(r, [Idle EXCEPT !.pc = "order_create", !.buyer = u,
                   !.items = {[row |-> c, product |-> cart[c].product, qty |-> cart[c].qty]
                                 : c \in RowsOf(u)}])
    /\ UNCHANGED <<products, cart, orders, events, hist>>

\* The transaction row and the order that names it.
OrderCreate(r) ==
    /\ At(r, "order_create")
    /\ \E o \in Orders :
         /\ orders[o].status = "ABSENT"
         /\ orders' = [orders EXCEPT ![o] = [NoOrder EXCEPT !.status = "PENDING",
                !.buyer = proc[r].buyer, !.items = proc[r].items, !.tx = "pending"]]
         /\ proc' = [proc EXCEPT ![r] = [@ EXCEPT !.pc = "order_pay", !.o = o, !.items = {}]]
    /\ UNCHANGED <<products, cart, events, hist>>

\* The intent, and its id in the transaction row.
OrderPay(r) ==
    /\ At(r, "order_pay")
    /\ orders' = [orders EXCEPT ![proc[r].o].intent = "open"]
    /\ Goto(r, "order_clear")
    /\ UNCHANGED <<products, cart, events, hist>>

\* Every row the buyer has by now is deleted; the answer carries the client secret.
OrderClear(r) ==
    /\ At(r, "order_clear")
    /\ cart' = [c \in Rows |-> IF cart[c].buyer = proc[r].buyer THEN NoRow ELSE cart[c]]
    /\ orders' = [orders EXCEPT ![proc[r].o].secret = TRUE]
    /\ Return(r)
    /\ UNCHANGED <<products, events, hist>>

\* Any await may throw: an order may stay without a payment, and the cart full.
RequestStops(r) ==
    /\ Faults /\ ~At(r, "idle")
    /\ Return(r)
    /\ UNCHANGED <<products, cart, orders, events, hist>>

-----------------------------------------------------------------------------
(* The client and Stripe                                                   *)

Pay(o) ==
    /\ orders[o].intent = "open" /\ orders[o].secret
    /\ orders' = [orders EXCEPT ![o].intent = "succeeded"]
    /\ events' = events \cup {[kind |-> "succeeded", o |-> o]}
    /\ UNCHANGED <<products, cart, proc, hist>>

CardFails(o) ==
    /\ Declines
    /\ orders[o].intent = "open" /\ orders[o].secret
    /\ events' = events \cup {[kind |-> "payment_failed", o |-> o]}
    /\ UNCHANGED <<products, cart, orders, proc, hist>>

-----------------------------------------------------------------------------
(* The webhook, and confirmOrderInternal                                   *)

Deliver(h, e) ==
    /\ At(h, "idle")
    /\ e \in events
    /\ \/ events' = events \ {e}
       \/ Redeliver /\ events' = events

SetTx(o, status) == orders' = [orders EXCEPT ![o].tx = status]

\* Mutant: every payment_intent event counts as a payment.
HookFailedSucceeds(h, o) ==
    /\ Deliver(h, [kind |-> "payment_failed", o |-> o])
    /\ SetTx(o, "succeeded")
    /\ Begin(h, [Idle EXCEPT !.pc = "confirm_read", !.o = o])
    /\ UNCHANGED <<products, cart, hist>>

HookFailed(h, o) ==
    /\ Deliver(h, [kind |-> "payment_failed", o |-> o])
    /\ SetTx(o, "failed")
    /\ UNCHANGED <<products, cart, proc, hist>>

\* updateTransaction; the transaction's id and the order that names it do not change.
HookSucceeded(h, o) ==
    /\ Deliver(h, [kind |-> "succeeded", o |-> o])
    /\ SetTx(o, "succeeded")
    /\ Begin(h, [Idle EXCEPT !.pc = "confirm_read", !.o = o])
    /\ UNCHANGED <<products, cart, hist>>

\* Mutant: the guard for an order that is not PENDING any more is missing.
ConfirmReadAgain(h) ==
    /\ At(h, "confirm_read")
    /\ proc' = [proc EXCEPT ![h] = [@ EXCEPT !.pc = "confirm_item",
                   !.items = orders[proc[h].o].items, !.seen = StockNow]]
    /\ UNCHANGED <<products, cart, orders, events, hist>>

\* Reads the order, its items and their products at once.
ConfirmRead(h) ==
    /\ At(h, "confirm_read")
    /\ IF orders[proc[h].o].status # "PENDING" THEN Return(h)
       ELSE proc' = [proc EXCEPT ![h] = [@ EXCEPT !.pc = "confirm_item",
                        !.items = orders[proc[h].o].items, !.seen = StockNow]]
    /\ UNCHANGED <<products, cart, orders, events, hist>>

\* stock_quantity: { decrement }, sold_quantity: { increment }.
Sold(row, n) == [row EXCEPT !.stock = @ - n, !.sold = @ + n]

Sell(i) == products' = [products EXCEPT ![i.product] = Sold(@, i.qty)]

\* Mutant: the stock is not compared.
ConfirmItemAnyway(h) ==
    /\ At(h, "confirm_item")
    /\ \E i \in proc[h].items :
         /\ products[i.product].sold + i.qty <= MaxSold
         /\ proc' = [proc EXCEPT ![h].items = @ \ {i}]
         /\ Sell(i)
    /\ UNCHANGED <<cart, orders, events, hist>>

\* One product row at a time, if the stock that was read suffices: "Log error but
\* don't fail - payment already succeeded".
ConfirmItem(h) ==
    /\ At(h, "confirm_item")
    /\ \E i \in proc[h].items :
         /\ products[i.product].sold + i.qty <= MaxSold
         /\ proc' = [proc EXCEPT ![h].items = @ \ {i}]
         /\ IF proc[h].seen[i.product] < i.qty THEN products' = products ELSE Sell(i)
    /\ UNCHANGED <<cart, orders, events, hist>>

\* Mutant: an order with a product that ran out is left as it is.
ConfirmWriteWhole(h) ==
    /\ At(h, "confirm_item") /\ proc[h].items = {}
    /\ IF \E i \in orders[proc[h].o].items : proc[h].seen[i.product] < i.qty
       THEN Return(h) /\ orders' = orders
       ELSE /\ orders' = [orders EXCEPT ![proc[h].o].status = "CONFIRMED"]
            /\ Goto(h, "confirm_tx")
    /\ UNCHANGED <<products, cart, events, hist>>

ConfirmWrite(h) ==
    /\ At(h, "confirm_item") /\ proc[h].items = {}
    /\ orders' = [orders EXCEPT ![proc[h].o].status = "CONFIRMED"]
    /\ Goto(h, "confirm_tx")
    /\ UNCHANGED <<products, cart, events, hist>>

\* Mutant: the order's status is written to the transaction.
ConfirmTxSwapped(h) ==
    /\ At(h, "confirm_tx")
    /\ SetTx(proc[h].o, orders[proc[h].o].status)
    /\ Return(h)
    /\ UNCHANGED <<products, cart, events, hist>>

ConfirmTx(h) ==
    /\ At(h, "confirm_tx")
    /\ SetTx(proc[h].o, "captured")
    /\ Return(h)
    /\ UNCHANGED <<products, cart, events, hist>>

HookContinue(h) == ConfirmRead(h) \/ ConfirmItem(h) \/ ConfirmWrite(h) \/ ConfirmTx(h)

\* A swallowed error answers 200 and the event is gone; after a stopped process
\* Stripe delivers it again.
HookStops(h) ==
    /\ Faults /\ ~At(h, "idle")
    /\ Return(h)
    /\ hist' = [hist EXCEPT !.stopped = @ \cup {proc[h].o}]
    /\ \/ events' = events
       \/ events' = events \cup {[kind |-> "succeeded", o |-> proc[h].o]}
    /\ UNCHANGED <<products, cart, orders>>

-----------------------------------------------------------------------------
(* The admin                                                               *)

\* updateOrderStatus: any status over any other; neither stock nor payment follows.
EditOrder(o, status) ==
    /\ orders[o].status # "ABSENT"
    /\ orders' = [orders EXCEPT ![o].status = status]
    /\ hist' = [hist EXCEPT !.edited = @ \cup {o}]
    /\ UNCHANGED <<products, cart, events, proc>>

\* updateProduct: the stock is overwritten with the number of the request.
EditStock(p, n) ==
    /\ ~products[p].deleted
    /\ products' = [products EXCEPT ![p].stock = n]
    /\ hist' = [hist EXCEPT !.restocked = @ \cup {p}]
    /\ UNCHANGED <<cart, orders, events, proc>>

\* updateProduct and updateProductStatus.
EditActive(p) ==
    /\ "active" \in ShelfEdits
    /\ ~products[p].deleted
    /\ products' = [products EXCEPT ![p].active = ~@]
    /\ UNCHANGED <<cart, orders, events, proc, hist>>

RemoveProduct(p) ==
    /\ "deleted" \in ShelfEdits
    /\ ~products[p].deleted
    /\ products' = [products EXCEPT ![p].deleted = TRUE]
    /\ UNCHANGED <<cart, orders, events, proc, hist>>

-----------------------------------------------------------------------------
Continue(r) == AddWrite(r) \/ OrderCreate(r) \/ OrderPay(r) \/ OrderClear(r)

Next ==
    \/ \E r \in Requests :
          \/ \E u \in Buyers, p \in Products, q \in Quantities : AddRead(r, u, p, q)
          \/ \E u \in Buyers : OrderRead(r, u)
          \/ Continue(r) \/ RequestStops(r)
    \/ \E u \in Buyers, p \in Products : RemoveFromCart(u, p)
    \/ \E o \in Orders : Pay(o) \/ CardFails(o)
    \/ \E h \in Hooks :
          \/ \E o \in Orders : HookFailed(h, o) \/ HookSucceeded(h, o)
          \/ HookContinue(h) \/ HookStops(h)
    \/ \E o \in Orders, status \in StatusEdits : EditOrder(o, status)
    \/ \E p \in Products : \/ \E n \in StockEdits : EditStock(p, n)
                           \/ EditActive(p) \/ RemoveProduct(p)

Spec == Init /\ [][Next]_vars

\* Node goes on with a webhook it has begun, and Stripe delivers what is pending.
FairSpec ==
    /\ Spec
    /\ \A h \in Hooks : /\ WF_vars(HookContinue(h))
                        /\ \A o \in Orders : SF_vars(HookSucceeded(h, o))

-----------------------------------------------------------------------------
(* Properties                                                              *)

\* Every row, event and handler keeps its type.
MarketTypeOK ==
    /\ products \in [Products -> ProductRow]
    /\ cart \in [Rows -> CartRow]
    /\ orders \in [Orders -> OrderRow]
    /\ events \subseteq [kind : {"succeeded", "payment_failed"}, o : Orders]
    /\ proc \in [Procs -> Local]
    /\ hist \in [edited : SUBSET Orders, stopped : SUBSET Orders, restocked : SUBSET Products]

\* Confirmations that do not overlap, of orders that name a product once, never take
\* more of it than there is, although nothing is reserved at checkout: below zero, the
\* admin wrote the stock between a confirmation's read and its decrement.
NeverOversold == \A p \in Products : products[p].stock < 0 => p \in hist.restocked

\* What an item, and an order, ask of product p.
Units(i, p) == IF i.product = p THEN i.qty ELSE 0

Ordered(o, p) == MapThenSumSet(LAMBDA i : Units(i, p), orders[o].items)

Paid == {o \in Orders : orders[o].intent = "succeeded"}

\* However often Stripe repeats an event, a paid order counts once in sold_quantity,
\* unless a confirmation was broken off in the middle or the admin set it back.
SoldOnce ==
    hist.stopped \cup hist.edited = {} =>
        \A p \in Products :
            products[p].sold <= MapThenSumSet(LAMBDA o : Ordered(o, p), Paid)

\* The shop takes an order, and its transaction, for paid only when Stripe was paid,
\* unless the admin wrote the order's status.
ConfirmedIsPaid ==
    \A o \in Orders :
        /\ orders[o].tx \in {"succeeded", "captured"} => orders[o].intent = "succeeded"
        /\ orders[o].status \notin {"ABSENT", "PENDING"} /\ o \notin hist.edited
              => orders[o].intent = "succeeded"

\* A paid order leaves PENDING in the end, also when a product has run out, unless a
\* confirmation of it was broken off or the admin wrote its status.
PaidIsConfirmed ==
    \A o \in Orders :
        orders[o].intent = "succeeded" /\ orders[o].status = "PENDING"
            ~> orders[o].status # "PENDING" \/ o \in hist.stopped \cup hist.edited
=============================================================================
