---------------------------- MODULE MarketProofs ----------------------------
(***************************************************************************)
(* Theorems about Marketplace, for any number of athletes, products, cart  *)
(* rows, orders, API calls and webhook deliveries in flight: overlapping   *)
(* calls and deliveries, repeated events and handlers that stop included.  *)
(* The shop's tables keep their types, and no order or transaction says    *)
(* that it is paid unless Stripe was.  With one call and one confirmation  *)
(* at a time, no more of a product is sold than there is, and a paid order *)
(* counts once in sold_quantity.                                           *)
(***************************************************************************)
EXTENDS Marketplace, TLAPS, FiniteSetTheorems, SumTheorems

ConfirmPC == {"confirm_read", "confirm_item", "confirm_tx"}
OrderPC == {"order_pay", "order_clear"}

\* The row ids a handler holds at each await.
Holds(x, l) ==
    /\ x \in Hooks => l.pc \in ConfirmPC \cup {"idle"}
    /\ l.pc = "add_write" => l.buyer # None /\ l.product # None
    /\ l.pc \in ConfirmPC \cup OrderPC => l.o \in Orders

TypeInv ==
    /\ MarketTypeOK
    /\ \A c \in Rows : cart[c].buyer # None => cart[c].product # None
    /\ \A x \in Procs : Holds(x, proc[x])

\* What the row of an order, an event and a handler's locals say about money.
RowTrue(o) ==
    /\ orders[o].tx \in {"succeeded", "captured"} => orders[o].intent = "succeeded"
    /\ orders[o].status \notin {"ABSENT", "PENDING"} /\ o \notin hist.edited
          => orders[o].intent = "succeeded"
    /\ orders[o].status = "ABSENT" => orders[o].intent = "none"

Told(e) == e.kind = "succeeded" => orders[e.o].intent = "succeeded"

Fresh(o) == orders[o].intent = "none" /\ orders[o].status # "ABSENT"

Learnt(l) ==
    /\ l.pc \in ConfirmPC => orders[l.o].intent = "succeeded"
    /\ l.pc = "order_pay" => Fresh(l.o)

\* All of it is true, and an order whose payment is being created is nobody else's.
PaidInv ==
    /\ \A o \in Orders : RowTrue(o)
    /\ \A e \in events : Told(e)
    /\ \A x \in Procs : Learnt(proc[x])
    /\ \A x, y \in Procs :
          x # y /\ proc[x].pc = "order_pay" /\ proc[y].pc = "order_pay" => proc[x].o # proc[y].o

\* A step that keeps the rows true, the paid orders paid, and the orders of the
\* handlers in S fresh.
RowsKept(S) ==
    /\ \A o \in Orders : RowTrue(o)'
    /\ \A o \in Orders : orders[o].intent = "succeeded" => orders'[o].intent = "succeeded"
    /\ \A y \in S : proc[y].pc = "order_pay" =>
          orders'[proc[y].o].intent = "none" /\ orders'[proc[y].o].status # "ABSENT"

-----------------------------------------------------------------------------
(* Building blocks                                                         *)

\* A handler that is not running holds nothing.
LEMMA IdleType == Idle \in Local /\ \A x \in Procs : Holds(x, Idle)
  BY DEF Idle, Local, Holds, ConfirmPC, OrderPC

\* A step that gives one handler locals of the right shape keeps all of them so.
LEMMA ProcType ==
  ASSUME TypeInv, NEW x \in Procs, NEW l \in Local, Holds(x, l), proc' = [proc EXCEPT ![x] = l]
  PROVE  proc' \in [Procs -> Local] /\ \A y \in Procs : Holds(y, proc'[y])
  BY DEF TypeInv, MarketTypeOK

\* The end of a handler does.
LEMMA ReturnType ==
  ASSUME TypeInv, NEW x \in Procs, Return(x)
  PROVE  proc' \in [Procs -> Local] /\ \A y \in Procs : Holds(y, proc'[y])
  BY IdleType, ProcType DEF Return

\* So does going on to an await of the same kind.
LEMMA GotoType ==
  ASSUME TypeInv, NEW x \in Procs, NEW pc, Goto(x, pc),
         \/ pc \in OrderPC /\ proc[x].pc \in OrderPC
         \/ pc \in ConfirmPC /\ proc[x].pc \in ConfirmPC
  PROVE  proc' \in [Procs -> Local] /\ \A y \in Procs : Holds(y, proc'[y])
<1>1. proc[x] \in Local /\ Holds(x, proc[x])
  BY DEF TypeInv, MarketTypeOK
<1>2. [proc[x] EXCEPT !.pc = pc] \in Local
  BY <1>1 DEF Local, OrderPC, ConfirmPC
<1>3. Holds(x, [proc[x] EXCEPT !.pc = pc])
  BY <1>1 DEF Local, Holds, OrderPC, ConfirmPC
<1>. QED
  BY <1>2, <1>3, ProcType DEF Goto

\* Writing an order's row keeps the type of the table.
LEMMA OrderType ==
  ASSUME TypeInv, NEW o, NEW row, orders[o] \in OrderRow => row \in OrderRow,
         orders' = [orders EXCEPT ![o] = row]
  PROVE  orders' \in [Orders -> OrderRow]
  BY DEF TypeInv, MarketTypeOK

\* A product of which something was sold is a product.
LEMMA SoldType == ASSUME NEW row \in ProductRow, NEW n \in Nat PROVE Sold(row, n) \in ProductRow
<1>1. row.stock - n \in Int /\ row.sold + n \in Nat
  BY DEF ProductRow
<1>. QED
  BY <1>1 DEF Sold, ProductRow

\* The lesser of two counts is a count.
LEMMA MinOfTwo == ASSUME NEW i \in Nat, NEW j \in Nat PROVE Min({i, j}) \in Nat
<1>1. \E k \in {i, j} : \A y \in {i, j} : k <= y
  OBVIOUS
<1>. QED
  BY <1>1 DEF Min

-----------------------------------------------------------------------------
(* Type correctness                                                        *)

\* addToCart keeps the types.
LEMMA CartType ==
  ASSUME TypeInv, NEW r \in Requests,
         \/ \E u \in Buyers, p \in Products, q \in Quantities : AddRead(r, u, p, q)
         \/ AddWrite(r)
  PROVE  TypeInv'
<1>0. r \in Procs \ Hooks /\ proc[r] \in Local /\ Holds(r, proc[r])
  BY ProcsDisjoint DEF Procs, TypeInv, MarketTypeOK
<1>1. ASSUME NEW u \in Buyers, NEW p \in Products, NEW q \in Quantities, AddRead(r, u, p, q)
      PROVE  TypeInv'
  <2>1. PICK c \in Rows \cup {None} :
          proc' = [proc EXCEPT ![r] = [Idle EXCEPT !.pc = "add_write", !.buyer = u, !.product = p,
             !.row = c, !.qty = IF c = None THEN q ELSE Min({cart[c].qty + q, products[p].stock})]]
    BY <1>1 DEF AddRead, Begin, RowsOf
  <2> DEFINE qty == IF c = None THEN q ELSE Min({cart[c].qty + q, products[p].stock})
             l == [Idle EXCEPT !.pc = "add_write", !.buyer = u, !.product = p, !.row = c, !.qty = qty]
  <2>2. q \in Nat /\ products[p].stock \in Nat
    <3>1. products[p] \in ProductRow
      BY DEF TypeInv, MarketTypeOK
    <3>2. q \in Nat /\ products[p].stock \in Int
      BY <3>1, QuantitiesArePositive DEF ProductRow
    <3>3. products[p].stock > 0
      BY <1>1, Zenon DEF AddRead
    <3>. QED  BY <3>2, <3>3
  <2>3. c # None => cart[c].qty + q \in Nat
    BY <2>2 DEF TypeInv, MarketTypeOK, CartRow
  <2>4. qty \in Nat
    BY <2>2, <2>3, MinOfTwo
  <2>5. l \in Local
    <3>. HIDE DEF qty
    <3>. QED  BY <2>4, IdleType DEF Local
  <2>6. Holds(r, l)
    BY <1>0, NoneIsNoKey DEF Idle, Holds, ConfirmPC, OrderPC
  <2>7. proc' = [proc EXCEPT ![r] = l]
    BY <2>1
  <2>. HIDE DEF l
  <2>. QED  BY <1>0, <1>1, <2>5, <2>6, <2>7, ProcType DEF AddRead, TypeInv, MarketTypeOK
<1>2. CASE AddWrite(r)
  <2>1. cart' \in [Rows -> CartRow] /\ \A c \in Rows : cart'[c].buyer # None => cart'[c].product # None
    <3>1. proc[r].buyer \in Buyers /\ proc[r].product \in Products /\ proc[r].qty \in Nat
      BY <1>0, <1>2 DEF AddWrite, At, Holds, Local
    <3>2. CASE \E c \in Rows : cart' = [cart EXCEPT ![c] = [buyer |-> proc[r].buyer,
                                          product |-> proc[r].product, qty |-> proc[r].qty]]
      BY <3>1, <3>2, NoneIsNoKey DEF CartRow, TypeInv, MarketTypeOK
    <3>3. CASE cart' = [cart EXCEPT ![proc[r].row].qty = proc[r].qty]
      BY <3>1, <3>3 DEF CartRow, TypeInv, MarketTypeOK
    <3>4. CASE cart' = cart
      BY <3>4 DEF TypeInv, MarketTypeOK
    <3>. QED  BY <1>2, <3>2, <3>3, <3>4 DEF AddWrite
  <2>. QED  BY <1>0, <1>2, <2>1, ReturnType DEF AddWrite, TypeInv, MarketTypeOK
<1>. QED
  BY <1>1, <1>2

\* So does removeFromCart.
LEMMA RemoveType ==
  ASSUME TypeInv, NEW u \in Buyers, NEW p \in Products, RemoveFromCart(u, p)
  PROVE  TypeInv'
<1>1. NoRow \in CartRow /\ NoRow.buyer = None
  BY DEF NoRow, CartRow
<1>. QED
  BY <1>1 DEF RemoveFromCart, TypeInv, MarketTypeOK

\* checkout keeps the types.
LEMMA CheckoutType ==
  ASSUME TypeInv, NEW r \in Requests,
         (\E u \in Buyers : OrderRead(r, u)) \/ OrderCreate(r) \/ OrderPay(r) \/ OrderClear(r) \/ RequestStops(r)
  PROVE  TypeInv'
<1>0. r \in Procs \ Hooks /\ proc[r] \in Local /\ Holds(r, proc[r])
  BY ProcsDisjoint DEF Procs, TypeInv, MarketTypeOK
<1>1. ASSUME NEW u \in Buyers, OrderRead(r, u) PROVE TypeInv'
  <2> DEFINE items == {[row |-> c, product |-> cart[c].product, qty |-> cart[c].qty] : c \in RowsOf(u)}
             l == [Idle EXCEPT !.pc = "order_create", !.buyer = u, !.items = items]
  <2>1. items \subseteq Item
    BY NoneIsNoKey DEF RowsOf, TypeInv, MarketTypeOK, CartRow, Item
  <2>2. l \in Local
    <3>. HIDE DEF items
    <3>. QED  BY <2>1, IdleType DEF Local
  <2>3. Holds(r, l)
    BY <1>0 DEF Idle, Holds, ConfirmPC, OrderPC
  <2>4. proc' = [proc EXCEPT ![r] = l]
    BY <1>1 DEF OrderRead, Begin
  <2>. HIDE DEF l
  <2>. QED  BY <1>0, <1>1, <2>2, <2>3, <2>4, ProcType DEF OrderRead, TypeInv, MarketTypeOK
<1>2. CASE OrderCreate(r)
  <2>1. PICK o \in Orders :
          /\ orders' = [orders EXCEPT ![o] = [NoOrder EXCEPT !.status = "PENDING",
                 !.buyer = proc[r].buyer, !.items = proc[r].items, !.tx = "pending"]]
          /\ proc' = [proc EXCEPT ![r] = [@ EXCEPT !.pc = "order_pay", !.o = o, !.items = {}]]
    BY <1>2 DEF OrderCreate
  <2>2. orders' \in [Orders -> OrderRow]
    BY <1>0, <2>1 DEF NoOrder, OrderRow, OrderStatus, Local, TypeInv, MarketTypeOK
  <2>3. [proc[r] EXCEPT !.pc = "order_pay", !.o = o, !.items = {}] \in Local
    BY <1>0 DEF Local
  <2>4. Holds(r, [proc[r] EXCEPT !.pc = "order_pay", !.o = o, !.items = {}])
    BY <1>0 DEF Local, Holds, ConfirmPC, OrderPC
  <2>. QED  BY <1>0, <1>2, <2>1, <2>2, <2>3, <2>4, ProcType DEF OrderCreate, TypeInv, MarketTypeOK
<1>3. CASE OrderPay(r)
  <2>1. orders' \in [Orders -> OrderRow]
    BY <1>3, OrderType DEF OrderPay, OrderRow
  <2>2. proc' \in [Procs -> Local] /\ \A y \in Procs : Holds(y, proc'[y])
    BY <1>0, <1>3, GotoType DEF OrderPay, At, OrderPC
  <2>. QED  BY <1>3, <2>1, <2>2 DEF OrderPay, TypeInv, MarketTypeOK
<1>4. CASE OrderClear(r)
  <2>1. orders' \in [Orders -> OrderRow]
    BY <1>4, OrderType DEF OrderClear, OrderRow
  <2>2. NoRow \in CartRow /\ NoRow.buyer = None
    BY DEF NoRow, CartRow
  <2>3. cart' \in [Rows -> CartRow] /\ \A c \in Rows : cart'[c].buyer # None => cart'[c].product # None
    BY <1>4, <2>2 DEF OrderClear, TypeInv, MarketTypeOK
  <2>. QED  BY <1>0, <1>4, <2>1, <2>3, ReturnType DEF OrderClear, TypeInv, MarketTypeOK
<1>5. CASE RequestStops(r)
  BY <1>0, <1>5, ReturnType DEF RequestStops, TypeInv, MarketTypeOK
<1>. QED
  BY <1>1, <1>2, <1>3, <1>4, <1>5

\* The webhook keeps the types.
LEMMA HookType ==
  ASSUME TypeInv, NEW h \in Hooks,
         \/ \E o \in Orders : HookFailed(h, o) \/ HookSucceeded(h, o)
         \/ HookContinue(h) \/ HookStops(h)
  PROVE  TypeInv'
<1>0. h \in Procs /\ proc[h] \in Local /\ Holds(h, proc[h])
  BY DEF Procs, TypeInv, MarketTypeOK
<1>1. ASSUME NEW o \in Orders, HookFailed(h, o) PROVE TypeInv'
  BY <1>1 DEF HookFailed, Deliver, SetTx, OrderRow, TypeInv, MarketTypeOK
<1>2. ASSUME NEW o \in Orders, HookSucceeded(h, o) PROVE TypeInv'
  <2>1. [Idle EXCEPT !.pc = "confirm_read", !.o = o] \in Local
    BY IdleType DEF Local
  <2>2. Holds(h, [Idle EXCEPT !.pc = "confirm_read", !.o = o])
    BY DEF Idle, Holds, ConfirmPC, OrderPC
  <2>3. orders' \in [Orders -> OrderRow]
    BY <1>2, OrderType DEF HookSucceeded, SetTx, OrderRow
  <2>. QED
    BY <1>0, <1>2, <2>1, <2>2, <2>3, ProcType DEF HookSucceeded, Deliver, Begin, TypeInv, MarketTypeOK
<1>3. CASE ConfirmRead(h)
  <2>1. CASE Return(h)
    BY <1>0, <1>3, <2>1, ReturnType DEF ConfirmRead, TypeInv, MarketTypeOK
  <2>2. CASE ~Return(h)
    <3> DEFINE l == [proc[h] EXCEPT !.pc = "confirm_item", !.items = orders[proc[h].o].items,
                                    !.seen = StockNow]
    <3>1. proc' = [proc EXCEPT ![h] = l]
      BY <1>3, <2>2 DEF ConfirmRead
    <3>2. proc[h].o \in Orders
      BY <1>0, <1>3 DEF ConfirmRead, At, Holds, ConfirmPC
    <3>3. StockNow \in [Products -> Int] /\ orders[proc[h].o].items \subseteq Item
      BY <3>2 DEF StockNow, ProductRow, OrderRow, TypeInv, MarketTypeOK
    <3>4. l \in Local
      BY <1>0, <3>3 DEF Local
    <3>5. Holds(h, l)
      BY <1>0, <3>2 DEF Local, Holds, ConfirmPC, OrderPC
    <3>. HIDE DEF l
    <3>. QED  BY <1>0, <1>3, <3>1, <3>4, <3>5, ProcType DEF ConfirmRead, TypeInv, MarketTypeOK
  <2>. QED  BY <2>1, <2>2
<1>4. CASE ConfirmItem(h)
  <2>1. PICK i \in proc[h].items :
          /\ proc' = [proc EXCEPT ![h].items = @ \ {i}]
          /\ products' = products \/ Sell(i)
    BY <1>4 DEF ConfirmItem
  <2>2. i \in Item
    BY <1>0 DEF Local
  <2>3. products' \in [Products -> ProductRow]
    <3>1. i.qty \in Nat /\ products[i.product] \in ProductRow
      BY <2>2 DEF Item, TypeInv, MarketTypeOK
    <3>2. Sold(products[i.product], i.qty) \in ProductRow
      BY <3>1, SoldType
    <3>. QED  BY <2>1, <3>2 DEF Sell, TypeInv, MarketTypeOK
  <2>4. [proc[h] EXCEPT !.items = @ \ {i}] \in Local
    BY <1>0 DEF Local
  <2>5. Holds(h, [proc[h] EXCEPT !.items = @ \ {i}])
    BY <1>0 DEF Local, Holds
  <2>. QED  BY <1>0, <1>4, <2>1, <2>3, <2>4, <2>5, ProcType DEF ConfirmItem, TypeInv, MarketTypeOK
<1>5. CASE ConfirmWrite(h)
  <2>1. orders' \in [Orders -> OrderRow]
    BY <1>5, OrderType DEF ConfirmWrite, OrderRow, OrderStatus
  <2>2. proc' \in [Procs -> Local] /\ \A y \in Procs : Holds(y, proc'[y])
    BY <1>0, <1>5, GotoType DEF ConfirmWrite, At, ConfirmPC
  <2>. QED  BY <1>5, <2>1, <2>2 DEF ConfirmWrite, TypeInv, MarketTypeOK
<1>6. CASE ConfirmTx(h)
  <2>1. orders' \in [Orders -> OrderRow]
    BY <1>6, OrderType DEF ConfirmTx, SetTx, OrderRow
  <2>. QED  BY <1>0, <1>6, <2>1, ReturnType DEF ConfirmTx, TypeInv, MarketTypeOK
<1>7. CASE HookStops(h)
  <2>1. proc[h].o \in Orders
    BY <1>0, <1>7 DEF HookStops, At, Holds
  <2>. QED  BY <1>0, <1>7, <2>1, ReturnType DEF HookStops, TypeInv, MarketTypeOK
<1>. QED
  BY <1>1, <1>2, <1>3, <1>4, <1>5, <1>6, <1>7 DEF HookContinue

\* Paying, and an order's status written by the admin, keep the types.
LEMMA OrdersType ==
  ASSUME TypeInv, NEW o \in Orders,
         Pay(o) \/ CardFails(o) \/ \E status \in StatusEdits : EditOrder(o, status)
  PROVE  TypeInv'
<1>1. CASE Pay(o) \/ CardFails(o)
  BY <1>1 DEF Pay, CardFails, OrderRow, TypeInv, MarketTypeOK
<1>2. ASSUME NEW status \in StatusEdits, EditOrder(o, status) PROVE TypeInv'
  BY SMTT(30), <1>2, EditsAreStatuses DEF EditOrder, OrderRow, TypeInv, MarketTypeOK
<1>. QED
  BY <1>1, <1>2

\* The admin's writes to a product keep the types.
LEMMA ProductType ==
  ASSUME TypeInv, NEW p \in Products,
         (\E n \in StockEdits : EditStock(p, n)) \/ EditActive(p) \/ RemoveProduct(p)
  PROVE  TypeInv'
<1>0. products[p] \in ProductRow
  BY DEF TypeInv, MarketTypeOK
<1>1. ASSUME NEW n \in StockEdits, EditStock(p, n) PROVE TypeInv'
  BY <1>0, <1>1, StockIsCount DEF EditStock, ProductRow, TypeInv, MarketTypeOK
<1>2. CASE EditActive(p)
  BY <1>0, <1>2 DEF EditActive, ProductRow, TypeInv, MarketTypeOK
<1>3. CASE RemoveProduct(p)
  BY <1>0, <1>3 DEF RemoveProduct, ProductRow, TypeInv, MarketTypeOK
<1>. QED
  BY <1>1, <1>2, <1>3

-----------------------------------------------------------------------------
\* No step breaks the types.
LEMMA TypeStep == ASSUME TypeInv, [Next]_vars PROVE TypeInv'
<1>1. CASE UNCHANGED vars
  BY <1>1 DEF vars, TypeInv, MarketTypeOK
<1>. QED
  BY <1>1, CartType, RemoveType, CheckoutType, HookType, OrdersType, ProductType
  DEF Next, Continue

\* The empty shop has them.
LEMMA TypeInit == ASSUME Init PROVE TypeInv
<1>1. NoRow \in CartRow /\ NoRow.buyer = None /\ NoOrder \in OrderRow
  BY DEF NoRow, CartRow, NoOrder, OrderRow, OrderStatus
<1>2. [stock |-> Stock, sold |-> 0, active |-> TRUE, deleted |-> FALSE] \in ProductRow
  BY StockIsCount DEF ProductRow
<1>. QED
  BY <1>1, <1>2, IdleType DEF Init, TypeInv, MarketTypeOK

\* The tables, the queue and the handlers keep their types in every behaviour.
THEOREM MarketTypeCorrect == Spec => []MarketTypeOK
<1>1. TypeInv => MarketTypeOK
  BY DEF TypeInv
<1>2. Spec => []TypeInv
  BY TypeInit, TypeStep, PTL DEF Spec
<1>. QED
  BY <1>1, <1>2, PTL

-----------------------------------------------------------------------------
(* Nothing is taken for paid that Stripe was not paid for                  *)

\* A step that gives handler x locals that tell the truth keeps the invariant.
LEMMA StepKeeps ==
  ASSUME TypeInv, PaidInv, NEW x \in Procs, NEW l, proc' = [proc EXCEPT ![x] = l],
         RowsKept(Procs \ {x}),
         \A e \in events' : e \in events \/ Told(e)',
         l.pc \in ConfirmPC => orders'[l.o].intent = "succeeded",
         l.pc = "order_pay" =>
            /\ orders'[l.o].intent = "none" /\ orders'[l.o].status # "ABSENT"
            /\ \A y \in Procs \ {x} : proc[y].pc = "order_pay" => proc[y].o # l.o
  PROVE  PaidInv'
<1>1. proc'[x] = l /\ \A y \in Procs \ {x} : proc'[y] = proc[y]
  BY DEF TypeInv, MarketTypeOK
<1>2. \A o \in Orders : RowTrue(o)'
  BY DEF RowsKept
<1>3. \A e \in events' : Told(e)'
  BY DEF RowsKept, PaidInv, Told, TypeInv, MarketTypeOK
<1>4. \A y \in Procs : Learnt(proc[y])'
  <2>1. ASSUME NEW y \in Procs \ {x} PROVE Learnt(proc[y])'
    <3>1. proc[y].pc \in ConfirmPC => proc[y].o \in Orders
      BY DEF TypeInv, Holds
    <3>2. Learnt(proc[y])
      BY DEF PaidInv
    <3>. QED  BY <1>1, <3>1, <3>2 DEF RowsKept, Learnt, Fresh
  <2>2. Learnt(proc[x])'
    BY <1>1 DEF Learnt, Fresh
  <2>. QED  BY <2>1, <2>2
<1>5. (\A y, z \in Procs :
         y # z /\ proc[y].pc = "order_pay" /\ proc[z].pc = "order_pay" => proc[y].o # proc[z].o)'
  BY <1>1 DEF PaidInv
<1>. QED
  BY <1>2, <1>3, <1>4, <1>5 DEF PaidInv

\* So does a step that leaves the handlers alone.
LEMMA FrameKeeps ==
  ASSUME TypeInv, PaidInv, proc' = proc, RowsKept(Procs),
         \A e \in events' : e \in events \/ Told(e)'
  PROVE  PaidInv'
<1>1. \A e \in events' : Told(e)'
  BY DEF RowsKept, PaidInv, Told, TypeInv, MarketTypeOK
<1>2. ASSUME NEW y \in Procs PROVE Learnt(proc[y])'
  <2>1. proc[y].pc \in ConfirmPC => proc[y].o \in Orders
    BY DEF TypeInv, Holds
  <2>2. Learnt(proc[y])
    BY DEF PaidInv
  <2>. QED  BY <2>1, <2>2 DEF RowsKept, Learnt, Fresh
<1>. QED
  BY <1>1, <1>2 DEF RowsKept, PaidInv

\* A step that writes no order keeps the rows.
LEMMA SameRows ==
  ASSUME TypeInv, PaidInv, orders' = orders, hist.edited \subseteq hist'.edited
  PROVE  RowsKept(Procs)
  BY DEF PaidInv, RowTrue, RowsKept, Learnt, Fresh

\* A step that changes one row, keeping a paid intent, keeps the rows when the new
\* row is true and no one but x is creating a payment for it.
LEMMA OneRow ==
  ASSUME TypeInv, PaidInv, NEW S \in SUBSET Procs, NEW o \in Orders, NEW row,
         orders' = [orders EXCEPT ![o] = row], hist.edited \subseteq hist'.edited, RowTrue(o)',
         orders[o].intent = "succeeded" => row.intent = "succeeded",
         \A y \in S : proc[y].pc = "order_pay" /\ proc[y].o = o
                        => row.intent = "none" /\ row.status # "ABSENT"
  PROVE  RowsKept(S)
<1>1. orders'[o] = row /\ \A k \in Orders \ {o} : orders'[k] = orders[k]
  BY DEF TypeInv, MarketTypeOK
<1>2. \A k \in Orders : RowTrue(k)'
  BY <1>1 DEF PaidInv, RowTrue
<1>3. \A k \in Orders : orders[k].intent = "succeeded" => orders'[k].intent = "succeeded"
  BY <1>1
<1>4. ASSUME NEW y \in S, proc[y].pc = "order_pay"
      PROVE  orders'[proc[y].o].intent = "none" /\ orders'[proc[y].o].status # "ABSENT"
  <2>1. proc[y].o \in Orders /\ Fresh(proc[y].o)
    BY <1>4 DEF TypeInv, Holds, OrderPC, PaidInv, Learnt
  <2>. QED  BY <1>1, <1>4, <2>1 DEF Fresh
<1>. QED
  BY <1>2, <1>3, <1>4 DEF RowsKept

-----------------------------------------------------------------------------
\* addToCart says nothing about money.
LEMMA CartPaid ==
  ASSUME TypeInv, PaidInv, NEW r \in Requests,
         \/ \E u \in Buyers, p \in Products, q \in Quantities : AddRead(r, u, p, q)
         \/ AddWrite(r)
  PROVE  PaidInv'
<1>0. r \in Procs
  BY DEF Procs
<1>1. ASSUME NEW u \in Buyers, NEW p \in Products, NEW q \in Quantities, AddRead(r, u, p, q)
      PROVE  PaidInv'
  <2>1. orders' = orders /\ events' = events /\ hist' = hist
    BY <1>1 DEF AddRead
  <2>2. PICK c : proc' = [proc EXCEPT ![r] = [Idle EXCEPT !.pc = "add_write", !.buyer = u,
           !.product = p, !.row = c,
           !.qty = IF c = None THEN q ELSE Min({cart[c].qty + q, products[p].stock})]]
    BY <1>1 DEF AddRead, Begin
  <2> DEFINE l == [Idle EXCEPT !.pc = "add_write", !.buyer = u, !.product = p, !.row = c,
                      !.qty = IF c = None THEN q ELSE Min({cart[c].qty + q, products[p].stock})]
  <2>3. l.pc = "add_write" /\ proc' = [proc EXCEPT ![r] = l]
    BY <2>2 DEF Idle
  <2>4. RowsKept(Procs \ {r})
    BY <2>1, SameRows DEF RowsKept
  <2>. HIDE DEF l
  <2>. QED  BY <1>0, <2>1, <2>3, <2>4, StepKeeps DEF ConfirmPC
<1>2. CASE AddWrite(r)
  <2>1. RowsKept(Procs \ {r})
    BY <1>2, SameRows DEF AddWrite, RowsKept
  <2>. QED  BY <1>0, <1>2, <2>1, StepKeeps DEF AddWrite, Return, Idle, ConfirmPC
<1>. QED
  BY <1>1, <1>2

\* checkout creates orders that are not paid.
LEMMA CheckoutPaid ==
  ASSUME TypeInv, PaidInv, NEW r \in Requests,
         (\E u \in Buyers : OrderRead(r, u)) \/ OrderCreate(r) \/ OrderPay(r) \/ OrderClear(r)
         \/ RequestStops(r)
  PROVE  PaidInv'
<1>0. r \in Procs /\ proc[r] \in Local /\ Holds(r, proc[r]) /\ Learnt(proc[r])
  BY DEF Procs, TypeInv, MarketTypeOK, PaidInv
<1>1. ASSUME NEW u \in Buyers, OrderRead(r, u) PROVE PaidInv'
  <2>1. orders' = orders /\ events' = events /\ hist' = hist
    BY <1>1 DEF OrderRead
  <2> DEFINE l == [Idle EXCEPT !.pc = "order_create", !.buyer = u,
                      !.items = {[row |-> c, product |-> cart[c].product, qty |-> cart[c].qty]
                                    : c \in RowsOf(u)}]
  <2>2. l.pc = "order_create" /\ proc' = [proc EXCEPT ![r] = l]
    BY <1>1 DEF OrderRead, Begin, Idle
  <2>3. RowsKept(Procs \ {r})
    BY <2>1, SameRows DEF RowsKept
  <2>. HIDE DEF l
  <2>. QED  BY <1>0, <2>1, <2>2, <2>3, StepKeeps DEF ConfirmPC
<1>2. CASE OrderCreate(r)
  <2> DEFINE row == [NoOrder EXCEPT !.status = "PENDING", !.buyer = proc[r].buyer,
                        !.items = proc[r].items, !.tx = "pending"]
  <2>1. PICK o \in Orders :
          /\ orders[o].status = "ABSENT"
          /\ orders' = [orders EXCEPT ![o] = row]
          /\ proc' = [proc EXCEPT ![r] = [@ EXCEPT !.pc = "order_pay", !.o = o, !.items = {}]]
    BY <1>2 DEF OrderCreate
  <2>2. row.status = "PENDING" /\ row.tx = "pending" /\ row.intent = "none"
    BY DEF NoOrder
  <2>3. orders[o].intent = "none" /\ orders'[o] = row
    BY <2>1 DEF PaidInv, RowTrue, TypeInv, MarketTypeOK
  <2>4. hist' = hist /\ events' = events
    BY <1>2 DEF OrderCreate
  <2>. HIDE DEF row
  <2>5. RowTrue(o)'
    BY <2>2, <2>3 DEF RowTrue
  <2>6. RowsKept(Procs \ {r})
    BY <2>1, <2>2, <2>3, <2>4, <2>5, OneRow
  <2>7. \A y \in Procs : proc[y].pc = "order_pay" => proc[y].o # o
    BY <2>1 DEF PaidInv, Learnt, Fresh
  <2>8. proc' = [proc EXCEPT ![r] = [proc[r] EXCEPT !.pc = "order_pay", !.o = o, !.items = {}]]
    BY <2>1
  <2> DEFINE l == [proc[r] EXCEPT !.pc = "order_pay", !.o = o, !.items = {}]
  <2>9. l.pc = "order_pay" /\ l.o = o
    BY <1>0 DEF Local
  <2>. HIDE DEF l
  <2>. QED  BY <1>0, <2>2, <2>3, <2>4, <2>6, <2>7, <2>8, <2>9, StepKeeps DEF ConfirmPC, l
<1>3. CASE OrderPay(r)
  <2>1. PICK o \in Orders : o = proc[r].o /\ proc[r].pc = "order_pay" /\ Fresh(o)
    BY <1>0, <1>3 DEF OrderPay, At, Holds, OrderPC, Learnt
  <2> DEFINE row == [orders[o] EXCEPT !.intent = "open"]
  <2>2. orders[o] \in OrderRow /\ orders' = [orders EXCEPT ![o] = row] /\ orders'[o] = row
    BY <1>3, <2>1 DEF OrderPay, TypeInv, MarketTypeOK
  <2>3. row.intent = "open" /\ row.tx = orders[o].tx /\ row.status = orders[o].status
    BY <2>2 DEF OrderRow
  <2>4. hist' = hist /\ events' = events
    BY <1>3 DEF OrderPay
  <2>5. \A y \in Procs \ {r} : proc[y].pc = "order_pay" => proc[y].o # o
    BY <1>0, <2>1 DEF PaidInv
  <2>6. orders[o].intent = "none" /\ orders[o].status # "ABSENT" /\ RowTrue(o)
    BY <2>1 DEF Fresh, PaidInv
  <2>. HIDE DEF row
  <2>7. RowTrue(o)'
    BY <2>2, <2>3, <2>4, <2>6 DEF RowTrue
  <2>8. RowsKept(Procs \ {r})
    BY <2>2, <2>4, <2>5, <2>6, <2>7, OneRow
  <2> DEFINE l == [proc[r] EXCEPT !.pc = "order_clear"]
  <2>9. l.pc = "order_clear" /\ proc' = [proc EXCEPT ![r] = l]
    BY <1>0, <1>3 DEF OrderPay, Goto, Local
  <2>. HIDE DEF l
  <2>. QED  BY <1>0, <2>4, <2>8, <2>9, StepKeeps DEF ConfirmPC
<1>4. CASE OrderClear(r)
  <2>1. PICK o \in Orders : o = proc[r].o /\ proc[r].pc = "order_clear"
    BY <1>0, <1>4 DEF OrderClear, At, Holds, OrderPC
  <2> DEFINE row == [orders[o] EXCEPT !.secret = TRUE]
  <2>2. orders[o] \in OrderRow /\ orders' = [orders EXCEPT ![o] = row] /\ orders'[o] = row
    BY <1>4, <2>1 DEF OrderClear, TypeInv, MarketTypeOK
  <2>3. row.intent = orders[o].intent /\ row.tx = orders[o].tx /\ row.status = orders[o].status
    BY <2>2 DEF OrderRow
  <2>4. hist' = hist /\ events' = events
    BY <1>4 DEF OrderClear
  <2>. HIDE DEF row
  <2>5. RowTrue(o)'
    BY <2>2, <2>3, <2>4 DEF RowTrue, PaidInv
  <2>6. \A y \in Procs : proc[y].pc = "order_pay" /\ proc[y].o = o => Fresh(o)
    BY DEF PaidInv, Learnt
  <2>7. RowsKept(Procs \ {r})
    BY <2>2, <2>3, <2>4, <2>5, <2>6, OneRow DEF Fresh
  <2>. QED  BY <1>0, <1>4, <2>4, <2>7, StepKeeps DEF OrderClear, Return, Idle, ConfirmPC
<1>5. CASE RequestStops(r)
  <2>1. RowsKept(Procs \ {r})
    BY <1>5, SameRows DEF RequestStops, RowsKept
  <2>. QED  BY <1>0, <1>5, <2>1, StepKeeps DEF RequestStops, Return, Idle, ConfirmPC
<1>. QED
  BY <1>1, <1>2, <1>3, <1>4, <1>5

\* A step that changes only the status columns of one row, and keeps what they say
\* true, keeps the rows.
LEMMA StatusRow ==
  ASSUME TypeInv, PaidInv, NEW o \in Orders, NEW row,
         orders' = [orders EXCEPT ![o] = row], hist.edited \subseteq hist'.edited,
         row.intent = orders[o].intent, row.status = "ABSENT" <=> orders[o].status = "ABSENT",
         row.tx \in {"succeeded", "captured"} => orders[o].intent = "succeeded",
         row.status \notin {"ABSENT", "PENDING"} /\ o \notin hist'.edited
            => orders[o].intent = "succeeded"
  PROVE  RowsKept(Procs)
<1>1. orders'[o] = row
  BY DEF TypeInv, MarketTypeOK
<1>2. RowTrue(o) /\ \A y \in Procs : proc[y].pc = "order_pay" /\ proc[y].o = o => Fresh(o)
  BY DEF PaidInv, Learnt
<1>3. RowTrue(o)'
  BY <1>1, <1>2 DEF RowTrue
<1>. QED
  BY <1>2, <1>3, OneRow DEF Fresh

\* The webhook believes succeeded events only, and repeats what it has learnt.
LEMMA HookPaid ==
  ASSUME TypeInv, PaidInv, NEW h \in Hooks,
         \/ \E o \in Orders : HookFailed(h, o) \/ HookSucceeded(h, o)
         \/ HookContinue(h) \/ HookStops(h)
  PROVE  PaidInv'
<1>0. h \in Procs /\ proc[h] \in Local /\ Holds(h, proc[h]) /\ Learnt(proc[h])
  BY DEF Procs, TypeInv, MarketTypeOK, PaidInv
<1>1. ASSUME NEW o \in Orders, HookFailed(h, o) PROVE PaidInv'
  <2> DEFINE row == [orders[o] EXCEPT !.tx = "failed"]
  <2>1. orders[o] \in OrderRow /\ orders' = [orders EXCEPT ![o] = row]
    BY <1>1 DEF HookFailed, SetTx, TypeInv, MarketTypeOK
  <2>2. row.tx = "failed" /\ row.intent = orders[o].intent /\ row.status = orders[o].status
    BY <2>1 DEF OrderRow
  <2>3. proc' = proc /\ hist' = hist /\ events' \subseteq events
    BY <1>1 DEF HookFailed, Deliver
  <2>. HIDE DEF row
  <2>4. RowsKept(Procs)
    BY <2>1, <2>2, <2>3, StatusRow DEF PaidInv, RowTrue
  <2>. QED  BY <2>3, <2>4, FrameKeeps
<1>2. ASSUME NEW o \in Orders, HookSucceeded(h, o) PROVE PaidInv'
  <2> DEFINE row == [orders[o] EXCEPT !.tx = "succeeded"]
             l == [Idle EXCEPT !.pc = "confirm_read", !.o = o]
  <2>1. orders[o] \in OrderRow /\ orders' = [orders EXCEPT ![o] = row] /\ orders'[o] = row
    BY <1>2 DEF HookSucceeded, SetTx, TypeInv, MarketTypeOK
  <2>2. row.tx = "succeeded" /\ row.intent = orders[o].intent /\ row.status = orders[o].status
    BY <2>1 DEF OrderRow
  <2>3. hist' = hist /\ events' \subseteq events /\ proc' = [proc EXCEPT ![h] = l]
    BY <1>2 DEF HookSucceeded, Deliver, Begin
  <2>4. [kind |-> "succeeded", o |-> o] \in events
    BY <1>2 DEF HookSucceeded, Deliver
  <2>5. orders[o].intent = "succeeded"
    BY <2>4 DEF PaidInv, Told
  <2>6. l.pc = "confirm_read" /\ l.o = o
    BY DEF Idle
  <2>. HIDE DEF row, l
  <2>7. RowsKept(Procs \ {h})
    BY <2>1, <2>2, <2>3, <2>5, StatusRow DEF PaidInv, RowTrue, RowsKept
  <2>. QED  BY <1>0, <2>1, <2>2, <2>3, <2>5, <2>6, <2>7, StepKeeps
<1>3. CASE ConfirmRead(h)
  <2>1. RowsKept(Procs \ {h}) /\ events' = events /\ orders' = orders
    BY <1>3, SameRows DEF ConfirmRead, RowsKept
  <2>2. CASE Return(h)
    BY <1>0, <2>1, <2>2, StepKeeps DEF Return, Idle, ConfirmPC
  <2>3. CASE ~Return(h)
    <3> DEFINE l == [proc[h] EXCEPT !.pc = "confirm_item", !.items = orders[proc[h].o].items,
                                    !.seen = StockNow]
    <3>1. proc' = [proc EXCEPT ![h] = l] /\ proc[h].pc = "confirm_read"
      BY <1>3, <2>3 DEF ConfirmRead, At
    <3>2. l.pc = "confirm_item" /\ l.o = proc[h].o
      BY <1>0 DEF Local
    <3>. HIDE DEF l
    <3>. QED  BY <1>0, <2>1, <3>1, <3>2, StepKeeps DEF Learnt, ConfirmPC
  <2>. QED  BY <2>2, <2>3
<1>4. CASE ConfirmItem(h)
  <2>1. RowsKept(Procs \ {h}) /\ events' = events /\ orders' = orders
    BY <1>4, SameRows DEF ConfirmItem, RowsKept
  <2>2. PICK i : proc' = [proc EXCEPT ![h] = [proc[h] EXCEPT !.items = proc[h].items \ {i}]]
    BY <1>0, <1>4 DEF ConfirmItem
  <2> DEFINE l == [proc[h] EXCEPT !.items = proc[h].items \ {i}]
  <2>3. l.pc = "confirm_item" /\ proc[h].pc = "confirm_item" /\ l.o = proc[h].o
    BY <1>0, <1>4 DEF ConfirmItem, At, Local
  <2>4. proc' = [proc EXCEPT ![h] = l]
    BY <2>2
  <2>. HIDE DEF l
  <2>. QED  BY <1>0, <2>1, <2>3, <2>4, StepKeeps DEF Learnt, ConfirmPC
<1>5. CASE ConfirmWrite(h)
  <2>1. PICK o \in Orders : o = proc[h].o /\ orders[o].intent = "succeeded"
    BY <1>0, <1>5 DEF ConfirmWrite, At, Holds, Learnt, ConfirmPC
  <2> DEFINE row == [orders[o] EXCEPT !.status = "CONFIRMED"]
             l == [proc[h] EXCEPT !.pc = "confirm_tx"]
  <2>2. orders[o] \in OrderRow /\ orders' = [orders EXCEPT ![o] = row] /\ orders'[o] = row
    BY <1>5, <2>1 DEF ConfirmWrite, TypeInv, MarketTypeOK
  <2>3. row.tx = orders[o].tx /\ row.intent = orders[o].intent /\ row.status = "CONFIRMED"
    BY <2>2 DEF OrderRow
  <2>4. hist' = hist /\ events' = events /\ proc' = [proc EXCEPT ![h] = l]
    BY <1>5 DEF ConfirmWrite, Goto
  <2>5. l.pc = "confirm_tx" /\ l.o = o
    BY <1>0, <2>1 DEF Local
  <2>6. orders[o].status # "ABSENT"
    BY <2>1 DEF PaidInv, RowTrue
  <2>. HIDE DEF row, l
  <2>7. RowsKept(Procs \ {h})
    BY <2>1, <2>2, <2>3, <2>4, <2>6, StatusRow DEF RowsKept
  <2>. QED  BY <1>0, <2>1, <2>2, <2>3, <2>4, <2>5, <2>7, StepKeeps
<1>6. CASE ConfirmTx(h)
  <2>1. PICK o \in Orders : o = proc[h].o /\ orders[o].intent = "succeeded"
    BY <1>0, <1>6 DEF ConfirmTx, At, Holds, Learnt, ConfirmPC
  <2> DEFINE row == [orders[o] EXCEPT !.tx = "captured"]
  <2>2. orders[o] \in OrderRow /\ orders' = [orders EXCEPT ![o] = row]
    BY <1>6, <2>1 DEF ConfirmTx, SetTx, TypeInv, MarketTypeOK
  <2>3. row.tx = "captured" /\ row.intent = orders[o].intent /\ row.status = orders[o].status
    BY <2>2 DEF OrderRow
  <2>4. hist' = hist /\ events' = events
    BY <1>6 DEF ConfirmTx
  <2>. HIDE DEF row
  <2>5. RowsKept(Procs \ {h})
    BY <2>1, <2>2, <2>3, <2>4, StatusRow DEF RowsKept
  <2>. QED  BY <1>0, <1>6, <2>4, <2>5, StepKeeps DEF ConfirmTx, Return, Idle, ConfirmPC
<1>7. CASE HookStops(h)
  <2>1. proc[h].pc \in ConfirmPC /\ orders[proc[h].o].intent = "succeeded"
    BY <1>0, <1>7 DEF HookStops, At, Holds, Learnt
  <2>2. orders' = orders /\ Return(h) /\ hist'.edited = hist.edited
    BY <1>7 DEF HookStops, TypeInv, MarketTypeOK
  <2>3. RowsKept(Procs \ {h})
    BY <2>2, SameRows DEF RowsKept
  <2>4. ASSUME NEW e \in events' PROVE e \in events \/ Told(e)'
    BY <1>7, <2>1, <2>2 DEF HookStops, Told
  <2>. QED  BY <1>0, <2>2, <2>3, <2>4, StepKeeps DEF Return, Idle, ConfirmPC
<1>. QED
  BY <1>1, <1>2, <1>3, <1>4, <1>5, <1>6, <1>7 DEF HookContinue

\* Stripe queues succeeded for an order that was paid; the admin's writes are known.
LEMMA OthersPaid ==
  ASSUME TypeInv, PaidInv,
         \/ \E u \in Buyers, p \in Products : RemoveFromCart(u, p)
         \/ \E o \in Orders : Pay(o) \/ CardFails(o)
         \/ \E o \in Orders, status \in StatusEdits : EditOrder(o, status)
         \/ \E p \in Products : (\E n \in StockEdits : EditStock(p, n)) \/ EditActive(p)
                                \/ RemoveProduct(p)
         \/ UNCHANGED vars
  PROVE  PaidInv'
<1>1. ASSUME NEW o \in Orders, Pay(o) PROVE PaidInv'
  <2> DEFINE row == [orders[o] EXCEPT !.intent = "succeeded"]
  <2>1. orders[o] \in OrderRow /\ orders' = [orders EXCEPT ![o] = row] /\ orders'[o] = row
    BY <1>1 DEF Pay, TypeInv, MarketTypeOK
  <2>2. row.tx = orders[o].tx /\ row.intent = "succeeded" /\ row.status = orders[o].status
    BY <2>1 DEF OrderRow
  <2>3. proc' = proc /\ hist' = hist /\ orders[o].intent = "open"
    BY <1>1 DEF Pay
  <2>4. \A y \in Procs : proc[y].pc = "order_pay" => proc[y].o # o
    BY <2>3 DEF PaidInv, Learnt, Fresh
  <2>5. orders[o].status # "ABSENT"
    BY <2>3 DEF PaidInv, RowTrue
  <2>. HIDE DEF row
  <2>6. RowTrue(o)'
    BY <2>1, <2>2, <2>5 DEF RowTrue
  <2>7. RowsKept(Procs)
    BY <2>1, <2>2, <2>3, <2>4, <2>6, OneRow
  <2>8. ASSUME NEW e \in events' PROVE e \in events \/ Told(e)'
    BY <1>1, <2>1, <2>2 DEF Pay, Told
  <2>. QED  BY <2>3, <2>7, <2>8, FrameKeeps
<1>2. ASSUME NEW o \in Orders, CardFails(o) PROVE PaidInv'
  <2>1. proc' = proc /\ hist' = hist /\ orders' = orders
    BY <1>2 DEF CardFails
  <2>2. ASSUME NEW e \in events' PROVE e \in events \/ Told(e)'
    BY <1>2 DEF CardFails, Told
  <2>. QED  BY <2>1, <2>2, SameRows, FrameKeeps
<1>3. ASSUME NEW o \in Orders, NEW status \in StatusEdits, EditOrder(o, status) PROVE PaidInv'
  <2> DEFINE row == [orders[o] EXCEPT !.status = status]
  <2>1. orders[o] \in OrderRow /\ orders' = [orders EXCEPT ![o] = row]
    BY <1>3 DEF EditOrder, TypeInv, MarketTypeOK
  <2>2. row.tx = orders[o].tx /\ row.intent = orders[o].intent /\ row.status = status
    BY <2>1 DEF OrderRow
  <2>3. proc' = proc /\ events' = events /\ orders[o].status # "ABSENT"
    BY <1>3 DEF EditOrder
  <2>4. hist'.edited = hist.edited \cup {o}
    BY <1>3 DEF EditOrder, TypeInv, MarketTypeOK
  <2>5. status # "ABSENT"
    BY EditsAreStatuses DEF OrderStatus
  <2>. HIDE DEF row
  <2>6. RowsKept(Procs)
    BY <2>1, <2>2, <2>3, <2>4, <2>5, StatusRow DEF PaidInv, RowTrue
  <2>. QED  BY <2>3, <2>6, FrameKeeps
<1>4. ASSUME NEW p \in Products,
             (\E n \in StockEdits : EditStock(p, n)) \/ EditActive(p) \/ RemoveProduct(p)
      PROVE  PaidInv'
  <2>1. proc' = proc /\ events' = events /\ orders' = orders /\ hist'.edited = hist.edited
    BY <1>4 DEF EditStock, EditActive, RemoveProduct, TypeInv, MarketTypeOK
  <2>. QED  BY <2>1, SameRows, FrameKeeps
<1>5. ASSUME NEW u \in Buyers, NEW p \in Products, RemoveFromCart(u, p) PROVE PaidInv'
  BY <1>5, SameRows, FrameKeeps DEF RemoveFromCart
<1>6. CASE UNCHANGED vars
  BY <1>6, SameRows, FrameKeeps DEF vars
<1>. QED
  BY <1>1, <1>2, <1>3, <1>4, <1>5, <1>6

\* In the empty shop nothing is paid.
LEMMA PaidInit == ASSUME Init PROVE PaidInv
<1>1. \A o \in Orders : RowTrue(o)
  BY DEF Init, NoOrder, RowTrue
<1>2. \A x \in Procs : proc[x].pc = "idle"
  BY DEF Init, Idle
<1>. QED  BY <1>1, <1>2 DEF Init, PaidInv, Learnt, ConfirmPC

\* Whatever is said of money stays true.
LEMMA PaidStep == ASSUME TypeInv, PaidInv, [Next]_vars PROVE PaidInv'
  BY CartPaid, CheckoutPaid, HookPaid, OthersPaid DEF Next, Continue

\* An order or a transaction says that it is paid only when Stripe was paid.
THEOREM PaidIsTrue == Spec => []ConfirmedIsPaid
<1>1. Init => TypeInv /\ PaidInv
  BY TypeInit, PaidInit
<1>2. TypeInv /\ PaidInv /\ [Next]_vars => (TypeInv /\ PaidInv)'
  BY TypeStep, PaidStep
<1>3. PaidInv => ConfirmedIsPaid
  BY DEF PaidInv, RowTrue, ConfirmedIsPaid
<1>. QED
  BY <1>1, <1>2, <1>3, PTL DEF Spec

-----------------------------------------------------------------------------
(* No more is sold than there is                                           *)

\* One API call, and one delivery of the webhook, at a time.
OneRequest == \A r, s \in Requests : r = s
OneConfirmation == \A h, k \in Hooks : h = k

\* No product is in the list twice.
Plain(S) == \A i, j \in S : i.product = j.product => i = j

ListedOnce == \A o \in Orders : Plain(orders[o].items)

\* What a confirmation has read still stands for every item it has not come to.
Covered(h) ==
    proc[h].pc = "confirm_item" =>
        /\ Plain(proc[h].items)
        /\ \A i \in proc[h].items :
              i.product \in hist.restocked \/ proc[h].seen[i.product] <= products[i.product].stock

StockInv == NeverOversold /\ \A h \in Hooks : Covered(h)

\* A step that takes nothing from a stock, and moves no webhook to its items, keeps
\* the invariant.
LEMMA StockFrame ==
  ASSUME TypeInv, StockInv, hist.restocked \subseteq hist'.restocked,
         \A p \in Products : products'[p].stock = products[p].stock \/ p \in hist'.restocked,
         \A h \in Hooks : proc'[h] = proc[h] \/ proc'[h].pc # "confirm_item"
  PROVE  StockInv'
<1>1. NeverOversold'
  BY DEF StockInv, NeverOversold
<1>2. ASSUME NEW h \in Hooks PROVE Covered(h)'
  <2>1. CASE proc'[h].pc # "confirm_item"
    BY <2>1 DEF Covered
  <2>2. CASE proc'[h] = proc[h]
    <3>1. Covered(h) /\ proc[h].items \subseteq Item
      BY DEF StockInv, TypeInv, MarketTypeOK, Local, Procs
    <3>2. \A i \in proc[h].items : i.product \in Products
      BY <3>1 DEF Item
    <3>. QED  BY <2>2, <3>1, <3>2 DEF Covered, Plain
  <2>. QED  BY <2>1, <2>2
<1>. QED
  BY <1>1, <1>2 DEF StockInv

\* The webhook sells an item only when the stock it read suffices.
LEMMA ItemStock ==
  ASSUME TypeInv, StockInv, OneConfirmation, NEW h \in Hooks, ConfirmItem(h)
  PROVE  StockInv'
<1>0. h \in Procs /\ proc[h] \in Local /\ proc[h].pc = "confirm_item" /\ hist' = hist
  BY DEF Procs, TypeInv, MarketTypeOK, ConfirmItem, At
<1>1. PICK i \in proc[h].items :
        /\ proc' = [proc EXCEPT ![h].items = proc[h].items \ {i}]
        /\ IF proc[h].seen[i.product] < i.qty THEN products' = products ELSE Sell(i)
  BY DEF ConfirmItem
<1>2. i \in Item /\ i.product \in Products /\ i.qty \in Nat /\ proc[h].items \subseteq Item
  BY <1>0 DEF Local, Item
<1>3. proc'[h].pc = "confirm_item" /\ proc'[h].items = proc[h].items \ {i} /\ proc'[h].seen = proc[h].seen
  BY <1>0, <1>1 DEF Local, TypeInv, MarketTypeOK
<1>4. Covered(h)
  BY DEF StockInv
<1>5. \A p \in Products : p # i.product => products'[p] = products[p]
  BY <1>1, <1>2 DEF Sell, TypeInv, MarketTypeOK
<1>6. Covered(h)'
  <2>1. \A j \in proc[h].items \ {i} : j.product \in Products /\ j.product # i.product
    BY <1>0, <1>2, <1>4 DEF Covered, Plain, Item
  <2>. QED  BY <1>0, <1>3, <1>4, <1>5, <2>1 DEF Covered, Plain
<1>7. NeverOversold'
  <2>1. CASE products' = products
    BY <1>0, <2>1 DEF StockInv, NeverOversold
  <2>2. CASE products' # products
    <3>1. products[i.product] \in ProductRow /\ proc[h].seen[i.product] \in Int
      BY <1>0, <1>2 DEF TypeInv, MarketTypeOK, Local
    <3>2. products'[i.product] = Sold(products[i.product], i.qty)
          /\ ~(proc[h].seen[i.product] < i.qty)
      BY <1>1, <1>2, <2>2 DEF Sell, TypeInv, MarketTypeOK
    <3>3. products'[i.product].stock = products[i.product].stock - i.qty
      BY <3>1, <3>2 DEF Sold, ProductRow
    <3>4. i.product \in hist.restocked \/ products[i.product].stock >= i.qty
      BY <1>0, <1>2, <1>4, <3>1, <3>2 DEF Covered, ProductRow
    <3>5. products'[i.product].stock < 0 => i.product \in hist.restocked
      BY <1>2, <3>1, <3>3, <3>4 DEF ProductRow
    <3>. QED  BY <1>0, <1>5, <3>5 DEF StockInv, NeverOversold
  <2>. QED  BY <2>1, <2>2
<1>8. \A k \in Hooks : k = h
  BY DEF OneConfirmation
<1>. QED
  BY <1>6, <1>7, <1>8 DEF StockInv

\* The other awaits of the webhook take nothing.
LEMMA HookStock ==
  ASSUME TypeInv, StockInv, ListedOnce, OneConfirmation, NEW h \in Hooks,
         \/ \E o \in Orders : HookFailed(h, o) \/ HookSucceeded(h, o)
         \/ HookContinue(h) \/ HookStops(h)
  PROVE  StockInv'
<1>0. h \in Procs /\ proc[h] \in Local /\ Holds(h, proc[h])
  BY DEF Procs, TypeInv, MarketTypeOK
<1>1. ASSUME NEW o \in Orders, HookFailed(h, o) PROVE StockInv'
  BY <1>1, StockFrame DEF HookFailed
<1>2. ASSUME NEW o \in Orders, HookSucceeded(h, o) PROVE StockInv'
  <2>1. proc' = [proc EXCEPT ![h] = [Idle EXCEPT !.pc = "confirm_read", !.o = o]]
        /\ products' = products /\ hist' = hist
    BY <1>2 DEF HookSucceeded, Begin
  <2>2. \A k \in Hooks : proc'[k] = proc[k] \/ proc'[k].pc # "confirm_item"
    BY <1>0, <2>1 DEF Idle, TypeInv, MarketTypeOK
  <2>. QED  BY <2>1, <2>2, StockFrame
<1>3. CASE ConfirmRead(h) /\ Return(h)
  BY <1>0, <1>3, StockFrame DEF ConfirmRead, Return, Idle, TypeInv, MarketTypeOK
<1>4. CASE ConfirmRead(h) /\ ~Return(h)
  <2>1. PICK o \in Orders : o = proc[h].o
    BY <1>0, <1>4 DEF ConfirmRead, At, Holds, ConfirmPC
  <2>2. proc' = [proc EXCEPT ![h] = [proc[h] EXCEPT !.pc = "confirm_item",
                   !.items = orders[o].items, !.seen = StockNow]]
        /\ products' = products /\ hist' = hist
    BY <1>4, <2>1 DEF ConfirmRead
  <2>3. proc'[h].items = orders[o].items /\ proc'[h].seen = StockNow
    BY <1>0, <2>2 DEF Local, TypeInv, MarketTypeOK
  <2>4. \A i \in orders[o].items : i.product \in Products
    BY DEF TypeInv, MarketTypeOK, OrderRow, Item
  <2>5. \A p \in Products : StockNow[p] = products[p].stock /\ products[p].stock \in Int
    BY DEF StockNow, TypeInv, MarketTypeOK, ProductRow
  <2>6. Covered(h)'
    BY <2>2, <2>3, <2>4, <2>5 DEF Covered, ListedOnce
  <2>7. \A k \in Hooks : k = h
    BY DEF OneConfirmation
  <2>. QED  BY <2>2, <2>6, <2>7 DEF StockInv, NeverOversold
<1>5. CASE ConfirmItem(h)
  BY <1>5, ItemStock
<1>6. CASE ConfirmWrite(h)
  BY <1>0, <1>6, StockFrame DEF ConfirmWrite, Goto, Local, TypeInv, MarketTypeOK
<1>7. CASE ConfirmTx(h)
  BY <1>0, <1>7, StockFrame DEF ConfirmTx, Return, Idle, TypeInv, MarketTypeOK
<1>8. CASE HookStops(h)
  BY <1>0, <1>8, StockFrame DEF HookStops, Return, Idle, TypeInv, MarketTypeOK
<1>. QED
  BY <1>1, <1>2, <1>3, <1>4, <1>5, <1>6, <1>7, <1>8 DEF HookContinue

\* API calls and payments take nothing either, and the admin's writes are known.
LEMMA OthersStock ==
  ASSUME TypeInv, StockInv,
         \/ \E r \in Requests :
              \/ \E u \in Buyers, p \in Products, q \in Quantities : AddRead(r, u, p, q)
              \/ \E u \in Buyers : OrderRead(r, u)
              \/ Continue(r) \/ RequestStops(r)
         \/ \E u \in Buyers, p \in Products : RemoveFromCart(u, p)
         \/ \E o \in Orders : Pay(o) \/ CardFails(o)
         \/ \E o \in Orders, status \in StatusEdits : EditOrder(o, status)
         \/ \E p \in Products : (\E n \in StockEdits : EditStock(p, n)) \/ EditActive(p)
                                \/ RemoveProduct(p)
         \/ UNCHANGED vars
  PROVE  StockInv'
<1>1. ASSUME NEW r \in Requests,
             \/ \E u \in Buyers, p \in Products, q \in Quantities : AddRead(r, u, p, q)
             \/ \E u \in Buyers : OrderRead(r, u)
             \/ Continue(r) \/ RequestStops(r)
      PROVE  StockInv'
  <2>1. products' = products /\ hist' = hist
    BY <1>1 DEF AddRead, AddWrite, OrderRead, OrderCreate, OrderPay, OrderClear, RequestStops, Continue
  <2>2. \E l : proc' = [proc EXCEPT ![r] = l]
    BY <1>1, Zenon DEF AddRead, AddWrite, OrderRead, OrderCreate, OrderPay, OrderClear, RequestStops,
                Continue, Begin, Goto, Return
  <2>3. \A h \in Hooks : proc'[h] = proc[h]
    BY <2>2, ProcsDisjoint DEF TypeInv, MarketTypeOK, Procs
  <2>. QED  BY <2>1, <2>3, StockFrame
<1>2. ASSUME NEW o \in Orders, Pay(o) \/ CardFails(o) PROVE StockInv'
  BY <1>2, StockFrame DEF Pay, CardFails
<1>3. ASSUME NEW o \in Orders, NEW status \in StatusEdits, EditOrder(o, status) PROVE StockInv'
  <2>1. hist'.restocked = hist.restocked
    BY <1>3 DEF EditOrder, TypeInv, MarketTypeOK
  <2>. QED  BY <1>3, <2>1, StockFrame DEF EditOrder
<1>4. ASSUME NEW p \in Products, NEW n \in StockEdits, EditStock(p, n) PROVE StockInv'
  <2>1. hist'.restocked = hist.restocked \cup {p} /\ proc' = proc
    BY <1>4 DEF EditStock, TypeInv, MarketTypeOK
  <2>2. \A k \in Products : k # p => products'[k] = products[k]
    BY <1>4 DEF EditStock, TypeInv, MarketTypeOK
  <2>. QED  BY <2>1, <2>2, StockFrame
<1>5. ASSUME NEW p \in Products, EditActive(p) \/ RemoveProduct(p) PROVE StockInv'
  <2>1. products[p] \in ProductRow /\ proc' = proc /\ hist' = hist
    BY <1>5 DEF EditActive, RemoveProduct, TypeInv, MarketTypeOK
  <2>2. products' = [products EXCEPT ![p].active = ~@] \/ products' = [products EXCEPT ![p].deleted = TRUE]
    BY <1>5 DEF EditActive, RemoveProduct
  <2>3. \A k \in Products : products'[k].stock = products[k].stock
    BY <2>1, <2>2 DEF ProductRow, TypeInv, MarketTypeOK
  <2>. QED  BY <2>1, <2>3, StockFrame
<1>6. ASSUME NEW u \in Buyers, NEW p \in Products, RemoveFromCart(u, p) PROVE StockInv'
  BY <1>6, StockFrame DEF RemoveFromCart
<1>7. CASE UNCHANGED vars
  BY <1>7, StockFrame DEF vars
<1>. QED
  BY <1>1, <1>2, <1>3, <1>4, <1>5, <1>6, <1>7

\* As long as no order names a product twice, confirmations that come one at a time
\* never take more of it than there is.
THEOREM SoldWhatThereIs == ASSUME OneConfirmation PROVE Spec /\ []ListedOnce => []NeverOversold
<1>1. Init => TypeInv /\ StockInv
  <2>. SUFFICES ASSUME Init PROVE TypeInv /\ StockInv
    OBVIOUS
  <2>1. \A x \in Hooks : proc[x].pc = "idle"
    BY DEF Init, Idle, Procs
  <2>2. NeverOversold
    BY StockIsCount DEF Init, NeverOversold
  <2>. QED  BY <2>1, <2>2, TypeInit DEF StockInv, Covered
<1>2. TypeInv /\ StockInv /\ ListedOnce /\ [Next]_vars => (TypeInv /\ StockInv)'
  <2>. SUFFICES ASSUME TypeInv, StockInv, ListedOnce, [Next]_vars PROVE (TypeInv /\ StockInv)'
    OBVIOUS
  <2>. QED  BY TypeStep, HookStock, OthersStock DEF Next
<1>3. TypeInv /\ StockInv => NeverOversold
  BY DEF StockInv
<1>. QED
  BY <1>1, <1>2, <1>3, PTL DEF Spec

-----------------------------------------------------------------------------
(* One row per product in a cart                                           *)

\* No athlete's cart has two rows of a product.
OneRowEach ==
    \A c, d \in Rows :
        /\ cart[c].buyer # None
        /\ cart[c].buyer = cart[d].buyer
        /\ cart[c].product = cart[d].product
      => c = d

\* A call that found no row creates the only one.
StillNone(r) ==
    proc[r].pc = "add_write" /\ proc[r].row = None =>
        ~ \E c \in Rows : cart[c].buyer = proc[r].buyer /\ cart[c].product = proc[r].product

CartInv ==
    /\ OneRowEach
    /\ ListedOnce
    /\ \A r \in Requests : StillNone(r) /\ Plain(proc[r].items)

\* A step that takes rows from carts, and begins no addToCart, keeps the invariant.
LEMMA CartFrame ==
  ASSUME TypeInv, CartInv,
         \A c \in Rows : cart'[c] = cart[c] \/ cart'[c] = NoRow,
         \A o \in Orders : orders'[o].items = orders[o].items,
         \A r \in Requests :
            \/ proc'[r] = proc[r]
            \/ proc'[r].pc # "add_write" /\ proc'[r].items \in {{}, proc[r].items}
  PROVE  CartInv'
<1>1. NoRow.buyer = None
  BY DEF NoRow
<1>2. OneRowEach'
  BY <1>1 DEF CartInv, OneRowEach
<1>3. ListedOnce'
  BY DEF CartInv, ListedOnce
<1>4. ASSUME NEW r \in Requests PROVE StillNone(r)' /\ Plain(proc[r].items)'
  <2>1. proc[r].pc = "add_write" => proc[r].buyer # None
    BY DEF TypeInv, Holds, Procs
  <2>. QED  BY <1>1, <2>1 DEF CartInv, StillNone, Plain
<1>. QED
  BY <1>2, <1>3, <1>4 DEF CartInv

\* addToCart, when no other call runs, creates a row only where there is none.
LEMMA AddKeeps ==
  ASSUME TypeInv, CartInv, OneRequest, NEW r \in Requests,
         \/ \E u \in Buyers, p \in Products, q \in Quantities : AddRead(r, u, p, q)
         \/ AddWrite(r)
  PROVE  CartInv'
<1>0. r \in Procs /\ proc[r] \in Local /\ Holds(r, proc[r]) /\ \A s \in Requests : s = r
  BY DEF Procs, TypeInv, MarketTypeOK, OneRequest
<1>1. ASSUME NEW u \in Buyers, NEW p \in Products, NEW q \in Quantities, AddRead(r, u, p, q)
      PROVE  CartInv'
  <2> DEFINE mine == {c \in RowsOf(u) : cart[c].product = p}
  <2>1. PICK c \in (IF mine = {} THEN {None} ELSE mine) :
          proc' = [proc EXCEPT ![r] = [Idle EXCEPT !.pc = "add_write", !.buyer = u, !.product = p,
             !.row = c, !.qty = IF c = None THEN q ELSE Min({cart[c].qty + q, products[p].stock})]]
    BY <1>1 DEF AddRead, Begin
  <2> DEFINE qty == IF c = None THEN q ELSE Min({cart[c].qty + q, products[p].stock})
             l == [Idle EXCEPT !.pc = "add_write", !.buyer = u, !.product = p, !.row = c, !.qty = qty]
  <2>2. l.row = c /\ l.buyer = u /\ l.product = p /\ l.items = {}
    BY DEF Idle
  <2>3. proc' = [proc EXCEPT ![r] = l] /\ cart' = cart /\ orders' = orders
    BY <1>1, <2>1 DEF AddRead
  <2>. HIDE DEF l
  <2>4. c = None => mine = {}
    <3>1. \A d \in mine : cart[d].buyer = u /\ u # None
      BY NoneIsNoKey DEF RowsOf
    <3>2. CASE None \in Rows
      BY <3>2, NoneIsNoKey
    <3>3. CASE None \notin Rows
      BY <2>1, <3>3 DEF RowsOf
    <3>. QED  BY <3>2, <3>3
  <2>5. proc'[r] = l
    BY <1>0, <2>3 DEF TypeInv, MarketTypeOK
  <2>6. StillNone(r)'
    BY <2>2, <2>3, <2>4, <2>5 DEF StillNone, RowsOf
  <2>7. Plain(proc[r].items)'
    BY <2>2, <2>5 DEF Plain
  <2>. QED  BY <1>0, <2>3, <2>6, <2>7 DEF CartInv, OneRowEach, ListedOnce
<1>2. CASE AddWrite(r)
  <2>1. orders' = orders /\ proc'[r] = Idle
    BY <1>0, <1>2 DEF AddWrite, Return, TypeInv, MarketTypeOK
  <2>2. OneRowEach'
    <3>1. CASE cart' = cart
      BY <3>1 DEF CartInv, OneRowEach
    <3>2. CASE cart' = [cart EXCEPT ![proc[r].row].qty = proc[r].qty]
      <4>1. \A c \in Rows : cart[c] \in CartRow
        BY DEF TypeInv, MarketTypeOK
      <4>2. \A c \in Rows : cart'[c].buyer = cart[c].buyer /\ cart'[c].product = cart[c].product
        BY <3>2, <4>1 DEF CartRow, TypeInv, MarketTypeOK
      <4>. QED  BY <4>2 DEF CartInv, OneRowEach
    <3>3. ASSUME NEW d \in Rows, proc[r].row = None,
                 cart' = [cart EXCEPT ![d] = [buyer |-> proc[r].buyer,
                             product |-> proc[r].product, qty |-> proc[r].qty]]
          PROVE  OneRowEach'
      <4>1. cart'[d].buyer = proc[r].buyer /\ cart'[d].product = proc[r].product
        BY <3>3 DEF TypeInv, MarketTypeOK
      <4>2. \A c \in Rows \ {d} : cart'[c] = cart[c]
        BY <3>3 DEF TypeInv, MarketTypeOK
      <4>3. \A c \in Rows : ~(cart[c].buyer = proc[r].buyer /\ cart[c].product = proc[r].product)
        BY <1>2, <3>3 DEF CartInv, StillNone, AddWrite, At
      <4>. QED  BY <4>1, <4>2, <4>3 DEF CartInv, OneRowEach
    <3>. QED  BY <1>2, <3>1, <3>2, <3>3 DEF AddWrite
  <2>3. (StillNone(r) /\ Plain(proc[r].items))'
    BY <2>1 DEF StillNone, Plain, Idle
  <2>. QED  BY <1>0, <2>1, <2>2, <2>3 DEF CartInv, ListedOnce
<1>. QED
  BY <1>1, <1>2

\* checkout lists what it found in the cart.
LEMMA CheckoutKeeps ==
  ASSUME TypeInv, CartInv, OneRequest, NEW r \in Requests,
         (\E u \in Buyers : OrderRead(r, u)) \/ OrderCreate(r) \/ OrderPay(r) \/ OrderClear(r)
         \/ RequestStops(r)
  PROVE  CartInv'
<1>0. r \in Procs /\ proc[r] \in Local /\ Holds(r, proc[r]) /\ \A s \in Requests : s = r
  BY DEF Procs, TypeInv, MarketTypeOK, OneRequest
<1>1. ASSUME NEW u \in Buyers, OrderRead(r, u) PROVE CartInv'
  <2> DEFINE items == {[row |-> c, product |-> cart[c].product, qty |-> cart[c].qty] : c \in RowsOf(u)}
             l == [Idle EXCEPT !.pc = "order_create", !.buyer = u, !.items = items]
  <2>1. Plain(items)
    <3>1. ASSUME NEW i \in items, NEW j \in items, i.product = j.product PROVE i = j
      <4>1. PICK c \in RowsOf(u) :
              i = [row |-> c, product |-> cart[c].product, qty |-> cart[c].qty]
        OBVIOUS
      <4>2. PICK d \in RowsOf(u) :
              j = [row |-> d, product |-> cart[d].product, qty |-> cart[d].qty]
        OBVIOUS
      <4>3. cart[c].product = cart[d].product /\ cart[c].buyer = u /\ cart[d].buyer = u
        BY <3>1, <4>1, <4>2 DEF RowsOf
      <4>4. c = d
        BY <4>3, NoneIsNoKey DEF CartInv, OneRowEach, RowsOf
      <4>. QED  BY <4>1, <4>2, <4>4
    <3>. QED  BY <3>1 DEF Plain
  <2>2. l.pc = "order_create" /\ l.items = items
    BY DEF Idle
  <2>3. proc' = [proc EXCEPT ![r] = l] /\ cart' = cart /\ orders' = orders
    BY <1>1 DEF OrderRead, Begin
  <2>. HIDE DEF l
  <2>4. proc'[r] = l
    BY <1>0, <2>3 DEF TypeInv, MarketTypeOK
  <2>5. StillNone(r)' /\ Plain(proc[r].items)'
    BY <2>1, <2>2, <2>4 DEF StillNone, Plain
  <2>. QED  BY <1>0, <2>3, <2>5 DEF CartInv, OneRowEach, ListedOnce
<1>2. CASE OrderCreate(r)
  <2> DEFINE row == [NoOrder EXCEPT !.status = "PENDING", !.buyer = proc[r].buyer,
                        !.items = proc[r].items, !.tx = "pending"]
  <2>1. PICK o \in Orders :
          /\ orders' = [orders EXCEPT ![o] = row]
          /\ proc' = [proc EXCEPT ![r] = [proc[r] EXCEPT !.pc = "order_pay", !.o = o, !.items = {}]]
    BY <1>2 DEF OrderCreate
  <2>2. row.items = proc[r].items
    BY DEF NoOrder
  <2>. HIDE DEF row
  <2>3. Plain(proc[r].items) /\ \A k \in Orders : Plain(orders[k].items)
    BY DEF CartInv, ListedOnce
  <2>4. \A k \in Orders : orders'[k].items = IF k = o THEN proc[r].items ELSE orders[k].items
    BY <2>1, <2>2 DEF TypeInv, MarketTypeOK
  <2>5. ListedOnce'
    BY <2>3, <2>4 DEF ListedOnce, Plain
  <2>6. proc'[r].pc = "order_pay" /\ proc'[r].items = {}
    BY <1>0, <2>1 DEF Local, TypeInv, MarketTypeOK
  <2>7. StillNone(r)' /\ Plain(proc[r].items)'
    BY <2>6 DEF StillNone, Plain
  <2>. QED  BY <1>0, <1>2, <2>5, <2>7 DEF OrderCreate, CartInv, OneRowEach
<1>3. CASE OrderPay(r)
  <2>1. \A o \in Orders : orders[o] \in OrderRow
    BY DEF TypeInv, MarketTypeOK
  <2>2. \A o \in Orders : orders'[o].items = orders[o].items
    BY <1>3, <2>1 DEF OrderPay, OrderRow, TypeInv, MarketTypeOK
  <2>3. proc'[r].pc = "order_clear" /\ proc'[r].items = proc[r].items
    BY <1>0, <1>3 DEF OrderPay, Goto, Local, TypeInv, MarketTypeOK
  <2>. QED  BY <1>0, <1>3, <2>2, <2>3, CartFrame DEF OrderPay
<1>4. CASE OrderClear(r)
  <2>1. \A o \in Orders : orders[o] \in OrderRow
    BY DEF TypeInv, MarketTypeOK
  <2>2. \A o \in Orders : orders'[o].items = orders[o].items
    BY <1>4, <2>1 DEF OrderClear, OrderRow, TypeInv, MarketTypeOK
  <2>3. proc'[r].pc = "idle" /\ proc'[r].items = {}
    BY <1>0, <1>4 DEF OrderClear, Return, Idle, TypeInv, MarketTypeOK
  <2>4. \A c \in Rows : cart'[c] = cart[c] \/ cart'[c] = NoRow
    BY <1>4 DEF OrderClear
  <2>. QED  BY <1>0, <2>2, <2>3, <2>4, CartFrame
<1>5. CASE RequestStops(r)
  <2>1. proc'[r].pc = "idle" /\ proc'[r].items = {}
    BY <1>0, <1>5 DEF RequestStops, Return, Idle, TypeInv, MarketTypeOK
  <2>. QED  BY <1>0, <1>5, <2>1, CartFrame DEF RequestStops
<1>. QED
  BY <1>1, <1>2, <1>3, <1>4, <1>5

\* Stripe, the webhook and the admin leave an order's items and the carts alone;
\* removeFromCart only takes.
LEMMA OthersKeep ==
  ASSUME TypeInv, CartInv,
         \/ \E u \in Buyers, p \in Products : RemoveFromCart(u, p)
         \/ \E o \in Orders : Pay(o) \/ CardFails(o)
         \/ \E h \in Hooks :
              \/ \E o \in Orders : HookFailed(h, o) \/ HookSucceeded(h, o)
              \/ HookContinue(h) \/ HookStops(h)
         \/ \E o \in Orders, status \in StatusEdits : EditOrder(o, status)
         \/ \E p \in Products : (\E n \in StockEdits : EditStock(p, n)) \/ EditActive(p)
                                \/ RemoveProduct(p)
         \/ UNCHANGED vars
  PROVE  CartInv'
<1>0. \A o \in Orders : orders[o] \in OrderRow
  BY DEF TypeInv, MarketTypeOK
<1>1. ASSUME NEW u \in Buyers, NEW p \in Products, RemoveFromCart(u, p) PROVE CartInv'
  <2>1. \A c \in Rows : cart'[c] = cart[c] \/ cart'[c] = NoRow
    BY <1>1 DEF RemoveFromCart, TypeInv, MarketTypeOK
  <2>. QED  BY <1>1, <2>1, CartFrame DEF RemoveFromCart
<1>2. ASSUME NEW o \in Orders, Pay(o) \/ CardFails(o) PROVE CartInv'
  <2>1. \A k \in Orders : orders'[k].items = orders[k].items
    BY <1>0, <1>2 DEF Pay, CardFails, OrderRow, TypeInv, MarketTypeOK
  <2>. QED  BY <1>2, <2>1, CartFrame DEF Pay, CardFails
<1>3. ASSUME NEW h \in Hooks,
             \/ \E o \in Orders : HookFailed(h, o) \/ HookSucceeded(h, o)
             \/ HookContinue(h) \/ HookStops(h)
      PROVE  CartInv'
  <2>1. cart' = cart
    BY <1>3 DEF HookFailed, HookSucceeded, HookContinue, ConfirmRead, ConfirmItem, ConfirmWrite,
                ConfirmTx, HookStops
  <2>2. \/ orders' = orders
        \/ \E o, status : \/ orders' = [orders EXCEPT ![o].tx = status]
                          \/ orders' = [orders EXCEPT ![o].status = status]
    BY <1>3, Zenon DEF HookFailed, HookSucceeded, HookContinue, ConfirmRead, ConfirmItem, ConfirmWrite,
                ConfirmTx, HookStops, SetTx
  <2>3. \A k \in Orders : orders'[k].items = orders[k].items
    BY <1>0, <2>2 DEF OrderRow, TypeInv, MarketTypeOK
  <2>4. proc' = proc \/ \E l : proc' = [proc EXCEPT ![h] = l]
    BY <1>3, Zenon DEF HookFailed, HookSucceeded, HookContinue, ConfirmRead, ConfirmItem, ConfirmWrite,
                ConfirmTx, HookStops, Begin, Goto, Return
  <2>5. \A r \in Requests : proc'[r] = proc[r]
    BY <2>4, ProcsDisjoint DEF Procs, TypeInv, MarketTypeOK
  <2>. QED  BY <2>1, <2>3, <2>5, CartFrame
<1>4. ASSUME NEW o \in Orders, NEW status \in StatusEdits, EditOrder(o, status) PROVE CartInv'
  <2>1. \A k \in Orders : orders'[k].items = orders[k].items
    BY <1>0, <1>4 DEF EditOrder, OrderRow, TypeInv, MarketTypeOK
  <2>. QED  BY <1>4, <2>1, CartFrame DEF EditOrder
<1>5. ASSUME NEW p \in Products,
             (\E n \in StockEdits : EditStock(p, n)) \/ EditActive(p) \/ RemoveProduct(p)
      PROVE  CartInv'
  BY <1>5, CartFrame DEF EditStock, EditActive, RemoveProduct
<1>6. CASE UNCHANGED vars
  BY <1>6, CartFrame DEF vars
<1>. QED
  BY <1>1, <1>2, <1>3, <1>4, <1>5, <1>6

\* API calls that come one at a time put a product into one row of a cart, and into
\* one item of an order.
THEOREM OrdersNameProductsOnce == ASSUME OneRequest PROVE Spec => []ListedOnce
<1>1. Init => TypeInv /\ CartInv
  <2>. SUFFICES ASSUME Init PROVE TypeInv /\ CartInv
    OBVIOUS
  <2>1. \A c \in Rows : cart[c].buyer = None
    BY DEF Init, NoRow
  <2>2. \A r \in Requests : proc[r].pc = "idle" /\ proc[r].items = {}
    BY DEF Init, Idle, Procs
  <2>3. \A o \in Orders : orders[o].items = {}
    BY DEF Init, NoOrder
  <2>. QED
    BY <2>1, <2>2, <2>3, TypeInit DEF CartInv, OneRowEach, ListedOnce, StillNone, Plain
<1>2. TypeInv /\ CartInv /\ [Next]_vars => (TypeInv /\ CartInv)'
  <2>. SUFFICES ASSUME TypeInv, CartInv, [Next]_vars PROVE (TypeInv /\ CartInv)'
    OBVIOUS
  <2>. QED  BY TypeStep, AddKeeps, CheckoutKeeps, OthersKeep DEF Next, Continue
<1>3. TypeInv /\ CartInv => ListedOnce
  BY DEF CartInv
<1>. QED
  BY <1>1, <1>2, <1>3, PTL DEF Spec

\* So the shop, one call and one confirmation at a time, never sells more of a product
\* than there is; stock below zero was written by the admin in between.
THEOREM StockIsRespected ==
  ASSUME OneRequest, OneConfirmation
  PROVE  Spec => []NeverOversold
<1>. QED
  BY OrdersNameProductsOnce, SoldWhatThereIs, PTL

-----------------------------------------------------------------------------
(* A paid order counts once in sold_quantity                               *)

\* The items of an order that confirmations have come to.
Taken(o) ==
    IF orders[o].status \notin {"ABSENT", "PENDING"} THEN orders[o].items
    ELSE {i \in orders[o].items : \E h \in Hooks :
             proc[h].pc = "confirm_item" /\ proc[h].o = o /\ i \notin proc[h].items}

\* What an item counts for product p, and what the items taken so far come to.
Qty(p) == [i \in Item |-> Units(i, p)]
TakenOf(p) == [o \in Orders |-> Total(Qty(p), Taken(o))]

Unbroken == hist.stopped \cup hist.edited = {}

\* A confirmation under way has a PENDING order, whose items it goes through.
InHand(h) ==
    proc[h].pc = "confirm_item" =>
        orders[proc[h].o].status = "PENDING" /\ proc[h].items \subseteq orders[proc[h].o].items

\* No product is sold more often than the items that were taken say.
SoldInv ==
    Unbroken =>
        /\ \A h \in Hooks : InHand(h)
        /\ \A p \in Products : products[p].sold <= Total(TakenOf(p), Orders)

FiniteInv ==
    /\ \A o \in Orders : IsFiniteSet(orders[o].items)
    /\ \A r \in Requests : IsFiniteSet(proc[r].items)

\* The rows of a cart make a finite set of items.
LEMMA ItemsAreFinite ==
  ASSUME NEW u
  PROVE  IsFiniteSet({[row |-> c, product |-> cart[c].product, qty |-> cart[c].qty] : c \in RowsOf(u)})
<1> DEFINE T == {[row |-> c, product |-> cart[c].product, qty |-> cart[c].qty] : c \in RowsOf(u)}
           f == [c \in RowsOf(u) |-> [row |-> c, product |-> cart[c].product, qty |-> cart[c].qty]]
<1>1. IsFiniteSet(RowsOf(u))
  BY KeysAreFinite, FS_Subset DEF RowsOf
<1>2. f \in Surjection(RowsOf(u), T)
  BY DEF Surjection
<1>. HIDE DEF f, T
<1>3. IsFiniteSet(T)
  BY <1>1, <1>2, FS_Surjection
<1>. QED  BY <1>3 DEF T

\* Items are written once, by checkout, from the rows of one cart.
LEMMA FiniteStep == ASSUME TypeInv, FiniteInv, [Next]_vars PROVE FiniteInv'
<1>0. \A o \in Orders : orders[o] \in OrderRow
  BY DEF TypeInv, MarketTypeOK
<1>1. ASSUME NEW r \in Requests, NEW l, proc' = [proc EXCEPT ![r] = l], IsFiniteSet(l.items),
             \A o \in Orders : orders'[o].items \in {orders[o].items, proc[r].items}
      PROVE  FiniteInv'
  <2>1. \A s \in Requests : IsFiniteSet(proc'[s].items)
    BY <1>1 DEF FiniteInv, TypeInv, MarketTypeOK, Procs
  <2>. QED  BY <1>1, <2>1 DEF FiniteInv
<1>2. ASSUME \A o \in Orders : orders'[o].items = orders[o].items,
             \A r \in Requests : proc'[r] = proc[r]
      PROVE  FiniteInv'
  BY <1>2 DEF FiniteInv
<1>3. ASSUME NEW r \in Requests,
             \/ \E u \in Buyers, p \in Products, q \in Quantities : AddRead(r, u, p, q)
             \/ \E u \in Buyers : OrderRead(r, u)
             \/ Continue(r) \/ RequestStops(r)
      PROVE  FiniteInv'
  <2>0. proc[r] \in Local /\ r \in Procs /\ IsFiniteSet(Idle.items)
    BY FS_EmptySet DEF TypeInv, MarketTypeOK, Procs, Idle
  <2>1. ASSUME NEW u \in Buyers, NEW p \in Products, NEW q \in Quantities, AddRead(r, u, p, q)
        PROVE  FiniteInv'
    <3>1. PICK c : proc' = [proc EXCEPT ![r] = [Idle EXCEPT !.pc = "add_write", !.buyer = u,
             !.product = p, !.row = c,
             !.qty = IF c = None THEN q ELSE Min({cart[c].qty + q, products[p].stock})]]
      BY <2>1 DEF AddRead, Begin
    <3>2. PICK l : l = [Idle EXCEPT !.pc = "add_write", !.buyer = u, !.product = p, !.row = c,
             !.qty = IF c = None THEN q ELSE Min({cart[c].qty + q, products[p].stock})]
      OBVIOUS
    <3>3. IsFiniteSet(l.items)
      BY <2>0, <3>2 DEF Idle
    <3>. QED  BY <1>1, <2>1, <3>1, <3>2, <3>3 DEF AddRead
  <2>2. ASSUME NEW u \in Buyers, OrderRead(r, u) PROVE FiniteInv'
    <3>. PICK items : items = {[row |-> c, product |-> cart[c].product, qty |-> cart[c].qty]
                                 : c \in RowsOf(u)}
      OBVIOUS
    <3>1. IsFiniteSet(items)
      BY ItemsAreFinite
    <3>2. PICK l : l = [Idle EXCEPT !.pc = "order_create", !.buyer = u, !.items = items]
      OBVIOUS
    <3>3. IsFiniteSet(l.items)
      BY <3>1, <3>2 DEF Idle
    <3>4. proc' = [proc EXCEPT ![r] = l]
      BY <2>2, <3>2 DEF OrderRead, Begin
    <3>. QED  BY <1>1, <2>2, <3>3, <3>4 DEF OrderRead
  <2>3. CASE AddWrite(r) \/ OrderClear(r) \/ RequestStops(r)
    <3>1. proc' = [proc EXCEPT ![r] = Idle]
      BY <2>3 DEF AddWrite, OrderClear, RequestStops, Return
    <3>2. \A o \in Orders : orders'[o].items = orders[o].items
      BY <1>0, <2>3 DEF AddWrite, OrderClear, RequestStops, OrderRow, TypeInv, MarketTypeOK
    <3>. QED  BY <1>1, <2>0, <3>1, <3>2
  <2>4. CASE OrderCreate(r)
    <3>1. PICK o \in Orders :
          /\ orders' = [orders EXCEPT ![o] = [NoOrder EXCEPT !.status = "PENDING",
                !.buyer = proc[r].buyer, !.items = proc[r].items, !.tx = "pending"]]
          /\ proc' = [proc EXCEPT ![r] = [@ EXCEPT !.pc = "order_pay", !.o = o, !.items = {}]]
      BY <2>4 DEF OrderCreate
    <3>2. PICK l : l = [proc[r] EXCEPT !.pc = "order_pay", !.o = o, !.items = {}]
      OBVIOUS
    <3>3. IsFiniteSet(l.items)
      BY <2>0, <3>2, FS_EmptySet DEF Local
    <3>4. \A k \in Orders : orders'[k].items \in {orders[k].items, proc[r].items}
      BY <3>1 DEF NoOrder, TypeInv, MarketTypeOK
    <3>. QED  BY <1>1, <3>1, <3>2, <3>3, <3>4
  <2>5. CASE OrderPay(r)
    <3>2. PICK l : l = [proc[r] EXCEPT !.pc = "order_clear"]
      OBVIOUS
    <3>3. IsFiniteSet(l.items)
      BY <2>0, <3>2 DEF Local, FiniteInv
    <3>4. \A o \in Orders : orders'[o].items = orders[o].items
      BY <1>0, <2>5 DEF OrderPay, OrderRow, TypeInv, MarketTypeOK
    <3>. QED  BY <1>1, <2>5, <3>2, <3>3, <3>4 DEF OrderPay, Goto
  <2>. QED  BY <1>3, <2>1, <2>2, <2>3, <2>4, <2>5 DEF Continue
<1>4. ASSUME NEW h \in Hooks,
             \/ \E o \in Orders : HookFailed(h, o) \/ HookSucceeded(h, o)
             \/ HookContinue(h) \/ HookStops(h)
      PROVE  FiniteInv'
  <2>2. \/ orders' = orders
        \/ \E o, status : \/ orders' = [orders EXCEPT ![o].tx = status]
                          \/ orders' = [orders EXCEPT ![o].status = status]
    BY <1>4, Zenon DEF HookFailed, HookSucceeded, HookContinue, ConfirmRead, ConfirmItem, ConfirmWrite,
                ConfirmTx, HookStops, SetTx
  <2>3. \A k \in Orders : orders'[k].items = orders[k].items
    BY <1>0, <2>2 DEF OrderRow, TypeInv, MarketTypeOK
  <2>4. proc' = proc \/ \E l : proc' = [proc EXCEPT ![h] = l]
    BY <1>4, Zenon DEF HookFailed, HookSucceeded, HookContinue, ConfirmRead, ConfirmItem, ConfirmWrite,
                ConfirmTx, HookStops, Begin, Goto, Return
  <2>5. \A r \in Requests : proc'[r] = proc[r]
    BY <2>4, ProcsDisjoint DEF Procs, TypeInv, MarketTypeOK
  <2>. QED  BY <1>2, <2>3, <2>5
<1>5. ASSUME NEW o \in Orders,
             Pay(o) \/ CardFails(o) \/ \E status \in StatusEdits : EditOrder(o, status)
      PROVE  FiniteInv'
  <2>1. \A k \in Orders : orders'[k].items = orders[k].items
    BY <1>0, <1>5 DEF Pay, CardFails, EditOrder, OrderRow, TypeInv, MarketTypeOK
  <2>2. proc' = proc
    BY <1>5 DEF Pay, CardFails, EditOrder
  <2>. QED  BY <1>2, <2>1, <2>2
<1>6. CASE \/ \E p \in Products : (\E n \in StockEdits : EditStock(p, n)) \/ EditActive(p)
                                  \/ RemoveProduct(p)
           \/ \E u \in Buyers, p \in Products : RemoveFromCart(u, p)
           \/ UNCHANGED vars
  BY <1>2, <1>6 DEF EditStock, EditActive, RemoveProduct, RemoveFromCart, vars
<1>. QED
  BY <1>3, <1>4, <1>5, <1>6 DEF Next

\* What is taken of orders is a finite set of items, and its sum a natural number.
LEMMA TakenSums ==
  ASSUME TypeInv, FiniteInv, NEW p \in Products, NEW o \in Orders
  PROVE  /\ IsFiniteSet(orders[o].items) /\ orders[o].items \subseteq Item
         /\ Taken(o) \in SUBSET orders[o].items /\ IsFiniteSet(Taken(o))
         /\ \A i \in Item : Qty(p)[i] \in Nat
         /\ TakenOf(p)[o] = Total(Qty(p), Taken(o)) /\ TakenOf(p)[o] \in Nat
<1>1. IsFiniteSet(orders[o].items) /\ orders[o].items \subseteq Item
  BY DEF FiniteInv, TypeInv, MarketTypeOK, OrderRow
<1>2. Taken(o) \in SUBSET orders[o].items
  BY DEF Taken
<1>3. IsFiniteSet(Taken(o))
  BY <1>1, <1>2, FS_Subset
<1>4. \A i \in Item : Qty(p)[i] \in Nat
  BY DEF Qty, Units, Item
<1>5. TakenOf(p)[o] = Total(Qty(p), Taken(o))
  BY DEF TakenOf
<1>6. \A i \in Taken(o) : Qty(p)[i] \in Nat
  BY <1>1, <1>2, <1>4
<1>7. Total(Qty(p), Taken(o)) \in Nat
  BY <1>3, <1>6, TotalSums
<1>. QED  BY <1>1, <1>2, <1>3, <1>4, <1>5, <1>7

\* A step that neither sells nor takes keeps the invariant.
LEMMA SoldFrame ==
  ASSUME SoldInv, Unbroken' => Unbroken,
         \A p \in Products : products'[p].sold = products[p].sold,
         Unbroken /\ Unbroken' => (\A h \in Hooks : InHand(h)') /\ \A o \in Orders : Taken(o)' = Taken(o)
  PROVE  SoldInv'
<1>. SUFFICES ASSUME Unbroken'
     PROVE  (\A h \in Hooks : InHand(h)') /\ \A p \in Products : (products[p].sold <= Total(TakenOf(p), Orders))'
  BY DEF SoldInv
<1>1. ASSUME NEW p \in Products PROVE (products[p].sold <= Total(TakenOf(p), Orders))'
  <2>1. TakenOf(p)' = TakenOf(p)
    BY DEF TakenOf
  <2>. QED  BY <2>1 DEF SoldInv
<1>. QED  BY <1>1

\* Neither does one that changes no order's status or items, and no confirmation.
LEMMA SameTaken ==
  ASSUME TypeInv, SoldInv, Unbroken' => Unbroken,
         \A p \in Products : products'[p].sold = products[p].sold,
         \A o \in Orders : orders'[o].items = orders[o].items /\ orders'[o].status = orders[o].status,
         \A h \in Hooks : \/ proc'[h] = proc[h]
                          \/ proc[h].pc # "confirm_item" /\ proc'[h].pc # "confirm_item"
  PROVE  SoldInv'
<1>1. ASSUME NEW o \in Orders PROVE Taken(o)' = Taken(o)
  BY DEF Taken
<1>2. ASSUME Unbroken, NEW h \in Hooks PROVE InHand(h)'
  <2>1. h \in Procs /\ Holds(h, proc[h])
    BY DEF TypeInv, Procs
  <2>. QED  BY <1>2, <2>1 DEF SoldInv, InHand, Holds, ConfirmPC
<1>. QED  BY <1>1, <1>2, SoldFrame

\* An API call takes nothing; the order it creates is nobody's yet.
LEMMA RequestsSell ==
  ASSUME TypeInv, SoldInv, NEW r \in Requests,
         \/ \E u \in Buyers, p \in Products, q \in Quantities : AddRead(r, u, p, q)
         \/ \E u \in Buyers : OrderRead(r, u)
         \/ Continue(r) \/ RequestStops(r)
  PROVE  SoldInv'
<1>0. \A o \in Orders : orders[o] \in OrderRow
  BY DEF TypeInv, MarketTypeOK
<1>1. products' = products /\ hist' = hist
  BY DEF AddRead, OrderRead, Continue, AddWrite, OrderCreate, OrderPay, OrderClear, RequestStops
<1>2. proc' = proc \/ \E l : proc' = [proc EXCEPT ![r] = l]
  BY Zenon DEF AddRead, OrderRead, Continue, AddWrite, OrderCreate, OrderPay, OrderClear, RequestStops,
     Begin, Goto, Return
<1>3. \A h \in Hooks : proc'[h] = proc[h]
  BY <1>2, ProcsDisjoint DEF Procs, TypeInv, MarketTypeOK
<1>4. CASE ~OrderCreate(r)
  <2>1. \A o \in Orders : orders'[o].items = orders[o].items /\ orders'[o].status = orders[o].status
    <3>1. orders' = orders \/ OrderPay(r) \/ OrderClear(r)
      BY <1>4 DEF AddRead, OrderRead, Continue, AddWrite, RequestStops
    <3>. QED  BY <1>0, <3>1 DEF OrderPay, OrderClear, OrderRow, TypeInv, MarketTypeOK
  <2>. QED  BY <1>1, <1>3, <2>1, SameTaken DEF Unbroken
<1>5. CASE OrderCreate(r)
  <2>1. PICK o \in Orders :
          /\ orders[o].status = "ABSENT"
          /\ orders' = [orders EXCEPT ![o] = [NoOrder EXCEPT !.status = "PENDING",
                !.buyer = proc[r].buyer, !.items = proc[r].items, !.tx = "pending"]]
    BY <1>5 DEF OrderCreate
  <2>2. orders'[o].status = "PENDING" /\ \A k \in Orders \ {o} : orders'[k] = orders[k]
    BY <2>1 DEF NoOrder, TypeInv, MarketTypeOK
  <2>3. ASSUME Unbroken PROVE \A h \in Hooks : proc[h].pc = "confirm_item" => proc[h].o \in Orders \ {o}
    <3>1. ASSUME NEW h \in Hooks, proc[h].pc = "confirm_item" PROVE proc[h].o \in Orders
      BY <3>1 DEF TypeInv, Holds, ConfirmPC, Procs
    <3>. QED  BY <2>1, <2>3, <3>1 DEF SoldInv, InHand
  <2>4. ASSUME Unbroken, NEW h \in Hooks PROVE InHand(h)'
    BY <1>3, <2>2, <2>3, <2>4 DEF SoldInv, InHand
  <2>5. ASSUME Unbroken, NEW k \in Orders PROVE Taken(k)' = Taken(k)
    <3>1. CASE k = o
      <4>1. Taken(o) = {} /\ Taken(o)' = {}
        BY <1>3, <2>1, <2>2, <2>3, <2>5 DEF Taken
      <4>. QED  BY <3>1, <4>1
    <3>2. CASE k # o
      BY <1>3, <2>2, <3>2 DEF Taken
    <3>. QED  BY <3>1, <3>2
  <2>. QED  BY <1>1, <2>4, <2>5, SoldFrame DEF Unbroken
<1>. QED  BY <1>4, <1>5

\* Stripe, the carts and the admin take nothing, unless the admin wrote an order's status.
LEMMA OthersSell ==
  ASSUME TypeInv, SoldInv,
         \/ \E u \in Buyers, p \in Products : RemoveFromCart(u, p)
         \/ \E o \in Orders : Pay(o) \/ CardFails(o)
         \/ \E o \in Orders, status \in StatusEdits : EditOrder(o, status)
         \/ \E p \in Products : (\E n \in StockEdits : EditStock(p, n)) \/ EditActive(p)
                                \/ RemoveProduct(p)
         \/ UNCHANGED vars
  PROVE  SoldInv'
<1>0. /\ \A o \in Orders : orders[o] \in OrderRow
      /\ \A p \in Products : products[p] \in ProductRow
  BY DEF TypeInv, MarketTypeOK
<1>1. CASE \/ \E u \in Buyers, p \in Products : RemoveFromCart(u, p)
           \/ UNCHANGED vars
  BY <1>1, SameTaken DEF RemoveFromCart, vars, Unbroken
<1>2. ASSUME NEW o \in Orders, Pay(o) \/ CardFails(o) PROVE SoldInv'
  <2>1. \A k \in Orders : orders'[k].items = orders[k].items /\ orders'[k].status = orders[k].status
    BY <1>0, <1>2 DEF Pay, CardFails, OrderRow, TypeInv, MarketTypeOK
  <2>. QED  BY <1>2, <2>1, SameTaken DEF Pay, CardFails, Unbroken
<1>3. ASSUME NEW o \in Orders, NEW status \in StatusEdits, EditOrder(o, status) PROVE SoldInv'
  <2>1. ~Unbroken'
    <3>1. hist'.edited = hist.edited \cup {o}
      BY <1>3 DEF EditOrder, TypeInv, MarketTypeOK
    <3>. QED  BY <3>1 DEF Unbroken
  <2>. QED  BY <2>1 DEF SoldInv
<1>4. ASSUME NEW p \in Products,
             (\E n \in StockEdits : EditStock(p, n)) \/ EditActive(p) \/ RemoveProduct(p)
      PROVE  SoldInv'
  <2>1. \A k \in Products : products'[k].sold = products[k].sold
    BY <1>0, <1>4 DEF EditStock, EditActive, RemoveProduct, ProductRow, TypeInv, MarketTypeOK
  <2>2. orders' = orders /\ proc' = proc
    BY <1>4 DEF EditStock, EditActive, RemoveProduct
  <2>3. hist'.stopped = hist.stopped /\ hist'.edited = hist.edited
    BY <1>4 DEF EditStock, EditActive, RemoveProduct, TypeInv, MarketTypeOK
  <2>. QED  BY <2>1, <2>2, <2>3, SameTaken DEF Unbroken
<1>. QED  BY <1>1, <1>2, <1>3, <1>4

\* A confirmation that comes to an item takes it.
LEMMA ItemSells ==
  ASSUME TypeInv, FiniteInv, SoldInv, OneConfirmation, NEW h \in Hooks, ConfirmItem(h)
  PROVE  SoldInv'
<1>. SUFFICES ASSUME Unbroken
     PROVE  (\A k \in Hooks : InHand(k)') /\ \A p \in Products : (products[p].sold <= Total(TakenOf(p), Orders))'
  BY DEF SoldInv, Unbroken, ConfirmItem
<1>0. /\ h \in Procs /\ proc[h] \in Local /\ Holds(h, proc[h]) /\ proc[h].pc = "confirm_item"
      /\ InHand(h) /\ \A k \in Hooks : k = h
  BY DEF ConfirmItem, At, Procs, TypeInv, MarketTypeOK, OneConfirmation, SoldInv
<1>1. PICK i \in proc[h].items :
          /\ proc' = [proc EXCEPT ![h].items = @ \ {i}]
          /\ IF proc[h].seen[i.product] < i.qty THEN products' = products ELSE Sell(i)
  BY DEF ConfirmItem
<1>. PICK o : o = proc[h].o
  OBVIOUS
<1>2. /\ o \in Orders /\ orders' = orders /\ orders[o].status = "PENDING"
      /\ i \in orders[o].items /\ i \in Item
  BY <1>0 DEF Holds, ConfirmPC, ConfirmItem, InHand, Local
<1>3. proc'[h].pc = "confirm_item" /\ proc'[h].o = o /\ proc'[h].items = proc[h].items \ {i}
  BY <1>0, <1>1 DEF Local, TypeInv, MarketTypeOK
<1>4. \A k \in Hooks : InHand(k)'
  BY <1>0, <1>2, <1>3 DEF InHand
<1>5. Taken(o)' = Taken(o) \cup {i} /\ i \notin Taken(o)
  <2>1. Taken(o) = {j \in orders[o].items : j \notin proc[h].items}
    BY <1>0, <1>2 DEF Taken
  <2>2. Taken(o)' = {j \in orders[o].items : j \notin proc'[h].items}
    BY <1>0, <1>2, <1>3 DEF Taken
  <2>. QED  BY <1>1, <1>2, <1>3, <2>1, <2>2
<1>6. ASSUME NEW k \in Orders \ {o} PROVE Taken(k)' = Taken(k)
  BY <1>0, <1>2, <1>3 DEF Taken
<1>7. ASSUME NEW p \in Products PROVE (products[p].sold <= Total(TakenOf(p), Orders))'
  <2>. PICK G : G = TakenOf(p)
    OBVIOUS
  <2>. PICK H : H = TakenOf(p)'
    OBVIOUS
  <2>. PICK n : n = Qty(p)[i]
    OBVIOUS
  <2>1. n \in Nat /\ n = IF i.product = p THEN i.qty ELSE 0
    BY <1>2 DEF Qty, Units, Item
  <2>2. \A k \in Orders : G[k] \in Nat
    BY TakenSums
  <2>3. \A k \in Orders \ {o} : H[k] = G[k]
    BY <1>6 DEF TakenOf
  <2>4. H[o] = G[o] + n
    <3>. PICK T : T = Taken(o)
      OBVIOUS
    <3>1. T \subseteq orders[o].items /\ IsFiniteSet(orders[o].items) /\ orders[o].items \subseteq Item
      BY <1>2, TakenSums
    <3>. PICK V : V = T \cup {i}
      OBVIOUS
    <3>. PICK Q : Q = Qty(p)
      OBVIOUS
    <3>2. IsFiniteSet(V) /\ \A j \in V : Q[j] \in Nat
      BY <1>2, <3>1, FS_Subset, TakenSums
    <3>3. Total(Q, V) = Q[i] + Total(Q, V \ {i})
      BY <3>2, TotalSums
    <3>4. V \ {i} = T
      BY <1>5
    <3>5. Total(Qty(p), T \cup {i}) = n + Total(Qty(p), T)
      BY <3>3, <3>4
    <3>6. G[o] = Total(Qty(p), T) /\ G[o] \in Nat
      BY <1>2, TakenSums
    <3>7. H[o] = Total(Qty(p), T \cup {i})
      BY <1>2, <1>5 DEF TakenOf
    <3>. QED  BY <2>1, <3>5, <3>6, <3>7
  <2>5. Total(H, Orders) = Total(G, Orders) + n
    BY <1>2, <2>1, <2>2, <2>3, <2>4, KeysAreFinite, TotalRises
  <2>6. Total(G, Orders) \in Nat /\ products[p].sold <= Total(G, Orders) /\ products[p].sold \in Nat
    BY <2>2, KeysAreFinite, TotalSums DEF SoldInv, TypeInv, MarketTypeOK, ProductRow
  <2>7. products'[p].sold = products[p].sold \/ products'[p].sold = products[p].sold + n
    <3>1. i.product \in Products /\ products[p] \in ProductRow
      BY <1>2 DEF Item, TypeInv, MarketTypeOK
    <3>2. CASE products' = products
      BY <3>2
    <3>3. CASE Sell(i) /\ i.product = p
      BY <2>1, <3>1, <3>3 DEF Sell, Sold, ProductRow, TypeInv, MarketTypeOK
    <3>4. CASE Sell(i) /\ i.product # p
      BY <3>1, <3>4 DEF Sell, TypeInv, MarketTypeOK
    <3>. QED  BY <1>1, <3>2, <3>3, <3>4
  <2>8. products'[p].sold <= Total(H, Orders)
    BY <2>1, <2>5, <2>6, <2>7
  <2>. QED  BY <2>8
<1>. QED  BY <1>4, <1>7

\* The other steps of the webhook take nothing: a confirmation begins with all of its
\* items left and writes CONFIRMED with none left.
LEMMA HookSells ==
  ASSUME TypeInv, FiniteInv, SoldInv, OneConfirmation, NEW h \in Hooks,
         \/ \E o \in Orders : HookFailed(h, o) \/ HookSucceeded(h, o)
         \/ HookContinue(h) \/ HookStops(h)
  PROVE  SoldInv'
<1>0. /\ h \in Procs /\ proc[h] \in Local /\ Holds(h, proc[h]) /\ \A k \in Hooks : k = h
      /\ \A o \in Orders : orders[o] \in OrderRow
  BY DEF Procs, TypeInv, MarketTypeOK, OneConfirmation
<1>1. ASSUME NEW o \in Orders, HookFailed(h, o) \/ HookSucceeded(h, o) PROVE SoldInv'
  <2>0. \E status : orders' = [orders EXCEPT ![o].tx = status]
    BY <1>1, Zenon DEF HookFailed, HookSucceeded, SetTx
  <2>1. \A k \in Orders : orders'[k].items = orders[k].items /\ orders'[k].status = orders[k].status
    BY <1>0, <2>0 DEF OrderRow, TypeInv, MarketTypeOK
  <2>2. proc[h].pc # "confirm_item"
    BY <1>1 DEF HookFailed, HookSucceeded, Deliver, At
  <2>3. proc' = proc \/ proc'[h].pc = "confirm_read"
    BY <1>0, <1>1 DEF HookFailed, HookSucceeded, Begin, Idle, TypeInv, MarketTypeOK
  <2>. QED  BY <1>0, <1>1, <2>1, <2>2, <2>3, SameTaken DEF HookFailed, HookSucceeded, Unbroken
<1>2. CASE ConfirmRead(h)
  <2>1. proc[h].pc = "confirm_read" /\ orders' = orders /\ products' = products /\ hist' = hist
    BY <1>2 DEF ConfirmRead, At
  <2>2. CASE Return(h)
    <3>1. proc'[h].pc = "idle"
      BY <1>0, <2>2 DEF Return, Idle, TypeInv, MarketTypeOK
    <3>. QED  BY <1>0, <2>1, <3>1, SameTaken DEF Unbroken
  <2>3. CASE ~Return(h)
    <3>1. /\ orders[proc[h].o].status = "PENDING"
          /\ proc' = [proc EXCEPT ![h] = [@ EXCEPT !.pc = "confirm_item",
                        !.items = orders[proc[h].o].items, !.seen = StockNow]]
      BY <1>2, <2>3 DEF ConfirmRead
    <3>2. proc'[h].o = proc[h].o /\ proc'[h].items = orders[proc[h].o].items
      BY <1>0, <3>1 DEF Local, TypeInv, MarketTypeOK
    <3>3. \A k \in Hooks : InHand(k)'
      BY <1>0, <2>1, <3>1, <3>2 DEF InHand
    <3>4. ASSUME NEW o \in Orders PROVE Taken(o)' = Taken(o)
      BY <1>0, <2>1, <3>2 DEF Taken
    <3>. QED  BY <2>1, <3>3, <3>4, SoldFrame DEF Unbroken
  <2>. QED  BY <2>2, <2>3
<1>3. CASE ConfirmItem(h)
  BY <1>3, ItemSells
<1>4. CASE ConfirmWrite(h)
  <2>. PICK o : o = proc[h].o
    OBVIOUS
  <2>1. /\ o \in Orders /\ proc[h].pc = "confirm_item" /\ proc[h].items = {}
        /\ products' = products /\ hist' = hist
    BY <1>0, <1>4 DEF ConfirmWrite, At, Holds, ConfirmPC
  <2>2. /\ orders'[o].status = "CONFIRMED" /\ orders'[o].items = orders[o].items
        /\ \A k \in Orders \ {o} : orders'[k] = orders[k]
    BY <1>0, <1>4, <2>1 DEF ConfirmWrite, OrderRow, TypeInv, MarketTypeOK
  <2>3. proc'[h].pc = "confirm_tx"
    BY <1>0, <1>4 DEF ConfirmWrite, Goto, Local, TypeInv, MarketTypeOK
  <2>4. \A k \in Hooks : InHand(k)'
    BY <1>0, <2>3 DEF InHand
  <2>5. ASSUME Unbroken, NEW k \in Orders PROVE Taken(k)' = Taken(k)
    <3>1. CASE k = o
      <4>1. InHand(h)
        BY <2>5 DEF SoldInv
      <4>2. Taken(o) = orders[o].items
        BY <1>0, <2>1, <4>1 DEF Taken, InHand
      <4>3. Taken(o)' = orders[o].items
        BY <2>2 DEF Taken
      <4>. QED  BY <3>1, <4>2, <4>3
    <3>2. CASE k # o
      BY <1>0, <2>1, <2>2, <2>3, <3>2 DEF Taken
    <3>. QED  BY <3>1, <3>2
  <2>. QED  BY <2>1, <2>4, <2>5, SoldFrame DEF Unbroken
<1>5. CASE ConfirmTx(h)
  <2>1. \A k \in Orders : orders'[k].items = orders[k].items /\ orders'[k].status = orders[k].status
    BY <1>0, <1>5 DEF ConfirmTx, SetTx, OrderRow, TypeInv, MarketTypeOK
  <2>2. proc[h].pc # "confirm_item" /\ proc'[h].pc # "confirm_item"
    BY <1>0, <1>5 DEF ConfirmTx, At, Return, Idle, TypeInv, MarketTypeOK
  <2>. QED  BY <1>0, <1>5, <2>1, <2>2, SameTaken DEF ConfirmTx, Unbroken
<1>6. CASE HookStops(h)
  <2>1. hist'.stopped = hist.stopped \cup {proc[h].o}
    BY <1>6 DEF HookStops, TypeInv, MarketTypeOK
  <2>. QED  BY <2>1 DEF SoldInv, Unbroken
<1>. QED
  BY <1>1, <1>2, <1>3, <1>4, <1>5, <1>6 DEF HookContinue

\* However often Stripe repeats its events, confirmations that come one at a time count
\* a paid order once in sold_quantity, unless one was broken off in the middle or the
\* admin wrote the status back.
THEOREM CountedOnce == ASSUME OneConfirmation PROVE Spec => []SoldOnce
<1>1. Init => TypeInv /\ FiniteInv /\ PaidInv /\ SoldInv
  <2>. SUFFICES ASSUME Init PROVE TypeInv /\ FiniteInv /\ PaidInv /\ SoldInv
    OBVIOUS
  <2>1. FiniteInv
    BY FS_EmptySet DEF Init, FiniteInv, NoOrder, Idle, Procs
  <2>2. \A h \in Hooks : InHand(h)
    BY DEF Init, InHand, Idle, Procs
  <2>3. ASSUME NEW p \in Products PROVE products[p].sold <= Total(TakenOf(p), Orders)
    <3>1. \A o \in Orders : TakenOf(p)[o] \in Nat
      BY <2>1, TypeInit, TakenSums
    <3>2. Total(TakenOf(p), Orders) \in Nat
      BY <3>1, KeysAreFinite, TotalSums
    <3>3. products[p].sold = 0
      BY DEF Init
    <3>. QED  BY <3>2, <3>3
  <2>4. PaidInv
    BY PaidInit
  <2>. QED  BY <2>1, <2>2, <2>3, <2>4, TypeInit DEF SoldInv
<1>2. TypeInv /\ FiniteInv /\ PaidInv /\ SoldInv /\ [Next]_vars
         => (TypeInv /\ FiniteInv /\ PaidInv /\ SoldInv)'
  <2>. SUFFICES ASSUME TypeInv, FiniteInv, PaidInv, SoldInv, [Next]_vars
       PROVE  (TypeInv /\ FiniteInv /\ PaidInv /\ SoldInv)'
    OBVIOUS
  <2>1. SoldInv'
    BY RequestsSell, HookSells, OthersSell DEF Next
  <2>. QED  BY <2>1, TypeStep, FiniteStep, PaidStep
<1>3. TypeInv /\ FiniteInv /\ PaidInv /\ SoldInv => SoldOnce
  <2>. SUFFICES ASSUME TypeInv, FiniteInv, PaidInv, SoldInv, Unbroken, NEW p \in Products
       PROVE  products[p].sold <= MapThenSumSet(LAMBDA o : Ordered(o, p), Paid)
    BY DEF SoldOnce, Unbroken
  <2>. PICK G : G = TakenOf(p)
    OBVIOUS
  <2>. PICK H : H = [o \in Paid |-> Ordered(o, p)]
    OBVIOUS
  <2>1. MapThenSumSet(LAMBDA o : Ordered(o, p), Paid) = Total(H, Paid)
    BY DEF Total, MapThenSumSet, MapThenFoldSet
  <2>2. ASSUME NEW o \in Orders
        PROVE  Ordered(o, p) = Total(Qty(p), orders[o].items)
    <3>. PICK S : S = orders[o].items
      OBVIOUS
    <3>. PICK Q : Q = [i \in S |-> Units(i, p)]
      OBVIOUS
    <3>1. S \subseteq Item /\ IsFiniteSet(S)
      BY TakenSums
    <3>2. Ordered(o, p) = Total(Q, S)
      BY ZenonT(60) DEF Ordered, Total, MapThenSumSet, MapThenFoldSet
    <3>3. \A i \in S : Qty(p)[i] \in Nat /\ Q[i] = Qty(p)[i]
      BY <3>1, TakenSums DEF Qty, Units
    <3>. QED  BY <3>1, <3>2, <3>3, TotalsAgree
  <2>3. ASSUME NEW o \in Orders
        PROVE  /\ G[o] \in Nat /\ Ordered(o, p) \in Nat /\ G[o] <= Ordered(o, p)
               /\ o \notin Paid => G[o] = 0
    <3>. PICK S : S = orders[o].items
      OBVIOUS
    <3>. PICK Q : Q = Qty(p)
      OBVIOUS
    <3>. PICK T : T = Taken(o)
      OBVIOUS
    <3>1. /\ S \subseteq Item /\ IsFiniteSet(S) /\ T \in SUBSET S /\ \A i \in Item : Q[i] \in Nat
          /\ G[o] = Total(Q, T) /\ G[o] \in Nat
      BY TakenSums
    <3>2. Total(Q, T) <= Total(Q, S) /\ Total(Q, S) \in Nat
      BY <3>1, TotalGrows, TotalSums
    <3>3. o \notin Paid => T = {}
      <4>1. ASSUME o \notin Paid, NEW h \in Hooks, proc[h].pc = "confirm_item", proc[h].o = o
            PROVE  FALSE
        BY <4>1 DEF PaidInv, Learnt, ConfirmPC, Paid, Procs
      <4>2. o \notin Paid => orders[o].status \in {"ABSENT", "PENDING"}
        BY DEF PaidInv, RowTrue, Paid, Unbroken
      <4>. QED  BY <4>1, <4>2 DEF Taken
    <3>4. Total(Q, {}) = 0
      BY <3>1, TotalSums
    <3>. QED  BY <2>2, <3>1, <3>2, <3>3, <3>4
  <2>4. Total(G, Orders) <= Total(H, Paid)
    <3>1. Paid \in SUBSET Orders
      BY DEF Paid
    <3>2. /\ \A o \in Orders : G[o] \in Nat
          /\ \A o \in Paid : H[o] \in Nat /\ G[o] <= H[o]
          /\ \A o \in Orders \ Paid : G[o] = 0
      BY <2>3, <3>1
    <3>. QED  BY <3>1, <3>2, KeysAreFinite, TotalIsNoLarger
  <2>5. products[p].sold <= Total(G, Orders) /\ products[p].sold \in Nat
    BY DEF SoldInv, TypeInv, MarketTypeOK, ProductRow
  <2>6. Total(G, Orders) \in Nat /\ Total(H, Paid) \in Nat
    <3>1. Paid \in SUBSET Orders /\ IsFiniteSet(Paid)
      BY KeysAreFinite, FS_Subset DEF Paid
    <3>2. (\A o \in Orders : G[o] \in Nat) /\ \A o \in Paid : H[o] \in Nat
      BY <2>3, <3>1
    <3>. QED  BY <3>1, <3>2, KeysAreFinite, TotalSums
  <2>. QED  BY <2>1, <2>4, <2>5, <2>6
<1>. QED
  BY <1>1, <1>2, <1>3, PTL DEF Spec
=============================================================================
