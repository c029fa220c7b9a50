---------------------------- MODULE LedgerProofs ----------------------------
(***************************************************************************)
(* The payment_transactions table never contradicts Stripe about money     *)
(* that moved: final statuses are facts, and only a captured payment is    *)
(* paid out or refunded.  The handlers write statuses several awaits after *)
(* they learnt them; the argument is that what they learnt is final.       *)
(***************************************************************************)
EXTENDS BookingPaymentProofs

Final == {"succeeded", "canceled"}

\* What a row says about its intent.
RowTrue(p) ==
    /\ payments[p].paid > 0 \/ payments[p].refunded => payments[p].intent = "succeeded"
    /\ payments[p].status \in {"captured", "succeeded", "refunded"}
          => payments[p].intent = "succeeded"
    /\ payments[p].status \in {"canceled", "cancelled"} => payments[p].intent = "canceled"
    /\ payments[p].status = "none" => payments[p].intent = "none"

\* An event in Stripe's queue, or in a webhook's hands, tells what happened.
Told(kind, p) == kind \in Final => payments[p].intent = kind

\* After the last capture of validateBookingToken.
Charged == {"val_transfer", "val_write", "val_tx", "val_offer_tx"}

\* What a handler has learnt about intents, and will write or act upon.
Learnt(l) ==
    /\ l.pc = "book_mark_old" => payments[l.q].intent = "canceled"
    /\ l.pc = "cancel_mark" => payments[l.p].intent = "canceled"
    /\ l.pc \in HookPC => Told(l.seen, l.p)
    /\ l.pc = "hook_captured" => payments[l.p].intent = "succeeded"
    /\ l.pc \in Charged \cup {"val_capture_offer"} => payments[l.p].intent = "succeeded"
    /\ l.pc \in Charged /\ l.q # None => payments[l.q].intent = "succeeded"
    /\ l.pc \in {"cron_settle", "cron_mark"} /\ l.seen = "charged"
          => payments[l.p].intent = "succeeded"
    /\ l.pc = "cron_mark" /\ l.seen # "charged" => payments[l.p].intent = "canceled"

LedgerInv ==
    /\ \A p \in Payments : RowTrue(p)
    /\ \A e \in events : Told(e.kind, e.p)
    /\ \A x \in Procs : Learnt(proc[x])

\* A step that keeps rows true and final intents final.
RowsKept ==
    /\ \A p \in Payments : RowTrue(p)'
    /\ \A p \in Payments : payments[p].intent \in Final => payments'[p].intent = payments[p].intent

-----------------------------------------------------------------------------
\* What was learnt before such a step is still true after it.
LEMMA ToldKept ==
  ASSUME RowsKept, NEW kind, NEW p \in Payments, Told(kind, p) PROVE Told(kind, p)'
  BY DEF RowsKept, Told

\* What any handler has learnt stays true over such a step.
LEMMA LearntKept ==
  ASSUME RowsKept, TypeInv, NEW x \in Procs, Learnt(proc[x]), proc'[x] = proc[x]
  PROVE  Learnt(proc[x])'
<1>1. proc[x] \in Local /\ Named(x, proc[x])
  BY DEF TypeInv, TypeOK
<1> DEFINE l == proc[x]
<1>2. l.q \in Payments \cup {None}
  BY <1>1 DEF Local
<1>3. \A p \in Payments : payments[p].intent \in Final => payments'[p].intent = payments[p].intent
  BY DEF RowsKept
<1>4. l.pc = "book_mark_old" => payments'[l.q].intent = "canceled"
  BY <1>1, <1>3 DEF Learnt, Named, OldPC, Final
<1>5. l.pc = "cancel_mark" => payments'[l.p].intent = "canceled"
  BY <1>1, <1>3 DEF Learnt, Named, Final
<1>6. l.pc \in HookPC => Told(l.seen, l.p)'
  BY <1>1, ToldKept DEF Learnt, Named, Told, RowsKept
<1>7. l.pc = "hook_captured" => payments'[l.p].intent = "succeeded"
  BY <1>1, <1>3 DEF Learnt, Named, HookPC, Final
<1>8. l.pc \in Charged \cup {"val_capture_offer"} => payments'[l.p].intent = "succeeded"
  BY <1>1, <1>3 DEF Learnt, Named, ValPC, Final, Charged
<1>9. l.pc \in Charged /\ l.q # None => payments'[l.q].intent = "succeeded"
  BY <1>1, <1>2, <1>3 DEF Learnt, Final
<1>10. l.pc \in {"cron_settle", "cron_mark"} /\ l.seen = "charged" => payments'[l.p].intent = "succeeded"
  BY <1>1, <1>3 DEF Learnt, Named, CronPC, Final
<1>11. l.pc = "cron_mark" /\ l.seen # "charged" => payments'[l.p].intent = "canceled"
  BY <1>1, <1>3 DEF Learnt, Named, CronPC, Final
<1>. QED
  BY <1>4, <1>5, <1>6, <1>7, <1>8, <1>9, <1>10, <1>11 DEF Learnt

\* A step of one handler keeps the invariant when the handler's own new locals and
\* any new event are true after it.
LEMMA StepKeeps ==
  ASSUME TypeInv, LedgerInv, RowsKept, NEW x \in Procs,
         \A y \in Procs \ {x} : proc'[y] = proc[y],
         proc'[x] = proc[x] \/ Learnt(proc[x])',
         \A e \in events' : e \in events \/ Told(e.kind, e.p)'
  PROVE  LedgerInv'
<1>1. \A p \in Payments : RowTrue(p)'
  BY DEF RowsKept
<1>2. ASSUME NEW e \in events' PROVE Told(e.kind, e.p)'
  <2>1. CASE e \in events
    <3>1. e.p \in Payments /\ Told(e.kind, e.p)
      BY <2>1 DEF TypeInv, TypeOK, Event, LedgerInv
    <3>. QED  BY <3>1, ToldKept
  <2>. QED  BY <1>2, <2>1
<1>3. ASSUME NEW y \in Procs PROVE Learnt(proc[y])'
  <2>1. Learnt(proc[y])
    BY DEF LedgerInv
  <2>2. CASE proc'[y] = proc[y]
    BY <2>1, <2>2, LearntKept
  <2>. QED  BY <2>2
<1>. QED
  BY <1>1, <1>2, <1>3 DEF LedgerInv

\* A handler that ends has learnt nothing.
LEMMA ReturnLearnt ==
  ASSUME TypeInv, NEW x \in Procs, Return(x)
  PROVE  Learnt(proc[x])' /\ \A y \in Procs \ {x} : proc'[y] = proc[y]
<1>1. proc'[x] = Idle /\ \A y \in Procs \ {x} : proc'[y] = proc[y]
  BY DEF Return, TypeInv, TypeOK
<1>2. Idle.pc = "idle"
  BY DEF Idle
<1>3. proc'[x].pc = "idle"
  BY <1>1, <1>2
<1>. QED
  BY <1>1, <1>3 DEF Learnt, HookPC, Charged

\* A handler that goes on keeps its other locals.
LEMMA GotoSame ==
  ASSUME TypeInv, NEW x \in Procs, NEW pc, Goto(x, pc)
  PROVE  /\ proc'[x].pc = pc /\ proc'[x].p = proc[x].p /\ proc'[x].q = proc[x].q
         /\ proc'[x].seen = proc[x].seen
         /\ \A y \in Procs \ {x} : proc'[y] = proc[y]
  BY DEF Goto, TypeInv, TypeOK, Local

-----------------------------------------------------------------------------
(* Each way of writing a payment row keeps rows true.                      *)

\* A step that writes no transaction row keeps the rows true.
LEMMA SameRows == ASSUME LedgerInv, UNCHANGED payments PROVE RowsKept
<1>1. \A p \in Payments : payments'[p] = payments[p]
  OBVIOUS
<1>2. \A p \in Payments : RowTrue(p)'
  BY <1>1 DEF LedgerInv, RowTrue
<1>. QED
  BY <1>1, <1>2 DEF RowsKept

\* A status is written when what it says has been learnt.
LEMMA SetTxRows ==
  ASSUME TypeInv, LedgerInv, NEW p \in Payments, NEW status, SetTx(p, status), status # "none",
         status \in {"captured", "succeeded", "refunded"} => payments[p].intent = "succeeded",
         status \in {"canceled", "cancelled"} => payments[p].intent = "canceled"
  PROVE  RowsKept
<1>1. payments[p] \in PaymentRow
  BY DEF TypeInv, TypeOK
<1>2. payments' = [payments EXCEPT ![p] = [payments[p] EXCEPT !.status = status]]
  BY DEF SetTx
<1>3. /\ payments'[p].status = status /\ payments'[p].intent = payments[p].intent
      /\ payments'[p].paid = payments[p].paid /\ payments'[p].refunded = payments[p].refunded
      /\ \A o \in Payments \ {p} : payments'[o] = payments[o]
  BY <1>1, <1>2 DEF TypeInv, TypeOK, PaymentRow
<1>4. RowTrue(p)'
  BY <1>3 DEF LedgerInv, RowTrue
<1>5. \A o \in Payments \ {p} : RowTrue(o)'
  BY <1>3 DEF LedgerInv, RowTrue
<1>. QED
  BY <1>3, <1>4, <1>5 DEF RowsKept

\* Stripe cancels only what is open or held.
LEMMA CancelIntentRows ==
  ASSUME TypeInv, LedgerInv, NEW p \in Payments, Cancelable(p), CancelIntent(p)
  PROVE  /\ RowsKept /\ payments'[p].intent = "canceled"
         /\ \A e \in events' : e \in events \/ Told(e.kind, e.p)'
<1>1. payments[p] \in PaymentRow
  BY DEF TypeInv, TypeOK
<1>2. payments' = [payments EXCEPT ![p] = [payments[p] EXCEPT !.intent = "canceled"]]
  BY DEF CancelIntent
<1>3. /\ payments'[p].intent = "canceled" /\ payments'[p].status = payments[p].status
      /\ payments'[p].paid = payments[p].paid /\ payments'[p].refunded = payments[p].refunded
      /\ \A o \in Payments \ {p} : payments'[o] = payments[o]
  BY <1>1, <1>2 DEF TypeInv, TypeOK, PaymentRow
<1>4. RowTrue(p)'
  BY <1>3 DEF LedgerInv, RowTrue, Cancelable
<1>5. \A o \in Payments \ {p} : RowTrue(o)'
  BY <1>3 DEF LedgerInv, RowTrue
<1>6. \A e \in events' : e \in events \/ Told(e.kind, e.p)'
  BY <1>3 DEF CancelIntent, EventsOf, Told
<1>7. payments[p].intent \notin Final
  BY DEF Cancelable, Final
<1>. QED
  BY <1>3, <1>4, <1>5, <1>6, <1>7 DEF RowsKept

\* A new payment starts open, in a row no one has learnt anything final about.
LEMMA NewRow ==
  ASSUME TypeInv, LedgerInv, NEW p \in Payments, payments[p].status = "none", NEW row,
         row.status = "pending", row.intent = "open", row.paid = 0, ~row.refunded,
         payments' = [payments EXCEPT ![p] = row]
  PROVE  RowsKept
<1>1. payments'[p] = row /\ \A o \in Payments \ {p} : payments'[o] = payments[o]
  BY DEF TypeInv, TypeOK
<1>2. RowTrue(p)'
  BY <1>1 DEF RowTrue
<1>3. \A o \in Payments \ {p} : RowTrue(o)'
  BY <1>1 DEF LedgerInv, RowTrue
<1>4. payments[p].intent = "none"
  BY DEF LedgerInv, RowTrue
<1>. QED
  BY <1>1, <1>2, <1>3, <1>4 DEF RowsKept, Final

\* A change of fields that say nothing about money that moved.
LEMMA PlainRow ==
  ASSUME TypeInv, LedgerInv, NEW p \in Payments,
         \A o \in Payments \ {p} : payments'[o] = payments[o],
         payments'[p].status = payments[p].status,
         payments[p].intent \in Final => payments'[p].intent = payments[p].intent,
         payments[p].intent = "none" => payments'[p].intent = "none",
         payments'[p].intent # "succeeded" =>
           /\ payments'[p].paid = payments[p].paid
           /\ payments'[p].refunded = payments[p].refunded
  PROVE  RowsKept
<1>1. RowTrue(p)'
  BY DEF LedgerInv, RowTrue, Final
<1>2. \A o \in Payments \ {p} : RowTrue(o)'
  BY DEF LedgerInv, RowTrue
<1>. QED
  BY <1>1, <1>2 DEF RowsKept

\* A step that changes one row whose intent it leaves, or moves to "succeeded".
LEMMA ChargedRow ==
  ASSUME TypeInv, LedgerInv, NEW p \in Payments,
         \A o \in Payments \ {p} : payments'[o] = payments[o],
         payments'[p].status = payments[p].status,
         payments[p].intent \notin {"none", "canceled"},
         payments'[p].intent = "succeeded"
  PROVE  RowsKept
<1>1. RowTrue(p)'
  BY DEF LedgerInv, RowTrue, Final
<1>2. \A o \in Payments \ {p} : RowTrue(o)'
  BY DEF LedgerInv, RowTrue
<1>3. \A o \in Payments : payments[o].intent \in Final => payments'[o].intent = payments[o].intent
  BY DEF Final
<1>. QED
  BY <1>1, <1>2, <1>3 DEF RowsKept

-----------------------------------------------------------------------------
(* The handlers                                                            *)

\* bookAppointment writes "cancelled" only after Stripe has canceled the intent.
LEMMA BookLedger ==
  ASSUME TypeInv, TypeInv', LedgerInv, NEW r \in Requests, Book(r) PROVE LedgerInv'
<1> USE DEF At
<1>0. r \in Procs /\ proc[r] \in Local /\ Named(r, proc[r]) /\ Learnt(proc[r])
  BY DEF Procs, TypeInv, TypeOK, LedgerInv
<1>1. ASSUME UNCHANGED payments, UNCHANGED events,
             proc'[r].pc \in {"book_write", "book_pay", "book_read_old", "book_cancel_old"},
             \A y \in Procs \ {r} : proc'[y] = proc[y]
      PROVE  LedgerInv'
  <2>1. Learnt(proc[r])'
    BY <1>1 DEF Learnt, HookPC, Charged, Told
  <2>. QED  BY <1>0, <1>1, <2>1, SameRows, StepKeeps
<1>2. ASSUME NEW pc \in {"book_pay", "book_cancel_old"}, Goto(r, pc),
             UNCHANGED payments, UNCHANGED events
      PROVE  LedgerInv'
  BY <1>0, <1>1, <1>2, GotoSame
<1>3. ASSUME NEW s \in Slots, NEW n \in Sizes, BookRead(r, s, n) PROVE LedgerInv'
  <2>1. PICK b \in Bookings \cup {None} : proc' = [proc EXCEPT ![r] =
          [Idle EXCEPT !.pc = "book_write", !.slot = s, !.b = b, !.n = n]]
    BY <1>3 DEF BookRead
  <2>2. proc'[r].pc = "book_write" /\ \A y \in Procs \ {r} : proc'[y] = proc[y]
    BY <1>0, <2>1 DEF Idle, TypeInv, TypeOK
  <2>. QED  BY <1>1, <1>3, <2>2 DEF BookRead
<1>4. CASE BookCreate(r)
  <2>1. PICK b \in Bookings : proc' = [proc EXCEPT ![r] = [@ EXCEPT !.pc = "book_pay", !.b = b]]
    BY <1>4 DEF BookCreate
  <2>2. proc'[r].pc = "book_pay" /\ \A y \in Procs \ {r} : proc'[y] = proc[y]
    BY <1>0, <2>1 DEF TypeInv, TypeOK, Local
  <2>. QED  BY <1>1, <1>4, <2>2 DEF BookCreate
<1>5. CASE BookUpdate(r)
  <2>1. PICK pc \in {"book_pay", "book_read_old"} :
          proc' = [proc EXCEPT ![r] = [@ EXCEPT !.q = bookings[proc[r].b].tx, !.pc = pc]]
    BY <1>5 DEF BookUpdate
  <2>2. proc'[r].pc = pc /\ \A y \in Procs \ {r} : proc'[y] = proc[y]
    BY <1>0, <2>1 DEF TypeInv, TypeOK, Local
  <2>. QED  BY <1>1, <1>5, <2>2 DEF BookUpdate
<1>6. CASE BookReadOld(r)
  BY <1>2, <1>6 DEF BookReadOld
<1>7. CASE BookCancelOld(r)
  <2>1. proc[r].q \in Payments
    BY <1>0, <1>7 DEF BookCancelOld, Named, OldPC
  <2>2. CASE Cancelable(proc[r].q) /\ CancelIntent(proc[r].q) /\ Goto(r, "book_mark_old")
    <3>1. /\ RowsKept /\ payments'[proc[r].q].intent = "canceled"
          /\ \A e \in events' : e \in events \/ Told(e.kind, e.p)'
      BY <2>1, <2>2, CancelIntentRows
    <3>2. /\ proc'[r].pc = "book_mark_old" /\ proc'[r].q = proc[r].q
          /\ \A y \in Procs \ {r} : proc'[y] = proc[y]
      BY <1>0, <2>2, GotoSame
    <3>3. Learnt(proc[r])'
      BY <3>1, <3>2 DEF Learnt, HookPC, Charged
    <3>. QED  BY <1>0, <3>1, <3>2, <3>3, StepKeeps
  <2>. QED  BY <1>2, <1>7, <2>2 DEF BookCancelOld
<1>8. CASE BookMarkOld(r)
  <2>1. proc[r].q \in Payments /\ payments[proc[r].q].intent = "canceled"
    BY <1>0, <1>8 DEF BookMarkOld, Named, OldPC, Learnt
  <2>2. RowsKept
    BY <1>8, <2>1, SetTxRows DEF BookMarkOld
  <2>3. Learnt(proc[r])' /\ \A y \in Procs \ {r} : proc'[y] = proc[y]
    BY <1>0, <1>8, GotoSame DEF BookMarkOld, Learnt, HookPC, Charged
  <2>. QED  BY <1>0, <1>8, <2>2, <2>3, StepKeeps DEF BookMarkOld
<1>9. CASE BookPay(r)
  <2>1. PICK p \in Payments :
          /\ payments[p].status = "none"
          /\ payments' = [payments EXCEPT ![p] = [NoPayment EXCEPT !.type = "booking",
                !.booking = proc[r].b, !.amount = Price[proc[r].n], !.status = "pending",
                !.intent = "open"]]
          /\ proc' = [proc EXCEPT ![r] = [@ EXCEPT !.pc = "book_link", !.p = p]]
    BY <1>9 DEF BookPay
  <2>2. RowsKept
    <3> DEFINE row == [NoPayment EXCEPT !.type = "booking", !.booking = proc[r].b,
                         !.amount = Price[proc[r].n], !.status = "pending", !.intent = "open"]
    <3>1. row.status = "pending" /\ row.intent = "open" /\ row.paid = 0 /\ ~row.refunded
      BY DEF NoPayment
    <3>2. payments[p].status = "none" /\ payments' = [payments EXCEPT ![p] = row]
      BY <2>1
    <3> HIDE DEF row
    <3>. QED  BY <3>1, <3>2, NewRow
  <2>3. proc'[r].pc = "book_link" /\ \A y \in Procs \ {r} : proc'[y] = proc[y]
    BY <1>0, <2>1 DEF TypeInv, TypeOK, Local
  <2>4. Learnt(proc[r])'
    BY <2>3 DEF Learnt, HookPC, Charged
  <2>. QED  BY <1>0, <1>9, <2>2, <2>3, <2>4, StepKeeps DEF BookPay
<1>10. CASE BookLink(r)
  <2>1. proc[r].p \in Payments
    BY <1>0, <1>10 DEF BookLink, Named
  <2>2. payments[proc[r].p] \in PaymentRow
    BY <2>1 DEF TypeInv, TypeOK
  <2>3. payments' = [payments EXCEPT ![proc[r].p] = [payments[proc[r].p] EXCEPT !.secret = TRUE]]
    BY <1>10 DEF BookLink
  <2>4. /\ \A o \in Payments \ {proc[r].p} : payments'[o] = payments[o]
        /\ payments'[proc[r].p].status = payments[proc[r].p].status
        /\ payments'[proc[r].p].intent = payments[proc[r].p].intent
        /\ payments'[proc[r].p].paid = payments[proc[r].p].paid
        /\ payments'[proc[r].p].refunded = payments[proc[r].p].refunded
    BY <2>1, <2>2, <2>3 DEF TypeInv, TypeOK, PaymentRow
  <2>5. RowsKept
    BY <2>1, <2>4, PlainRow
  <2>. QED  BY <1>0, <1>10, <2>5, ReturnLearnt, StepKeeps DEF BookLink
<1>. QED
  BY <1>3, <1>4, <1>5, <1>6, <1>7, <1>8, <1>9, <1>10 DEF Book

\* The webhook writes what the event says.
LEMMA HookLedger ==
  ASSUME TypeInv, TypeInv', LedgerInv, NEW h \in Hooks, Hook(h) PROVE LedgerInv'
<1> USE DEF At
<1>0. h \in Procs /\ proc[h] \in Local /\ Named(h, proc[h]) /\ Learnt(proc[h])
  BY DEF Procs, TypeInv, TypeOK, LedgerInv
<1>1. ASSUME NEW p \in Payments, HookCapturable(h, p) PROVE LedgerInv'
  <2>1. PICK b \in LinkedTo(p), pc \in {"hook_authorized", "hook_confirm"} :
          proc' = [proc EXCEPT ![h] =
             [Idle EXCEPT !.p = p, !.b = b, !.seen = "capturable", !.pc = pc]]
    BY <1>1 DEF HookCapturable
  <2>2. /\ proc'[h].pc = pc /\ proc'[h].seen = "capturable"
        /\ \A y \in Procs \ {h} : proc'[y] = proc[y]
    BY <1>0, <2>1 DEF TypeInv, TypeOK, Idle
  <2>3. Learnt(proc[h])'
    BY <2>2 DEF Learnt, Charged, Told, Final
  <2>4. RowsKept
    BY <1>1, SameRows DEF HookCapturable
  <2>. QED  BY <1>0, <1>1, <2>2, <2>3, <2>4, StepKeeps DEF HookCapturable, Deliver
<1>2. ASSUME NEW p \in Payments, NEW kind \in EventKind, NEW status \in TxStatus \ {"none"},
             NEW next \in {"idle", "hook_captured", "hook_find"},
             HookUpdateTx(h, p, kind, status, next),
             status \in {"captured", "succeeded", "refunded"} => kind = "succeeded",
             status \in {"canceled", "cancelled"} => kind = "canceled",
             next = "hook_captured" => kind = "succeeded"
      PROVE  LedgerInv'
  <2>1. EventsOf(p, kind) \in events
    BY <1>2 DEF HookUpdateTx, Deliver
  <2>2. Told(kind, p)
    BY <2>1 DEF LedgerInv, EventsOf
  <2>3. RowsKept
    BY <1>2, <2>2, SetTxRows DEF HookUpdateTx, Told, Final
  <2>4. \A y \in Procs \ {h} : proc'[y] = proc[y]
    BY <1>2 DEF HookUpdateTx, TypeInv, TypeOK
  <2>5. Learnt(proc[h])'
    <3>1. Told(kind, p)'
      BY <2>2, <2>3, ToldKept
    <3>2. CASE next = "idle"
      <4>1. proc'[h] = Idle
        BY <1>0, <1>2, <3>2 DEF HookUpdateTx, TypeInv, TypeOK
      <4>2. Idle.pc = "idle"
        BY DEF Idle
      <4>3. proc'[h].pc = "idle"
        BY <4>1, <4>2
      <4>. QED  BY <4>3 DEF Learnt, HookPC, Charged
    <3>3. CASE next # "idle"
      <4>1. proc'[h].pc = next /\ proc'[h].p = p /\ proc'[h].seen = kind
        BY <1>0, <1>2, <3>3 DEF HookUpdateTx, TypeInv, TypeOK, Idle
      <4>. QED  BY <1>2, <3>1, <3>3, <4>1 DEF Learnt, HookPC, Charged, Told, Final
    <3>. QED  BY <3>2, <3>3
  <2>. QED  BY <1>0, <1>2, <2>3, <2>4, <2>5, StepKeeps DEF HookUpdateTx, Deliver
<1>3. ASSUME NEW p \in Payments,
             HookSucceeded(h, p) \/ HookFailed(h, p) \/ HookCanceled(h, p) \/ HookRequiresAction(h, p)
      PROVE  LedgerInv'
  BY <1>2, <1>3
  DEF HookSucceeded, HookFailed, HookCanceled, HookRequiresAction, EventKind, TxStatus
<1>4. CASE HookConfirm(h)
  <2>1. Learnt(proc[h])' /\ \A y \in Procs \ {h} : proc'[y] = proc[y]
    BY <1>0, <1>4, GotoSame DEF HookConfirm, Learnt, HookPC, Charged, Told
  <2>. QED  BY <1>0, <1>4, <2>1, SameRows, StepKeeps DEF HookConfirm
<1>5. CASE HookAuthorized(h)
  <2>1. proc[h].p \in Payments
    BY <1>0, <1>5 DEF HookAuthorized, Named, HookPC
  <2>2. RowsKept
    BY <1>5, <2>1, SetTxRows DEF HookAuthorized
  <2>. QED  BY <1>0, <1>5, <2>2, ReturnLearnt, StepKeeps DEF HookAuthorized
<1>6. CASE HookCaptured(h)
  <2>1. proc[h].p \in Payments /\ payments[proc[h].p].intent = "succeeded"
    BY <1>0, <1>6 DEF HookCaptured, Named, HookPC, Learnt
  <2>2. RowsKept
    BY <1>6, <2>1, SetTxRows DEF HookCaptured
  <2>. QED  BY <1>0, <1>6, <2>2, ReturnLearnt, StepKeeps DEF HookCaptured
<1>7. CASE HookFind(h)
  <2>1. CASE Return(h)
    BY <1>0, <1>7, <2>1, SameRows, ReturnLearnt, StepKeeps DEF HookFind
  <2>2. ASSUME NEW b \in LinkedTo(proc[h].p),
               proc' = [proc EXCEPT ![h] = [@ EXCEPT !.pc = "hook_void", !.b = b]]
        PROVE  LedgerInv'
    <3>1. /\ proc'[h].pc = "hook_void" /\ proc'[h].p = proc[h].p /\ proc'[h].seen = proc[h].seen
          /\ \A y \in Procs \ {h} : proc'[y] = proc[y]
      BY <1>0, <2>2 DEF TypeInv, TypeOK, Local
    <3>2. Learnt(proc[h])'
      BY <1>0, <1>7, <3>1 DEF HookFind, Learnt, HookPC, Charged, Told
    <3>. QED  BY <1>0, <1>7, <3>1, <3>2, SameRows, StepKeeps DEF HookFind
  <2>. QED  BY <1>7, <2>1, <2>2 DEF HookFind
<1>8. CASE HookVoid(h)
  BY <1>0, <1>8, SameRows, ReturnLearnt, StepKeeps DEF HookVoid
<1>. QED
  BY <1>1, <1>3, <1>4, <1>5, <1>6, <1>7, <1>8 DEF Hook, HookBegin, HookContinue

\* So does cancelBooking.
LEMMA CancelLedger ==
  ASSUME TypeInv, TypeInv', LedgerInv, NEW r \in Requests, Cancel(r) PROVE LedgerInv'
<1> USE DEF At
<1>0. r \in Procs /\ proc[r] \in Local /\ Named(r, proc[r]) /\ Learnt(proc[r])
  BY DEF Procs, TypeInv, TypeOK, LedgerInv
<1>1. ASSUME Return(r), UNCHANGED payments, UNCHANGED events PROVE LedgerInv'
  BY <1>0, <1>1, SameRows, ReturnLearnt, StepKeeps
<1>2. ASSUME NEW pc \in {"cancel_read_tx", "cancel_release"}, Goto(r, pc),
             UNCHANGED payments, UNCHANGED events
      PROVE  LedgerInv'
  <2>1. Learnt(proc[r])' /\ \A y \in Procs \ {r} : proc'[y] = proc[y]
    BY <1>0, <1>2, GotoSame DEF Learnt, HookPC, Charged, Told
  <2>. QED  BY <1>0, <1>2, <2>1, SameRows, StepKeeps
<1>3. ASSUME NEW b \in Bookings, CancelRead(r, b) PROVE LedgerInv'
  <2>1. proc'[r].pc = "cancel_write" /\ \A y \in Procs \ {r} : proc'[y] = proc[y]
    BY <1>0, <1>3 DEF CancelRead, TypeInv, TypeOK, Idle
  <2>2. Learnt(proc[r])'
    BY <2>1 DEF Learnt, HookPC, Charged, Told
  <2>. QED  BY <1>0, <1>3, <2>1, <2>2, SameRows, StepKeeps DEF CancelRead
<1>4. CASE CancelWrite(r)
  BY <1>1, <1>2, <1>4 DEF CancelWrite
<1>5. CASE CancelReadTx(r)
  BY <1>1, <1>2, <1>5 DEF CancelReadTx
<1>6. CASE CancelRelease(r)
  <2>1. proc[r].p \in Payments
    BY <1>0, <1>6 DEF CancelRelease, Named
  <2>2. CASE Cancelable(proc[r].p) /\ CancelIntent(proc[r].p) /\ Goto(r, "cancel_mark")
    <3>1. /\ RowsKept /\ payments'[proc[r].p].intent = "canceled"
          /\ \A e \in events' : e \in events \/ Told(e.kind, e.p)'
      BY <2>1, <2>2, CancelIntentRows
    <3>2. /\ proc'[r].pc = "cancel_mark" /\ proc'[r].p = proc[r].p
          /\ \A y \in Procs \ {r} : proc'[y] = proc[y]
      BY <1>0, <2>2, GotoSame
    <3>3. Learnt(proc[r])'
      BY <3>1, <3>2 DEF Learnt, HookPC, Charged, Told
    <3>. QED  BY <1>0, <3>1, <3>2, <3>3, StepKeeps
  <2>. QED  BY <1>1, <1>6, <2>2 DEF CancelRelease
<1>7. CASE CancelMark(r)
  <2>1. proc[r].p \in Payments /\ payments[proc[r].p].intent = "canceled"
    BY <1>0, <1>7 DEF CancelMark, Named, Learnt
  <2>2. RowsKept
    BY <1>7, <2>1, SetTxRows DEF CancelMark
  <2>. QED  BY <1>0, <1>7, <2>2, ReturnLearnt, StepKeeps DEF CancelMark
<1>. QED
  BY <1>3, <1>4, <1>5, <1>6, <1>7 DEF Cancel

\* validateBookingToken transfers after the captures it waited for.
LEMMA ValidateLedger ==
  ASSUME TypeInv, TypeInv', LedgerInv, NEW r \in Requests, Validate(r) PROVE LedgerInv'
<1> USE DEF At
<1>0. r \in Procs /\ proc[r] \in Local /\ Named(r, proc[r]) /\ Learnt(proc[r])
      /\ proc[r].q \in Payments \cup {None}
  BY DEF Procs, TypeInv, TypeOK, LedgerInv, Local
<1>1. ASSUME Return(r), UNCHANGED payments, UNCHANGED events PROVE LedgerInv'
  BY <1>0, <1>1, SameRows, ReturnLearnt, StepKeeps
<1>2. ASSUME NEW b \in Bookings, ValidateRead(r, b) PROVE LedgerInv'
  <2>1. PICK seen \in {"bare", "token"} : proc' = [proc EXCEPT ![r] =
          [Idle EXCEPT !.pc = "val_check", !.b = b, !.p = bookings[b].tx,
             !.q = bookings[b].offerTx, !.n = bookings[b].n, !.done = bookings[b].done,
             !.seen = seen]]
    BY <1>2 DEF ValidateRead
  <2>2. proc'[r].pc = "val_check" /\ \A y \in Procs \ {r} : proc'[y] = proc[y]
    BY <1>0, <2>1 DEF TypeInv, TypeOK, Idle
  <2>3. Learnt(proc[r])'
    BY <2>2 DEF Learnt, HookPC, Charged, Told
  <2>. QED  BY <1>0, <1>2, <2>2, <2>3, SameRows, StepKeeps DEF ValidateRead
<1>3. CASE ValidateCheck(r)
  <2>1. CASE Goto(r, "val_capture")
    <3>1. Learnt(proc[r])' /\ \A y \in Procs \ {r} : proc'[y] = proc[y]
      BY <1>0, <2>1, GotoSame DEF Learnt, HookPC, Charged, Told
    <3>. QED  BY <1>0, <1>3, <3>1, SameRows, StepKeeps DEF ValidateCheck
  <2>. QED  BY <1>1, <1>3, <2>1 DEF ValidateCheck
<1>4. ASSUME NEW p \in Payments, NEW next \in {"val_transfer", "val_capture_offer"},
             Capture(r, p, next),
             proc[r].p # p => payments[proc[r].p].intent = "succeeded" /\ proc[r].p \in Payments,
             next = "val_transfer" /\ proc[r].q # None => proc[r].q = p
      PROVE  LedgerInv'
  <2>1. payments[p] \in PaymentRow
    BY DEF TypeInv, TypeOK
  <2>2. CASE payments[p].intent \in {"held", "succeeded"}
    <3>1. Goto(r, next)
      BY <1>4, <2>2 DEF Capture
    <3>2. /\ RowsKept /\ payments'[p].intent = "succeeded"
          /\ \A e \in events' : e \in events \/ Told(e.kind, e.p)'
      <4>1. CASE payments[p].intent = "held"
        <5>1. /\ payments' = [payments EXCEPT ![p] = [payments[p] EXCEPT !.intent = "succeeded"]]
              /\ events' = events \cup {EventsOf(p, "succeeded")}
          BY <1>4, <4>1 DEF Capture
        <5>2. /\ payments'[p].intent = "succeeded" /\ payments'[p].status = payments[p].status
              /\ \A o \in Payments \ {p} : payments'[o] = payments[o]
          BY <2>1, <5>1 DEF TypeInv, TypeOK, PaymentRow
        <5>3. RowsKept
          <6>1. payments[p].intent \notin {"none", "canceled"}
            BY <4>1
          <6>. QED  BY <5>2, <6>1, ChargedRow
        <5>. QED  BY <5>1, <5>2, <5>3 DEF EventsOf, Told
      <4>2. CASE payments[p].intent = "succeeded"
        BY <1>4, <4>2, SameRows DEF Capture
      <4>. QED  BY <2>2, <4>1, <4>2
    <3>3. /\ proc'[r].pc = next /\ proc'[r].p = proc[r].p /\ proc'[r].q = proc[r].q
          /\ \A y \in Procs \ {r} : proc'[y] = proc[y]
      BY <1>0, <3>1, GotoSame
    <3>4. payments'[proc[r].p].intent = "succeeded"
      BY <1>4, <3>2 DEF RowsKept, Final
    <3>5. Learnt(proc[r])'
      BY <1>4, <3>2, <3>3, <3>4 DEF Learnt, HookPC, Charged, Told
    <3>. QED  BY <1>0, <3>2, <3>3, <3>5, StepKeeps
  <2>3. CASE payments[p].intent \notin {"held", "succeeded"}
    BY <1>1, <1>4, <2>3 DEF Capture
  <2>. QED  BY <2>2, <2>3
<1>5. CASE ValidateCapture(r)
  <2>1. proc[r].p \in Payments
    BY <1>0, <1>5 DEF ValidateCapture, Named, ValPC
  <2>2. CASE proc[r].q = None
    BY <1>4, <1>5, <2>1, <2>2 DEF ValidateCapture
  <2>3. CASE proc[r].q # None
    BY <1>4, <1>5, <2>1, <2>3 DEF ValidateCapture
  <2>. QED  BY <2>2, <2>3
<1>6. CASE ValidateCaptureOffer(r)
  <2>1. /\ proc[r].q \in Payments /\ proc[r].p \in Payments
        /\ payments[proc[r].p].intent = "succeeded"
    BY <1>0, <1>6 DEF ValidateCaptureOffer, Named, ValPC, Learnt
  <2>. QED  BY <1>4, <1>6, <2>1 DEF ValidateCaptureOffer
<1>7. CASE ValidateTransfer(r)
  <2>1. /\ proc[r].p \in Payments /\ payments[proc[r].p].intent = "succeeded"
        /\ proc[r].q # None => payments[proc[r].q].intent = "succeeded"
    BY <1>0, <1>7 DEF ValidateTransfer, Named, ValPC, Learnt, Charged
  <2>2. PICK seen \in {"created", "failed"} :
          proc' = [proc EXCEPT ![r] = [@ EXCEPT !.pc = "val_write", !.seen = seen]]
    BY <1>7 DEF ValidateTransfer
  <2>3. /\ proc'[r].pc = "val_write" /\ proc'[r].p = proc[r].p /\ proc'[r].q = proc[r].q
        /\ \A y \in Procs \ {r} : proc'[y] = proc[y]
    BY <1>0, <2>2 DEF TypeInv, TypeOK, Local
  <2>4. \A p \in Payments : /\ payments'[p].intent = payments[p].intent
                            /\ payments'[p].status = payments[p].status
                            /\ payments'[p].refunded = payments[p].refunded
                            /\ p \notin {proc[r].p, proc[r].q} => payments'[p] = payments[p]
    BY <1>7 DEF ValidateTransfer, TypeInv, TypeOK, PaymentRow
  <2>5. ASSUME NEW p \in Payments PROVE RowTrue(p)'
    <3>1. CASE p \in {proc[r].p, proc[r].q}
      <4>1. payments[p].intent = "succeeded"
        BY <2>1, <3>1, NoneIsNoKey
      <4>. QED  BY <2>4, <4>1 DEF LedgerInv, RowTrue
    <3>2. CASE p \notin {proc[r].p, proc[r].q}
      BY <2>4, <3>2 DEF LedgerInv, RowTrue
    <3>. QED  BY <3>1, <3>2
  <2>6. RowsKept
    BY <2>4, <2>5 DEF RowsKept
  <2>7. Learnt(proc[r])'
    BY <1>0, <2>1, <2>3, <2>4 DEF Learnt, HookPC, Charged, Told
  <2>. QED  BY <1>0, <1>7, <2>3, <2>6, <2>7, StepKeeps DEF ValidateTransfer
<1>8. CASE ValidateWrite(r)
  <2>1. Learnt(proc[r])' /\ \A y \in Procs \ {r} : proc'[y] = proc[y]
    BY <1>0, <1>8, GotoSame DEF ValidateWrite, Learnt, HookPC, Charged, Told
  <2>. QED  BY <1>0, <1>8, <2>1, SameRows, StepKeeps DEF ValidateWrite
<1>9. ASSUME NEW p \in Payments, MarkTransfer(r, p), payments[p].intent = "succeeded"
      PROVE  RowsKept /\ payments'[p].intent = "succeeded"
  <2>1. payments[p] \in PaymentRow
    BY DEF TypeInv, TypeOK
  <2>2. /\ payments'[p].status = "captured" /\ payments'[p].intent = "succeeded"
        /\ \A o \in Payments \ {p} : payments'[o] = payments[o]
    BY <1>9, <2>1 DEF MarkTransfer, TypeInv, TypeOK, PaymentRow
  <2>3. RowTrue(p)'
    BY <2>2 DEF RowTrue
  <2>4. \A o \in Payments \ {p} : RowTrue(o)'
    BY <2>2 DEF LedgerInv, RowTrue
  <2>. QED  BY <1>9, <2>2, <2>3, <2>4 DEF RowsKept
<1>10. CASE ValidateTx(r)
  <2>1. /\ proc[r].p \in Payments /\ payments[proc[r].p].intent = "succeeded"
        /\ proc[r].q # None => payments[proc[r].q].intent = "succeeded"
    BY <1>0, <1>10 DEF ValidateTx, Named, ValPC, Learnt, Charged
  <2>2. RowsKept /\ payments'[proc[r].p].intent = "succeeded"
    BY <1>9, <1>10, <2>1 DEF ValidateTx
  <2>3. CASE Return(r)
    BY <1>0, <1>10, <2>2, <2>3, ReturnLearnt, StepKeeps DEF ValidateTx
  <2>4. CASE proc[r].q # None /\ Goto(r, "val_offer_tx")
    <3>1. payments'[proc[r].q].intent = "succeeded"
      BY <1>0, <2>1, <2>2, <2>4 DEF RowsKept, Final
    <3>2. Learnt(proc[r])' /\ \A y \in Procs \ {r} : proc'[y] = proc[y]
      BY <1>0, <2>2, <2>4, <3>1, GotoSame DEF Learnt, HookPC, Charged, Told
    <3>. QED  BY <1>0, <1>10, <2>2, <3>2, StepKeeps DEF ValidateTx
  <2>. QED  BY <1>10, <2>3, <2>4 DEF ValidateTx
<1>11. CASE ValidateOfferTx(r)
  <2>1. proc[r].q \in Payments /\ payments[proc[r].q].intent = "succeeded"
    BY <1>0, <1>11, NoneIsNoKey DEF ValidateOfferTx, Named, Learnt, Charged
  <2>2. RowsKept
    BY <1>9, <1>11, <2>1 DEF ValidateOfferTx
  <2>. QED  BY <1>0, <1>11, <2>2, ReturnLearnt, StepKeeps DEF ValidateOfferTx
<1>. QED
  BY <1>2, <1>3, <1>5, <1>6, <1>7, <1>8, <1>10, <1>11
    DEF Validate, ValidateCaptures, ValidateTxs

\* The expiry job marks a transaction after Stripe has settled it.
LEMMA CronLedger == ASSUME TypeInv, TypeInv', LedgerInv, ExpiryJob PROVE LedgerInv'
<1> USE DEF At
<1>0. Cron \in Procs /\ proc[Cron] \in Local /\ Named(Cron, proc[Cron]) /\ Learnt(proc[Cron])
  BY DEF Procs, TypeInv, TypeOK, LedgerInv
<1>1. CASE CronSelect
  BY <1>0, <1>1, SameRows, StepKeeps DEF CronSelect
<1>2. CASE CronPick
  <2>1. PICK job \in due : proc' = [proc EXCEPT ![Cron] =
          [Idle EXCEPT !.pc = "cron_settle", !.b = job[1], !.p = job[2],
             !.seen = IF payments[job[2]].intent = "succeeded" THEN "charged" ELSE "hold"]]
    BY <1>2 DEF CronPick
  <2>2. /\ proc'[Cron].pc = "cron_settle" /\ proc'[Cron].p = job[2]
        /\ proc'[Cron].seen = "charged" => payments[job[2]].intent = "succeeded"
        /\ \A y \in Procs \ {Cron} : proc'[y] = proc[y]
    BY <1>0, <2>1 DEF TypeInv, TypeOK, Idle
  <2>3. Learnt(proc[Cron])'
    BY <1>2, <2>2 DEF CronPick, Learnt, HookPC, Charged
  <2>. QED  BY <1>0, <1>2, <2>2, <2>3, SameRows, StepKeeps DEF CronPick
<1>3. CASE CronSettle
  <2>1. proc[Cron].p \in Payments /\ payments[proc[Cron].p] \in PaymentRow
    BY <1>0, <1>3 DEF CronSettle, Named, CronPC, TypeInv, TypeOK
  <2>2. CASE /\ proc[Cron].seen = "charged" /\ Goto(Cron, "cron_mark") /\ events' = events
             /\ payments' = [payments EXCEPT ![proc[Cron].p].refunded = TRUE]
    <3>1. payments[proc[Cron].p].intent = "succeeded"
      BY <1>0, <1>3, <2>2 DEF CronSettle, Learnt
    <3>2. /\ payments'[proc[Cron].p].intent = "succeeded"
          /\ payments'[proc[Cron].p].status = payments[proc[Cron].p].status
          /\ \A o \in Payments \ {proc[Cron].p} : payments'[o] = payments[o]
      BY <2>1, <2>2, <3>1 DEF TypeInv, TypeOK, PaymentRow
    <3>3. RowsKept
      <4>1. payments[proc[Cron].p].intent \notin {"none", "canceled"}
        BY <3>1
      <4>. QED  BY <2>1, <3>2, <4>1, ChargedRow
    <3>4. /\ proc'[Cron].pc = "cron_mark" /\ proc'[Cron].p = proc[Cron].p
          /\ proc'[Cron].seen = "charged"
          /\ \A y \in Procs \ {Cron} : proc'[y] = proc[y]
      BY <1>0, <2>2, GotoSame
    <3>5. Learnt(proc[Cron])'
      BY <3>2, <3>4 DEF Learnt, HookPC, Charged
    <3>. QED  BY <1>0, <2>2, <3>3, <3>4, <3>5, StepKeeps
  <2>3. CASE /\ proc[Cron].seen = "hold" /\ Cancelable(proc[Cron].p)
             /\ CancelIntent(proc[Cron].p) /\ Goto(Cron, "cron_mark")
    <3>1. /\ RowsKept /\ payments'[proc[Cron].p].intent = "canceled"
          /\ \A e \in events' : e \in events \/ Told(e.kind, e.p)'
      BY <2>1, <2>3, CancelIntentRows
    <3>2. /\ proc'[Cron].pc = "cron_mark" /\ proc'[Cron].p = proc[Cron].p
          /\ proc'[Cron].seen = "hold"
          /\ \A y \in Procs \ {Cron} : proc'[y] = proc[y]
      BY <1>0, <2>3, GotoSame
    <3>3. Learnt(proc[Cron])'
      BY <3>1, <3>2 DEF Learnt, HookPC, Charged
    <3>. QED  BY <1>0, <3>1, <3>2, <3>3, StepKeeps
  <2>4. CASE Return(Cron) /\ UNCHANGED <<payments, events>>
    BY <1>0, <2>4, SameRows, ReturnLearnt, StepKeeps
  <2>. QED  BY <1>3, <2>2, <2>3, <2>4 DEF CronSettle
<1>4. CASE CronMark
  <2>1. proc[Cron].p \in Payments
    BY <1>0, <1>4 DEF CronMark, Named, CronPC
  <2>2. RowsKept
    <3>1. CASE proc[Cron].seen = "charged"
      BY <1>0, <1>4, <2>1, <3>1, SetTxRows DEF CronMark, Learnt
    <3>2. CASE proc[Cron].seen # "charged"
      BY <1>0, <1>4, <2>1, <3>2, SetTxRows DEF CronMark, Learnt
    <3>. QED  BY <3>1, <3>2
  <2>3. Learnt(proc[Cron])' /\ \A y \in Procs \ {Cron} : proc'[y] = proc[y]
    BY <1>0, <1>4, GotoSame DEF CronMark, Learnt, HookPC, Charged
  <2>. QED  BY <1>0, <1>4, <2>2, <2>3, StepKeeps DEF CronMark
<1>5. CASE CronVoid
  BY <1>0, <1>5, SameRows, ReturnLearnt, StepKeeps DEF CronVoid
<1>. QED
  BY <1>1, <1>2, <1>3, <1>4, <1>5 DEF ExpiryJob

\* The card, Stripe, an edit and a handler that stops tell nothing false.
LEMMA OthersLedger ==
  ASSUME TypeInv, TypeInv', LedgerInv,
         \/ Environment
         \/ ByHand
         \/ \E r \in Requests : RequestStops(r)
         \/ \E h \in Hooks : HookStops(h)
         \/ CronStops
  PROVE  LedgerInv'
<1>0. Cron \in Procs
  BY DEF Procs
<1>1. ASSUME NEW p \in Payments, Authorize(p) PROVE LedgerInv'
  <2>1. payments[p] \in PaymentRow
    BY DEF TypeInv, TypeOK
  <2>2. /\ payments'[p].intent = "held" /\ payments'[p].status = payments[p].status
        /\ payments'[p].paid = payments[p].paid /\ payments'[p].refunded = payments[p].refunded
        /\ \A o \in Payments \ {p} : payments'[o] = payments[o]
    BY <1>1, <2>1 DEF Authorize, TypeInv, TypeOK, PaymentRow
  <2>3. payments[p].intent \notin Final /\ payments[p].intent # "none"
    BY <1>1 DEF Authorize, Final
  <2>4. RowsKept
    BY <2>2, <2>3, PlainRow
  <2>5. \A e \in events' : e \in events \/ Told(e.kind, e.p)'
    BY <1>1 DEF Authorize, EventsOf, Told, Final
  <2>. QED  BY <1>0, <1>1, <2>4, <2>5, StepKeeps DEF Authorize
<1>2. ASSUME NEW p \in Payments, DeclineOrChallenge(p) PROVE LedgerInv'
  <2>1. \A e \in events' : e \in events \/ Told(e.kind, e.p)'
    BY <1>2 DEF DeclineOrChallenge, EventsOf, Told, Final
  <2>. QED  BY <1>0, <1>2, <2>1, SameRows, StepKeeps DEF DeclineOrChallenge
<1>3. ASSUME NEW p \in Payments, HoldLapses(p) PROVE LedgerInv'
  <2>1. RowsKept /\ \A e \in events' : e \in events \/ Told(e.kind, e.p)'
    BY <1>3, CancelIntentRows DEF HoldLapses, Cancelable
  <2>. QED  BY <1>0, <1>3, <2>1, StepKeeps DEF HoldLapses
<1>4. ASSUME NEW b \in Bookings, TokenExpires(b) PROVE LedgerInv'
  BY <1>0, <1>4, SameRows, StepKeeps DEF TokenExpires
<1>5. CASE ByHand
  BY <1>0, <1>5, SameRows, StepKeeps DEF ByHand, EditStatus, EditDate
<1>6. ASSUME NEW r \in Requests, RequestStops(r) PROVE LedgerInv'
  <2>1. r \in Procs
    BY DEF Procs
  <2>. QED  BY <1>6, <2>1, SameRows, ReturnLearnt, StepKeeps DEF RequestStops
<1>7. ASSUME NEW h \in Hooks, HookStops(h) PROVE LedgerInv'
  <2>1. h \in Procs /\ Named(h, proc[h]) /\ Learnt(proc[h])
    BY DEF Procs, TypeInv, LedgerInv
  <2>2. Told(proc[h].seen, proc[h].p)
    BY <1>7, <2>1 DEF HookStops, Named, Learnt
  <2>3. \A e \in events' : e \in events \/ Told(e.kind, e.p)'
    BY <1>7, <2>2 DEF HookStops, EventsOf, Told
  <2>. QED  BY <1>7, <2>1, <2>3, SameRows, ReturnLearnt, StepKeeps DEF HookStops
<1>8. CASE CronStops
  BY <1>0, <1>8, SameRows, ReturnLearnt, StepKeeps DEF CronStops
<1>. QED
  BY <1>1, <1>2, <1>3, <1>4, <1>5, <1>6, <1>7, <1>8 DEF Environment

-----------------------------------------------------------------------------
\* The invariant holds at first, and every step keeps it.
LEMMA LedgerStarts == ASSUME Init PROVE LedgerInv
<1>1. \A p \in Payments : RowTrue(p)
  BY DEF Init, NoPayment, RowTrue
<1>2. \A x \in Procs : proc[x].pc = "idle"
  BY DEF Init, Idle
<1>3. \A x \in Procs : Learnt(proc[x])
  BY <1>2 DEF Learnt, HookPC, Charged
<1>. QED
  BY <1>1, <1>3 DEF Init, LedgerInv

\* Every step keeps the ledger's invariant.
LEMMA LedgerNext == ASSUME TypeInv, LedgerInv, [Next]_vars PROVE LedgerInv'
<1>1. TypeInv'
  BY TypeStep
<1>2. CASE UNCHANGED vars
  <2>1. Cron \in Procs
    BY DEF Procs
  <2>. QED  BY <1>1, <1>2, <2>1, SameRows, StepKeeps DEF vars
<1>. QED
  BY <1>1, <1>2, BookLedger, CancelLedger, ValidateLedger, HookLedger, CronLedger, OthersLedger
  DEF Next

\* So it holds in every behaviour.
THEOREM LedgerInvariant == Spec => [](TypeInv /\ LedgerInv)
<1>1. Init => TypeInv /\ LedgerInv
  BY TypeInit, LedgerStarts
<1>2. TypeInv /\ LedgerInv /\ [Next]_vars => (TypeInv /\ LedgerInv)'
  BY TypeStep, LedgerNext
<1>. QED
  BY <1>1, <1>2, PTL DEF Spec

\* A payment something was transferred or refunded from is a captured one.
THEOREM TransfersAreBacked == Spec => []TransfersBacked
<1>1. LedgerInv => TransfersBacked
  BY DEF LedgerInv, RowTrue, TransfersBacked
<1>. QED
  BY <1>1, LedgerInvariant, PTL

\* Final statuses of transaction rows are facts at Stripe.
THEOREM LedgerIsTrue == Spec => []LedgerTellsTruth
<1>1. LedgerInv => LedgerTellsTruth
  BY DEF LedgerInv, RowTrue, LedgerTellsTruth
<1>. QED
  BY <1>1, LedgerInvariant, PTL

-----------------------------------------------------------------------------
(* BookingPayment implements Escrow.  A payment's phase is its intent; each *)
(* step moves one payment along an edge of its life cycle, pays out of     *)
(* charged payments, refunds one, or leaves the money alone.               *)

\* A step of the abstract specification, or none.
EscrowStep ==
    [EscrowOfPayments!Next]_<<[p \in Payments |-> payments[p].intent],
                              [p \in Payments |-> payments[p].paid],
                              [p \in Payments |-> payments[p].refunded]>>

\* What the abstract specification sees of a payment is the same after the step.
SameMoney(p) ==
    /\ payments'[p].intent = payments[p].intent
    /\ payments'[p].paid = payments[p].paid
    /\ payments'[p].refunded = payments[p].refunded

\* A step that moves no money is no step.
LEMMA EscrowSame == ASSUME \A p \in Payments : SameMoney(p) PROVE EscrowStep
<1>1. /\ [p \in Payments |-> payments'[p].intent] = [p \in Payments |-> payments[p].intent]
      /\ [p \in Payments |-> payments'[p].paid] = [p \in Payments |-> payments[p].paid]
      /\ [p \in Payments |-> payments'[p].refunded] = [p \in Payments |-> payments[p].refunded]
  BY DEF SameMoney
<1>. QED
  BY <1>1 DEF EscrowStep

\* One payment moves along an edge.
LEMMA EscrowMoves ==
  ASSUME NEW p \in Payments, NEW to,
         <<payments[p].intent, to>> \in EscrowOfPayments!Moves,
         payments'[p].intent = to, payments'[p].paid = payments[p].paid,
         payments'[p].refunded = payments[p].refunded,
         \A o \in Payments \ {p} : SameMoney(o)
  PROVE  EscrowStep
<1>1. to \in EscrowOfPayments!Phase
  BY DEF EscrowOfPayments!Moves, EscrowOfPayments!Phase
<1>2. [o \in Payments |-> payments'[o].intent]
        = [[o \in Payments |-> payments[o].intent] EXCEPT ![p] = to]
  BY DEF SameMoney
<1>3. /\ [o \in Payments |-> payments'[o].paid] = [o \in Payments |-> payments[o].paid]
      /\ [o \in Payments |-> payments'[o].refunded] = [o \in Payments |-> payments[o].refunded]
  BY DEF SameMoney
<1>4. EscrowOfPayments!Move(p, to)
  BY <1>2, <1>3 DEF EscrowOfPayments!Move
<1>. QED
  BY <1>1, <1>4 DEF EscrowStep, EscrowOfPayments!Next

\* One charged payment is refunded, for the first time.
LEMMA EscrowRefunds ==
  ASSUME NEW p \in Payments, payments[p].intent = "succeeded", ~payments[p].refunded,
         payments'[p].intent = "succeeded", payments'[p].paid = payments[p].paid,
         payments'[p].refunded = TRUE,
         \A o \in Payments \ {p} : SameMoney(o)
  PROVE  EscrowStep
<1>1. [o \in Payments |-> payments'[o].refunded]
        = [[o \in Payments |-> payments[o].refunded] EXCEPT ![p] = TRUE]
  BY DEF SameMoney
<1>2. /\ [o \in Payments |-> payments'[o].paid] = [o \in Payments |-> payments[o].paid]
      /\ [o \in Payments |-> payments'[o].intent] = [o \in Payments |-> payments[o].intent]
  BY DEF SameMoney
<1>3. EscrowOfPayments!Refund(p)
  BY <1>1, <1>2 DEF EscrowOfPayments!Refund
<1>. QED
  BY <1>3 DEF EscrowStep, EscrowOfPayments!Next

\* Something is paid out of charged payments, and of no other.
LEMMA EscrowPays ==
  ASSUME NEW from \in SUBSET Payments,
         \A p \in from : /\ payments[p].intent = "succeeded"
                         /\ payments'[p].paid \in Nat /\ payments'[p].paid >= payments[p].paid,
         \A p \in Payments : /\ payments'[p].intent = payments[p].intent
                             /\ payments'[p].refunded = payments[p].refunded
                             /\ p \notin from => payments'[p].paid = payments[p].paid
  PROVE  EscrowStep
<1>1. /\ [o \in Payments |-> payments'[o].refunded] = [o \in Payments |-> payments[o].refunded]
      /\ [o \in Payments |-> payments'[o].intent] = [o \in Payments |-> payments[o].intent]
  OBVIOUS
<1>2. EscrowOfPayments!PayOut(from)
  BY <1>1 DEF EscrowOfPayments!PayOut
<1>. QED
  BY <1>2 DEF EscrowStep, EscrowOfPayments!Next

\* The rows' ways of moving money: a step that writes none,
LEMMA EscrowUnchanged == ASSUME UNCHANGED payments PROVE EscrowStep
<1>1. \A p \in Payments : SameMoney(p)
  BY DEF SameMoney
<1>. QED
  BY <1>1, EscrowSame

\* one that writes a status,
LEMMA EscrowSetTx ==
  ASSUME TypeInv, NEW p \in Payments, NEW status, SetTx(p, status) PROVE EscrowStep
<1>1. \A o \in Payments : SameMoney(o)
  BY DEF SetTx, SameMoney, TypeInv, TypeOK, PaymentRow
<1>. QED
  BY <1>1, EscrowSame

\* a cancellation that Stripe accepts,
LEMMA EscrowCancels ==
  ASSUME TypeInv, NEW p \in Payments, Cancelable(p), CancelIntent(p) PROVE EscrowStep
<1>1. payments[p] \in PaymentRow
  BY DEF TypeInv, TypeOK
<1>2. /\ payments'[p].intent = "canceled" /\ payments'[p].paid = payments[p].paid
      /\ payments'[p].refunded = payments[p].refunded
      /\ \A o \in Payments \ {p} : SameMoney(o)
  BY <1>1 DEF CancelIntent, SameMoney, TypeInv, TypeOK, PaymentRow
<1>3. <<payments[p].intent, "canceled">> \in EscrowOfPayments!Moves
  BY DEF Cancelable, EscrowOfPayments!Moves
<1>. QED
  BY <1>2, <1>3, EscrowMoves

\* a new intent in a row that was free: nothing was ever paid out of it,
LEMMA EscrowOpens ==
  ASSUME TypeInv, LedgerInv, NEW p \in Payments, payments[p].status = "none", NEW row,
         row.intent = "open", row.paid = 0, row.refunded = FALSE,
         payments' = [payments EXCEPT ![p] = row]
  PROVE  EscrowStep
<1>1. payments'[p] = row /\ \A o \in Payments \ {p} : payments'[o] = payments[o]
  BY DEF TypeInv, TypeOK
<1>2. payments[p].intent = "none" /\ payments[p].paid = 0 /\ payments[p].refunded = FALSE
  <2>1. RowTrue(p) /\ payments[p].paid \in Nat /\ payments[p].refunded \in BOOLEAN
    BY DEF LedgerInv, TypeInv, TypeOK, PaymentRow
  <2>2. payments[p].intent = "none"
    BY <2>1 DEF RowTrue
  <2>3. ~(payments[p].paid > 0) /\ ~payments[p].refunded
    BY <2>1, <2>2 DEF RowTrue
  <2>. QED  BY <2>1, <2>2, <2>3
<1>3. <<payments[p].intent, "open">> \in EscrowOfPayments!Moves
  BY <1>2 DEF EscrowOfPayments!Moves
<1>4. \A o \in Payments \ {p} : SameMoney(o)
  BY <1>1 DEF SameMoney
<1>. QED
  BY <1>1, <1>2, <1>3, <1>4, EscrowMoves

\* and the client's secret.
LEMMA EscrowSecret ==
  ASSUME TypeInv, NEW p \in Payments, payments' = [payments EXCEPT ![p].secret = TRUE]
  PROVE  EscrowStep
<1>1. \A o \in Payments : SameMoney(o)
  BY DEF SameMoney, TypeInv, TypeOK, PaymentRow
<1>. QED
  BY <1>1, EscrowSame

\* bookAppointment opens an intent, or cancels the one it replaces.
LEMMA BookEscrow ==
  ASSUME TypeInv, LedgerInv, NEW r \in Requests, Book(r) PROVE EscrowStep
<1> USE DEF At
<1>0. Named(r, proc[r])
  BY DEF Procs, TypeInv
<1>1. CASE UNCHANGED payments
  BY <1>1, EscrowUnchanged
<1>2. CASE BookCancelOld(r)
  <2>1. proc[r].q \in Payments
    BY <1>0, <1>2 DEF BookCancelOld, Named, OldPC
  <2>. QED  BY <1>2, <2>1, EscrowCancels, EscrowUnchanged DEF BookCancelOld
<1>3. CASE BookMarkOld(r)
  <2>1. proc[r].q \in Payments
    BY <1>0, <1>3 DEF BookMarkOld, Named, OldPC
  <2>. QED  BY <1>3, <2>1, EscrowSetTx DEF BookMarkOld
<1>4. CASE BookPay(r)
  <2>1. PICK p \in Payments :
          /\ payments[p].status = "none"
          /\ payments' = [payments EXCEPT ![p] = [NoPayment EXCEPT !.type = "booking",
                !.booking = proc[r].b, !.amount = Price[proc[r].n], !.status = "pending",
                !.intent = "open"]]
    BY <1>4 DEF BookPay
  <2> DEFINE row == [NoPayment EXCEPT !.type = "booking", !.booking = proc[r].b,
                       !.amount = Price[proc[r].n], !.status = "pending", !.intent = "open"]
  <2>2. row.intent = "open" /\ row.paid = 0 /\ row.refunded = FALSE
    BY DEF NoPayment
  <2>3. payments' = [payments EXCEPT ![p] = row]
    BY <2>1
  <2> HIDE DEF row
  <2>. QED  BY <2>1, <2>2, <2>3, EscrowOpens
<1>5. CASE BookLink(r)
  <2>1. proc[r].p \in Payments
    BY <1>0, <1>5 DEF BookLink, Named
  <2>. QED  BY <1>5, <2>1, EscrowSecret DEF BookLink
<1>. QED
  BY <1>1, <1>2, <1>3, <1>4, <1>5 DEF Book, BookRead, BookCreate, BookUpdate, BookReadOld

\* cancelBooking cancels an intent that Stripe still lets go.
LEMMA CancelEscrow == ASSUME TypeInv, NEW r \in Requests, Cancel(r) PROVE EscrowStep
<1> USE DEF At
<1>0. Named(r, proc[r])
  BY DEF Procs, TypeInv
<1>1. CASE UNCHANGED payments
  BY <1>1, EscrowUnchanged
<1>2. CASE CancelRelease(r)
  <2>1. proc[r].p \in Payments
    BY <1>0, <1>2 DEF CancelRelease, Named
  <2>. QED  BY <1>2, <2>1, EscrowCancels, EscrowUnchanged DEF CancelRelease
<1>3. CASE CancelMark(r)
  <2>1. proc[r].p \in Payments
    BY <1>0, <1>3 DEF CancelMark, Named
  <2>. QED  BY <1>3, <2>1, EscrowSetTx DEF CancelMark
<1>. QED
  BY <1>1, <1>2, <1>3 DEF Cancel, CancelRead, CancelWrite, CancelReadTx

\* The webhook only writes statuses.
LEMMA HookEscrow == ASSUME TypeInv, NEW h \in Hooks, Hook(h) PROVE EscrowStep
<1> USE DEF At
<1>0. Named(h, proc[h])
  BY DEF Procs, TypeInv
<1>1. CASE UNCHANGED payments
  BY <1>1, EscrowUnchanged
<1>2. ASSUME NEW p \in Payments, NEW kind, NEW status, NEW next,
             HookUpdateTx(h, p, kind, status, next)
      PROVE  EscrowStep
  BY <1>2, EscrowSetTx DEF HookUpdateTx
<1>3. CASE HookAuthorized(h) \/ HookCaptured(h)
  <2>1. proc[h].p \in Payments
    BY <1>0, <1>3 DEF HookAuthorized, HookCaptured, Named, HookPC
  <2>. QED  BY <1>3, <2>1, EscrowSetTx DEF HookAuthorized, HookCaptured
<1>. QED
  BY <1>1, <1>2, <1>3 DEF Hook, HookBegin, HookContinue, HookCapturable, HookSucceeded, HookFailed,
       HookCanceled, HookRequiresAction, HookConfirm, HookFind, HookVoid

\* validateBookingToken charges what is held, and transfers out of what it charged.
LEMMA ValidateEscrow ==
  ASSUME TypeInv, LedgerInv, NEW r \in Requests, Validate(r) PROVE EscrowStep
<1> USE DEF At
<1>0. /\ r \in Procs /\ proc[r] \in Local /\ Named(r, proc[r]) /\ Learnt(proc[r])
      /\ proc[r].q \in Payments \cup {None}
  BY DEF Procs, TypeInv, TypeOK, LedgerInv, Local
<1>1. CASE UNCHANGED payments
  BY <1>1, EscrowUnchanged
<1>2. ASSUME NEW p \in Payments, NEW next, Capture(r, p, next) PROVE EscrowStep
  <2>1. CASE payments[p].intent = "held"
    <3>1. payments' = [payments EXCEPT ![p].intent = "succeeded"]
      BY <1>2, <2>1 DEF Capture
    <3>2. /\ payments'[p].intent = "succeeded" /\ payments'[p].paid = payments[p].paid
          /\ payments'[p].refunded = payments[p].refunded
          /\ \A o \in Payments \ {p} : SameMoney(o)
      BY <3>1 DEF SameMoney, TypeInv, TypeOK, PaymentRow
    <3>3. <<payments[p].intent, "succeeded">> \in EscrowOfPayments!Moves
      BY <2>1 DEF EscrowOfPayments!Moves
    <3>. QED  BY <3>2, <3>3, EscrowMoves
  <2>2. CASE payments[p].intent # "held"
    BY <1>2, <2>2, EscrowUnchanged DEF Capture
  <2>. QED  BY <2>1, <2>2
<1>3. CASE ValidateCapture(r) \/ ValidateCaptureOffer(r)
  <2>1. /\ proc[r].p \in Payments
        /\ ValidateCaptureOffer(r) => proc[r].q \in Payments
    BY <1>0, <1>3 DEF ValidateCapture, ValidateCaptureOffer, Named, ValPC
  <2>. QED  BY <1>2, <1>3, <2>1 DEF ValidateCapture, ValidateCaptureOffer
<1>4. CASE ValidateTransfer(r) /\ ~UNCHANGED payments
  <2> DEFINE from == {proc[r].p, proc[r].q} \cap Payments
  <2>1. /\ proc[r].p \in Payments /\ payments[proc[r].p].intent = "succeeded"
        /\ proc[r].q # None => payments[proc[r].q].intent = "succeeded"
    BY <1>0, <1>4 DEF ValidateTransfer, Named, ValPC, Learnt, Charged
  <2>2. payments' = [p \in Payments |->
           IF p \in {proc[r].p, proc[r].q}
           THEN [payments[p] EXCEPT !.paid = @ + Share(p, proc[r].n)] ELSE payments[p]]
    BY <1>4 DEF ValidateTransfer
  <2>3. ASSUME NEW p \in Payments
        PROVE  /\ payments'[p].intent = payments[p].intent
               /\ payments'[p].refunded = payments[p].refunded
               /\ p \notin from => payments'[p].paid = payments[p].paid
               /\ p \in from => payments'[p].paid = payments[p].paid + Share(p, proc[r].n)
    BY <2>2 DEF TypeInv, TypeOK, PaymentRow
  <2>4. ASSUME NEW p \in from
        PROVE  /\ payments[p].intent = "succeeded"
               /\ payments'[p].paid \in Nat /\ payments'[p].paid >= payments[p].paid
    <3>1. Share(p, proc[r].n) \in Nat /\ payments[p].paid \in Nat
      BY <1>0, SizesAreCounts, ShareType DEF TypeInv, TypeOK, Local, PaymentRow
    <3>2. payments[p].intent = "succeeded"
      BY <2>1, NoneIsNoKey
    <3>. QED  BY <2>3, <3>1, <3>2
  <2> HIDE DEF from
  <2>5. from \in SUBSET Payments
    BY DEF from
  <2>. QED  BY <2>3, <2>4, <2>5, EscrowPays
<1>5. ASSUME NEW p \in Payments, MarkTransfer(r, p) PROVE EscrowStep
  <2>1. \A o \in Payments : SameMoney(o)
    BY <1>5 DEF MarkTransfer, SameMoney, TypeInv, TypeOK, PaymentRow
  <2>. QED  BY <2>1, EscrowSame
<1>6. CASE ValidateTx(r) \/ ValidateOfferTx(r)
  <2>1. /\ proc[r].p \in Payments
        /\ ValidateOfferTx(r) => proc[r].q \in Payments
    BY <1>0, <1>6 DEF ValidateTx, ValidateOfferTx, Named, ValPC
  <2>. QED  BY <1>5, <1>6, <2>1 DEF ValidateTx, ValidateOfferTx
<1>. QED
  BY <1>1, <1>3, <1>4, <1>6
  DEF Validate, ValidateRead, ValidateCheck, ValidateCaptures, ValidateWrite, ValidateTxs

\* The expiry job refunds a charge once, or releases a hold.
LEMMA CronEscrow == ASSUME TypeInv, LedgerInv, ExpiryJob PROVE EscrowStep
<1> USE DEF At
<1>0. Named(Cron, proc[Cron]) /\ Learnt(proc[Cron])
  BY DEF Procs, TypeInv, LedgerInv
<1>1. CASE UNCHANGED payments
  BY <1>1, EscrowUnchanged
<1>2. CASE CronSettle
  <2>1. proc[Cron].p \in Payments
    BY <1>0, <1>2 DEF CronSettle, Named, CronPC
  <2>2. CASE /\ proc[Cron].seen = "charged" /\ ~payments[proc[Cron].p].refunded
             /\ payments' = [payments EXCEPT ![proc[Cron].p].refunded = TRUE]
    <3>1. payments[proc[Cron].p].intent = "succeeded"
      BY <1>0, <1>2, <2>2 DEF CronSettle, Learnt
    <3>2. /\ payments'[proc[Cron].p].intent = payments[proc[Cron].p].intent
          /\ payments'[proc[Cron].p].paid = payments[proc[Cron].p].paid
          /\ payments'[proc[Cron].p].refunded = TRUE
          /\ \A o \in Payments \ {proc[Cron].p} : SameMoney(o)
      BY ZenonT(60), <2>1, <2>2 DEF SameMoney, TypeInv, TypeOK, PaymentRow
    <3>. QED  BY <2>1, <2>2, <3>1, <3>2, EscrowRefunds
  <2>. QED  BY <1>2, <2>1, <2>2, EscrowCancels, EscrowUnchanged DEF CronSettle
<1>3. CASE CronMark
  <2>1. proc[Cron].p \in Payments
    BY <1>0, <1>3 DEF CronMark, Named, CronPC
  <2>. QED  BY <1>3, <2>1, EscrowSetTx DEF CronMark
<1>. QED
  BY <1>1, <1>2, <1>3 DEF ExpiryJob, CronSelect, CronPick, CronVoid

\* The card is held, or Stripe gives the hold up.
LEMMA OthersEscrow ==
  ASSUME TypeInv,
         \/ Environment
         \/ ByHand
         \/ \E r \in Requests : RequestStops(r)
         \/ \E h \in Hooks : HookStops(h)
         \/ CronStops
  PROVE  EscrowStep
<1>1. CASE UNCHANGED payments
  BY <1>1, EscrowUnchanged
<1>2. ASSUME NEW p \in Payments, Authorize(p) PROVE EscrowStep
  <2>1. /\ payments'[p].intent = "held" /\ payments'[p].paid = payments[p].paid
        /\ payments'[p].refunded = payments[p].refunded
        /\ \A o \in Payments \ {p} : SameMoney(o)
    BY <1>2 DEF Authorize, SameMoney, TypeInv, TypeOK, PaymentRow
  <2>2. <<payments[p].intent, "held">> \in EscrowOfPayments!Moves
    BY <1>2 DEF Authorize, EscrowOfPayments!Moves
  <2>. QED  BY <2>1, <2>2, EscrowMoves
<1>3. ASSUME NEW p \in Payments, HoldLapses(p) PROVE EscrowStep
  BY <1>3, EscrowCancels DEF HoldLapses, Cancelable
<1>. QED
  BY <1>1, <1>2, <1>3
  DEF Environment, DeclineOrChallenge, TokenExpires, ByHand, EditStatus, EditDate, RequestStops,
      HookStops, CronStops

\* Every step of a handler is one of the abstract specification, or none.
LEMMA EscrowNext == ASSUME TypeInv, LedgerInv, [Next]_vars PROVE EscrowStep
<1>1. CASE UNCHANGED vars
  BY <1>1, EscrowUnchanged DEF vars
<1>. QED
  BY <1>1, BookEscrow, CancelEscrow, ValidateEscrow, HookEscrow, CronEscrow, OthersEscrow DEF Next

\* No payment starts with money in it.
LEMMA EscrowStarts == ASSUME Init PROVE EscrowOfPayments!Init
  BY DEF Init, NoPayment, EscrowOfPayments!Init

\* What the abstract specification says of final phases, and of holds.
LEMMA EscrowOnward ==
  ASSUME EscrowStep, NEW p \in Payments
  PROVE  /\ payments[p].intent \in Final => payments'[p].intent = payments[p].intent
         /\ payments[p].intent \notin {"none", "open"} => payments'[p].intent \notin {"none", "open"}
<1> DEFINE old == [o \in Payments |-> payments[o].intent]
           new == [o \in Payments |-> payments'[o].intent]
<1>1. old[p] = payments[p].intent /\ new[p] = payments'[p].intent
  OBVIOUS
<1>2. ASSUME NEW o \in Payments, NEW to \in EscrowOfPayments!Phase, EscrowOfPayments!Move(o, to)
      PROVE  new = [old EXCEPT ![o] = to] /\ <<old[o], to>> \in EscrowOfPayments!Moves
  BY <1>2 DEF EscrowOfPayments!Move
<1>3. new = old \/ \E o \in Payments, to \in EscrowOfPayments!Phase :
         new = [old EXCEPT ![o] = to] /\ <<old[o], to>> \in EscrowOfPayments!Moves
  BY <1>2 DEF EscrowStep, EscrowOfPayments!Next, EscrowOfPayments!Refund, EscrowOfPayments!PayOut
<1>4. CASE new = old
  BY <1>1, <1>4
<1>5. ASSUME NEW o \in Payments, NEW to, new = [old EXCEPT ![o] = to],
             <<old[o], to>> \in EscrowOfPayments!Moves
      PROVE  /\ old[p] \in Final => new[p] = old[p]
             /\ old[p] \notin {"none", "open"} => new[p] \notin {"none", "open"}
  <2>1. /\ old[o] \notin Final
        /\ old[o] \notin {"none", "open"} => to \notin {"none", "open"}
    BY <1>5 DEF EscrowOfPayments!Moves, Final
  <2>2. new[p] = IF p = o THEN to ELSE old[p]
    BY <1>5
  <2>. QED  BY <2>1, <2>2
<1>. QED
  BY <1>1, <1>3, <1>4, <1>5

\* Whatever handlers race, fail or repeat, money moves as Escrow says: a payment is
\* held, then released or charged, and only charges are paid out or refunded.
THEOREM ImplementsItsEscrow == Spec => ImplementsEscrow
<1>1. Init => EscrowOfPayments!Init
  BY EscrowStarts
<1>2. TypeInv /\ LedgerInv /\ [Next]_vars => EscrowStep
  BY EscrowNext
<1>. QED
  BY <1>1, <1>2, LedgerInvariant, PTL DEF Spec, ImplementsEscrow, EscrowOfPayments!Spec, EscrowStep

-----------------------------------------------------------------------------
(* What a transaction row was made for never changes, and the rows and     *)
(* handlers that name a transaction name the one made for their booking.   *)

RowsOnward ==
    \A p \in Payments : payments[p].status # "none" =>
        /\ payments'[p].status # "none" /\ payments'[p].type = payments[p].type
        /\ payments'[p].booking = payments[p].booking /\ payments'[p].amount = payments[p].amount

\* The transaction p was made for booking b.
Own(p, type, b) ==
    payments[p].status # "none" /\ payments[p].type = type /\ payments[p].booking = b

OwnOrNone(p, type, b) == p # None => Own(p, type, b)

\* What a handler that will link or capture a transaction holds.
Holding(l) ==
    /\ l.pc = "book_link" => Own(l.p, "booking", l.b)
    /\ l.pc \in ValPC => Own(l.p, "booking", l.b) /\ OwnOrNone(l.q, "custom_offer", l.b)

LinkInv ==
    /\ \A b \in Bookings : /\ OwnOrNone(bookings[b].tx, "booking", b)
                           /\ OwnOrNone(bookings[b].offerTx, "custom_offer", b)
    /\ \A x \in Procs : Holding(proc[x])

\* A step that leaves the links of the bookings.
SameLinks ==
    \A b \in Bookings : bookings'[b].tx = bookings[b].tx /\ bookings'[b].offerTx = bookings[b].offerTx

\* Neither a step without a row,
LEMMA OnwardSame == ASSUME UNCHANGED payments PROVE RowsOnward
  BY DEF RowsOnward

\* nor one that writes a status,
LEMMA OnwardSetTx ==
  ASSUME TypeInv, NEW p \in Payments, NEW status, SetTx(p, status), status # "none"
  PROVE  RowsOnward
  BY DEF SetTx, RowsOnward, TypeInv, TypeOK, PaymentRow

\* nor one that changes the intent,
LEMMA OnwardIntent ==
  ASSUME TypeInv, NEW p \in Payments, NEW i, payments' = [payments EXCEPT ![p].intent = i]
  PROVE  RowsOnward
  BY DEF RowsOnward, TypeInv, TypeOK, PaymentRow

\* nor a new row changes what the others were made for.
LEMMA OnwardNew ==
  ASSUME TypeInv, NEW p \in Payments, payments[p].status = "none", NEW row,
         payments' = [payments EXCEPT ![p] = row]
  PROVE  RowsOnward
  BY DEF RowsOnward, TypeInv, TypeOK

\* The same for every handler.
LEMMA OnwardNext == ASSUME TypeInv, [Next]_vars PROVE RowsOnward
<1> USE DEF At
<1>0. \A x \in Procs : Named(x, proc[x])
  BY DEF TypeInv
<1>1. CASE UNCHANGED payments
  BY <1>1, OnwardSame
<1>2. ASSUME NEW r \in Requests, Book(r) PROVE RowsOnward
  <2>0. Named(r, proc[r])
    BY <1>0 DEF Procs
  <2>1. CASE BookCancelOld(r)
    <3>1. proc[r].q \in Payments
      BY <2>0, <2>1 DEF BookCancelOld, Named, OldPC
    <3>. QED  BY <1>1, <2>1, <3>1, OnwardIntent DEF BookCancelOld, CancelIntent
  <2>2. CASE BookMarkOld(r)
    <3>1. proc[r].q \in Payments
      BY <2>0, <2>2 DEF BookMarkOld, Named, OldPC
    <3>. QED  BY <2>2, <3>1, OnwardSetTx DEF BookMarkOld
  <2>3. CASE BookPay(r)
    BY <2>3, OnwardNew DEF BookPay
  <2>4. CASE BookLink(r)
    BY <2>4 DEF BookLink, RowsOnward, TypeInv, TypeOK, PaymentRow
  <2>. QED  BY <1>1, <1>2, <2>1, <2>2, <2>3, <2>4
            DEF Book, BookRead, BookCreate, BookUpdate, BookReadOld
<1>3. ASSUME NEW r \in Requests, Cancel(r) PROVE RowsOnward
  <2>0. Named(r, proc[r])
    BY <1>0 DEF Procs
  <2>1. CASE CancelRelease(r)
    <3>1. proc[r].p \in Payments
      BY <2>0, <2>1 DEF CancelRelease, Named
    <3>. QED  BY <1>1, <2>1, <3>1, OnwardIntent DEF CancelRelease, CancelIntent
  <2>2. CASE CancelMark(r)
    <3>1. proc[r].p \in Payments
      BY <2>0, <2>2 DEF CancelMark, Named
    <3>. QED  BY <2>2, <3>1, OnwardSetTx DEF CancelMark
  <2>. QED  BY <1>1, <1>3, <2>1, <2>2 DEF Cancel, CancelRead, CancelWrite, CancelReadTx
<1>4. ASSUME NEW r \in Requests, Validate(r) PROVE RowsOnward
  <2>0. Named(r, proc[r])
    BY <1>0 DEF Procs
  <2>1. ASSUME NEW p \in Payments, NEW next, Capture(r, p, next) PROVE RowsOnward
    <3>1. CASE payments[p].intent = "held"
      BY <2>1, <3>1, OnwardIntent DEF Capture
    <3>. QED  BY <1>1, <2>1, <3>1 DEF Capture
  <2>2. CASE ValidateCapture(r) \/ ValidateCaptureOffer(r)
    <3>1. proc[r].p \in Payments /\ (ValidateCaptureOffer(r) => proc[r].q \in Payments)
      BY <2>0, <2>2 DEF ValidateCapture, ValidateCaptureOffer, Named, ValPC
    <3>. QED  BY <2>1, <2>2, <3>1 DEF ValidateCapture, ValidateCaptureOffer
  <2>3. CASE ValidateTransfer(r)
    BY <2>3 DEF ValidateTransfer, RowsOnward, TypeInv, TypeOK, PaymentRow
  <2>4. ASSUME NEW p \in Payments, MarkTransfer(r, p) PROVE RowsOnward
    BY <2>4 DEF MarkTransfer, RowsOnward, TypeInv, TypeOK, PaymentRow
  <2>5. CASE ValidateTx(r) \/ ValidateOfferTx(r)
    <3>1. proc[r].p \in Payments /\ (ValidateOfferTx(r) => proc[r].q \in Payments)
      BY <2>0, <2>5 DEF ValidateTx, ValidateOfferTx, Named, ValPC
    <3>. QED  BY <2>4, <2>5, <3>1 DEF ValidateTx, ValidateOfferTx
  <2>. QED  BY <1>1, <1>4, <2>2, <2>3, <2>5
            DEF Validate, ValidateRead, ValidateCheck, ValidateCaptures, ValidateWrite, ValidateTxs
<1>5. ASSUME NEW h \in Hooks, Hook(h) PROVE RowsOnward
  <2>0. Named(h, proc[h])
    BY <1>0 DEF Procs
  <2>1. ASSUME NEW p \in Payments, NEW kind, NEW status, NEW next, status # "none",
               HookUpdateTx(h, p, kind, status, next)
        PROVE  RowsOnward
    BY <2>1, OnwardSetTx DEF HookUpdateTx
  <2>2. CASE HookAuthorized(h) \/ HookCaptured(h)
    <3>1. proc[h].p \in Payments
      BY <2>0, <2>2 DEF HookAuthorized, HookCaptured, Named, HookPC
    <3>. QED  BY <2>2, <3>1, OnwardSetTx DEF HookAuthorized, HookCaptured
  <2>. QED  BY <1>1, <1>5, <2>1, <2>2 DEF Hook, HookBegin, HookContinue, HookCapturable,
              HookSucceeded, HookFailed, HookCanceled, HookRequiresAction, HookConfirm, HookFind, HookVoid
<1>6. CASE ExpiryJob
  <2>0. Named(Cron, proc[Cron])
    BY <1>0 DEF Procs
  <2>1. CASE CronSettle
    <3>1. proc[Cron].p \in Payments
      BY <2>0, <2>1 DEF CronSettle, Named, CronPC
    <3>2. CASE payments' = [payments EXCEPT ![proc[Cron].p].refunded = TRUE]
      BY <3>1, <3>2 DEF RowsOnward, TypeInv, TypeOK, PaymentRow
    <3>. QED  BY <1>1, <2>1, <3>1, <3>2, OnwardIntent DEF CronSettle, CancelIntent
  <2>2. CASE CronMark
    <3>1. proc[Cron].p \in Payments
      BY <2>0, <2>2 DEF CronMark, Named, CronPC
    <3>. QED  BY <2>2, <3>1, OnwardSetTx DEF CronMark
  <2>. QED  BY <1>1, <1>6, <2>1, <2>2 DEF ExpiryJob, CronSelect, CronPick, CronVoid
<1>7. CASE Environment
  BY <1>1, <1>7, OnwardIntent DEF Environment, Authorize, DeclineOrChallenge, HoldLapses,
                                  CancelIntent, TokenExpires
<1>. QED
  BY <1>1, <1>2, <1>3, <1>4, <1>5, <1>6, <1>7
  DEF Next, ByHand, EditStatus, EditDate, RequestStops, HookStops, CronStops, vars

\* A row keeps its owner.
LEMMA OwnKept ==
  ASSUME RowsOnward, NEW p \in Payments, NEW type, NEW b, Own(p, type, b) PROVE Own(p, type, b)'
  BY DEF RowsOnward, Own

\* What a handler holds stays its booking's.
LEMMA HoldingKept ==
  ASSUME TypeInv, RowsOnward, NEW x \in Procs, Holding(proc[x]), proc'[x] = proc[x]
  PROVE  Holding(proc[x])'
<1>1. proc[x].q \in Payments \cup {None} /\ Named(x, proc[x])
  BY DEF TypeInv, TypeOK, Local
<1>2. proc[x].pc = "book_link" => Own(proc[x].p, "booking", proc[x].b)'
  BY <1>1, OwnKept DEF Holding, Named, Own
<1>3. proc[x].pc \in ValPC => /\ Own(proc[x].p, "booking", proc[x].b)'
                              /\ OwnOrNone(proc[x].q, "custom_offer", proc[x].b)'
  BY <1>1, OwnKept DEF Holding, Named, Own, OwnOrNone
<1>. QED
  BY <1>2, <1>3 DEF Holding

\* A step of one handler keeps the links when the ones it writes, and the ones it
\* holds afterwards, are its booking's.
LEMMA StepLinks ==
  ASSUME TypeInv, LinkInv, RowsOnward, NEW x \in Procs,
         \A y \in Procs \ {x} : proc'[y] = proc[y],
         proc'[x] = proc[x] \/ Holding(proc[x])',
         \A b \in Bookings :
           /\ bookings'[b].tx = bookings[b].tx \/ OwnOrNone(bookings[b].tx, "booking", b)'
           /\ bookings'[b].offerTx = bookings[b].offerTx
                \/ OwnOrNone(bookings[b].offerTx, "custom_offer", b)'
  PROVE  LinkInv'
<1>1. ASSUME NEW b \in Bookings
      PROVE  /\ OwnOrNone(bookings[b].tx, "booking", b)'
             /\ OwnOrNone(bookings[b].offerTx, "custom_offer", b)'
  <2>1. /\ bookings[b].tx \in Payments \cup {None} /\ bookings[b].offerTx \in Payments \cup {None}
        /\ OwnOrNone(bookings[b].tx, "booking", b)
        /\ OwnOrNone(bookings[b].offerTx, "custom_offer", b)
    BY DEF LinkInv, TypeInv, TypeOK, BookingRow
  <2>2. ASSUME bookings'[b].tx = bookings[b].tx PROVE OwnOrNone(bookings[b].tx, "booking", b)'
    BY <2>1, <2>2, OwnKept DEF OwnOrNone, Own
  <2>3. ASSUME bookings'[b].offerTx = bookings[b].offerTx
        PROVE  OwnOrNone(bookings[b].offerTx, "custom_offer", b)'
    BY <2>1, <2>3, OwnKept DEF OwnOrNone, Own
  <2>. QED  BY <2>2, <2>3
<1>2. ASSUME NEW y \in Procs PROVE Holding(proc[y])'
  <2>1. Holding(proc[y])
    BY DEF LinkInv
  <2>2. CASE proc'[y] = proc[y]
    BY <2>1, <2>2, HoldingKept
  <2>. QED  BY <2>2
<1>. QED
  BY <1>1, <1>2 DEF LinkInv

\* A step that links nothing, and whose handler goes on without a transaction to
\* link or capture, or with the ones it had.
LEMMA PlainStepLinks ==
  ASSUME TypeInv, LinkInv, RowsOnward, SameLinks, NEW x \in Procs, NEW l,
         proc' = [proc EXCEPT ![x] = l],
         \/ l.pc \notin ValPC \cup {"book_link"}
         \/ /\ proc[x].pc \in ValPC /\ l.pc \in ValPC
            /\ l.b = proc[x].b /\ l.p = proc[x].p /\ l.q = proc[x].q
  PROVE  LinkInv'
<1>1. proc'[x] = l /\ \A y \in Procs \ {x} : proc'[y] = proc[y]
  BY DEF TypeInv, TypeOK
<1>2. CASE l.pc \notin ValPC \cup {"book_link"}
  <2>1. Holding(proc[x])'
    BY <1>1, <1>2 DEF Holding
  <2>. QED  BY <1>1, <2>1, StepLinks DEF SameLinks
<1>3. CASE /\ proc[x].pc \in ValPC /\ l.pc \in ValPC
           /\ l.b = proc[x].b /\ l.p = proc[x].p /\ l.q = proc[x].q
  <2>1. proc[x].p \in Payments /\ proc[x].q \in Payments \cup {None}
    BY <1>3 DEF TypeInv, TypeOK, Local, Named
  <2>2. Own(l.p, "booking", l.b) /\ OwnOrNone(l.q, "custom_offer", l.b)
    BY <1>3 DEF LinkInv, Holding
  <2>3. Own(l.p, "booking", l.b)' /\ OwnOrNone(l.q, "custom_offer", l.b)'
    BY <1>1, <1>3, <2>1, <2>2 DEF RowsOnward, Own, OwnOrNone
  <2>4. l.pc # "book_link"
    BY <1>3 DEF ValPC
  <2>5. Holding(proc[x])'
    BY <1>1, <2>3, <2>4 DEF Holding, Own, OwnOrNone
  <2>. QED  BY <1>1, <2>5, StepLinks DEF SameLinks
<1>. QED
  BY <1>2, <1>3

\* Ending a handler, or letting it go on, without linking anything.
LEMMA ReturnLinks ==
  ASSUME TypeInv, LinkInv, RowsOnward, SameLinks, NEW x \in Procs, Return(x) PROVE LinkInv'
<1>1. Idle.pc \notin ValPC \cup {"book_link"}
  BY DEF Idle, ValPC
<1>. QED
  BY <1>1, PlainStepLinks DEF Return

\* A handler that goes on to an await of the same call keeps the links.
LEMMA GotoLinks ==
  ASSUME TypeInv, LinkInv, RowsOnward, SameLinks, NEW x \in Procs, NEW pc, Goto(x, pc),
         pc \notin ValPC \cup {"book_link"} \/ (proc[x].pc \in ValPC /\ pc \in ValPC)
  PROVE  LinkInv'
<1> DEFINE l == [proc[x] EXCEPT !.pc = pc]
<1>1. proc' = [proc EXCEPT ![x] = l]
  BY DEF Goto
<1>2. l.pc = pc /\ l.b = proc[x].b /\ l.p = proc[x].p /\ l.q = proc[x].q
  BY DEF TypeInv, TypeOK, Local
<1> HIDE DEF l
<1>. QED
  BY <1>1, <1>2, PlainStepLinks

\* bookAppointment links the transaction it made for the booking.
LEMMA BookLinks ==
  ASSUME TypeInv, LinkInv, RowsOnward, NEW r \in Requests, Book(r) PROVE LinkInv'
<1> USE DEF At
<1>0. r \in Procs /\ proc[r] \in Local /\ Named(r, proc[r]) /\ Holding(proc[r])
  BY DEF Procs, TypeInv, TypeOK, LinkInv
<1>1. ASSUME NEW s \in Slots, NEW n \in Sizes, BookRead(r, s, n) PROVE LinkInv'
  <2>1. PICK b \in Bookings \cup {None} : proc' = [proc EXCEPT ![r] =
          [Idle EXCEPT !.pc = "book_write", !.slot = s, !.b = b, !.n = n]]
    BY <1>1 DEF BookRead
  <2> DEFINE l == [Idle EXCEPT !.pc = "book_write", !.slot = s, !.b = b, !.n = n]
  <2>2. l.pc \notin ValPC \cup {"book_link"}
    BY DEF Idle, ValPC
  <2>3. SameLinks /\ proc' = [proc EXCEPT ![r] = l]
    BY <1>1, <2>1 DEF BookRead, SameLinks
  <2> HIDE DEF l
  <2>. QED  BY <1>0, <2>2, <2>3, PlainStepLinks
<1>2. CASE BookCreate(r)
  <2>1. PICK b \in Bookings :
          /\ bookings' = [bookings EXCEPT ![b] =
                [NoBooking EXCEPT !.slot = proc[r].slot, !.status = "PENDING", !.n = proc[r].n]]
          /\ proc' = [proc EXCEPT ![r] = [@ EXCEPT !.pc = "book_pay", !.b = b]]
    BY <1>2 DEF BookCreate
  <2>2. /\ bookings'[b].tx = None /\ bookings'[b].offerTx = None
        /\ \A c \in Bookings \ {b} : bookings'[c] = bookings[c]
    BY <2>1 DEF NoBooking, TypeInv, TypeOK
  <2>3. proc'[r].pc = "book_pay" /\ \A y \in Procs \ {r} : proc'[y] = proc[y]
    BY <1>0, <2>1 DEF TypeInv, TypeOK, Local
  <2>4. Holding(proc[r])'
    BY <2>3 DEF Holding, ValPC
  <2>. QED  BY <1>0, <2>2, <2>3, <2>4, StepLinks DEF OwnOrNone
<1>3. CASE BookUpdate(r)
  <2>1. SameLinks
    BY <1>3 DEF BookUpdate, SameLinks, TypeInv, TypeOK, BookingRow
  <2>2. PICK pc \in {"book_pay", "book_read_old"} :
          proc' = [proc EXCEPT ![r] = [@ EXCEPT !.q = bookings[proc[r].b].tx, !.pc = pc]]
    BY <1>3 DEF BookUpdate
  <2>3. proc'[r].pc = pc /\ \A y \in Procs \ {r} : proc'[y] = proc[y]
    BY <1>0, <2>2 DEF TypeInv, TypeOK, Local
  <2>4. Holding(proc[r])'
    BY <2>3 DEF Holding, ValPC
  <2>. QED  BY <1>0, <2>1, <2>3, <2>4, StepLinks DEF SameLinks
<1>4. CASE BookReadOld(r) \/ BookCancelOld(r) \/ BookMarkOld(r)
  <2>1. PICK pc \in {"book_pay", "book_cancel_old", "book_mark_old"} : Goto(r, pc)
    BY <1>4 DEF BookReadOld, BookCancelOld, BookMarkOld
  <2>2. pc \notin ValPC \cup {"book_link"}
    BY DEF ValPC
  <2>3. SameLinks
    BY <1>4 DEF BookReadOld, BookCancelOld, BookMarkOld, SameLinks
  <2>. QED  BY <1>0, <2>1, <2>2, <2>3, GotoLinks
<1>5. CASE BookPay(r)
  <2>1. PICK p \in Payments :
          /\ payments' = [payments EXCEPT ![p] = [NoPayment EXCEPT !.type = "booking",
                !.booking = proc[r].b, !.amount = Price[proc[r].n], !.status = "pending",
                !.intent = "open"]]
          /\ proc' = [proc EXCEPT ![r] = [@ EXCEPT !.pc = "book_link", !.p = p]]
    BY <1>5 DEF BookPay
  <2>2. payments'[p].status = "pending" /\ payments'[p].type = "booking"
        /\ payments'[p].booking = proc[r].b
    BY <2>1 DEF NoPayment, TypeInv, TypeOK
  <2>3. /\ proc'[r].pc = "book_link" /\ proc'[r].p = p /\ proc'[r].b = proc[r].b
        /\ \A y \in Procs \ {r} : proc'[y] = proc[y]
    BY <1>0, <2>1 DEF TypeInv, TypeOK, Local
  <2>4. Holding(proc[r])'
    BY <2>2, <2>3 DEF Holding, Own, ValPC
  <2>5. SameLinks
    BY <1>5 DEF BookPay, SameLinks
  <2>. QED  BY <1>0, <2>3, <2>4, <2>5, StepLinks DEF SameLinks
<1>6. CASE BookLink(r)
  <2>1. Own(proc[r].p, "booking", proc[r].b) /\ proc[r].p \in Payments /\ proc[r].b \in Bookings
    BY <1>0, <1>6 DEF BookLink, Holding, Named
  <2>2. PICK p \in Payments, b \in Bookings : p = proc[r].p /\ b = proc[r].b
    BY <2>1
  <2>3. Own(p, "booking", b)'
    BY <2>1, <2>2, OwnKept
  <2>4. /\ bookings'[b].tx = p /\ bookings'[b].offerTx = bookings[b].offerTx
        /\ \A c \in Bookings \ {b} : bookings'[c] = bookings[c]
    BY <1>6, <2>2 DEF BookLink, TypeInv, TypeOK, BookingRow
  <2>5. proc'[r] = Idle /\ \A y \in Procs \ {r} : proc'[y] = proc[y]
    BY <1>0, <1>6 DEF BookLink, Return, TypeInv, TypeOK
  <2>6. Idle.pc = "idle"
    BY DEF Idle
  <2>7. Holding(proc[r])'
    BY <2>5, <2>6 DEF Holding, ValPC
  <2>8. OwnOrNone(bookings[b].tx, "booking", b)'
    BY <2>3, <2>4 DEF OwnOrNone, Own
  <2>. QED  BY <1>0, <2>4, <2>5, <2>7, <2>8, StepLinks
<1>. QED
  BY <1>1, <1>2, <1>3, <1>4, <1>5, <1>6 DEF Book

\* validateBookingToken holds the two transactions its booking names.
LEMMA ValidateLinks ==
  ASSUME TypeInv, LinkInv, RowsOnward, NEW r \in Requests, Validate(r) PROVE LinkInv'
<1> USE DEF At
<1>0. r \in Procs /\ proc[r] \in Local /\ Named(r, proc[r]) /\ Holding(proc[r])
  BY DEF Procs, TypeInv, TypeOK, LinkInv
<1>1. ASSUME NEW b \in Bookings, ValidateRead(r, b) PROVE LinkInv'
  <2>1. PICK seen \in {"bare", "token"} : proc' = [proc EXCEPT ![r] =
          [Idle EXCEPT !.pc = "val_check", !.b = b, !.p = bookings[b].tx,
             !.q = bookings[b].offerTx, !.n = bookings[b].n, !.done = bookings[b].done,
             !.seen = seen]]
    BY <1>1 DEF ValidateRead
  <2>2. /\ proc'[r].pc = "val_check" /\ proc'[r].b = b /\ proc'[r].p = bookings[b].tx
        /\ proc'[r].q = bookings[b].offerTx
        /\ \A y \in Procs \ {r} : proc'[y] = proc[y]
    BY <1>0, <2>1 DEF TypeInv, TypeOK, Idle
  <2>3. /\ Own(bookings[b].tx, "booking", b) /\ OwnOrNone(bookings[b].offerTx, "custom_offer", b)
    BY <1>1 DEF ValidateRead, LinkInv, OwnOrNone
  <2>4. UNCHANGED payments /\ SameLinks
    BY <1>1 DEF ValidateRead, SameLinks
  <2>5. Holding(proc[r])'
    BY <2>2, <2>3, <2>4 DEF Holding, Own, OwnOrNone
  <2>. QED  BY <1>0, <2>2, <2>4, <2>5, StepLinks DEF SameLinks
<1>2. ASSUME NEW pc \in ValPC, Goto(r, pc), proc[r].pc \in ValPC, SameLinks PROVE LinkInv'
  BY <1>0, <1>2, GotoLinks
<1>3. ASSUME Return(r), SameLinks PROVE LinkInv'
  BY <1>0, <1>3, ReturnLinks
<1>4. CASE ValidateCheck(r)
  <2>1. SameLinks /\ proc[r].pc \in ValPC /\ (Return(r) \/ Goto(r, "val_capture"))
    BY <1>4 DEF ValidateCheck, SameLinks, ValPC
  <2>. QED  BY <1>2, <1>3, <2>1 DEF ValPC
<1>5. CASE ValidateCapture(r) \/ ValidateCaptureOffer(r)
  <2>1. PICK next \in {"val_transfer", "val_capture_offer"} :
          Capture(r, proc[r].p, next) \/ Capture(r, proc[r].q, next)
    <3>1. CASE ValidateCapture(r) /\ proc[r].q = None
      BY <3>1 DEF ValidateCapture
    <3>2. CASE ValidateCapture(r) /\ proc[r].q # None
      BY <3>2 DEF ValidateCapture
    <3>3. CASE ValidateCaptureOffer(r)
      BY <3>3 DEF ValidateCaptureOffer
    <3>. QED  BY <1>5, <3>1, <3>2, <3>3
  <2>2. SameLinks /\ (Return(r) \/ Goto(r, next))
    BY <2>1 DEF Capture, SameLinks
  <2>3. proc[r].pc \in ValPC /\ next \in ValPC
    BY <1>5 DEF ValidateCapture, ValidateCaptureOffer, ValPC
  <2>. QED  BY <1>2, <1>3, <2>2, <2>3
<1>6. CASE ValidateTransfer(r)
  <2>1. PICK seen : proc' = [proc EXCEPT ![r] = [@ EXCEPT !.pc = "val_write", !.seen = seen]]
    BY <1>6 DEF ValidateTransfer
  <2> DEFINE l == [proc[r] EXCEPT !.pc = "val_write", !.seen = seen]
  <2>2. l.pc = "val_write" /\ l.b = proc[r].b /\ l.p = proc[r].p /\ l.q = proc[r].q
    BY <1>0 DEF Local
  <2>3. SameLinks /\ proc[r].pc \in ValPC /\ "val_write" \in ValPC /\ proc' = [proc EXCEPT ![r] = l]
    BY <1>6, <2>1 DEF ValidateTransfer, SameLinks, ValPC
  <2> HIDE DEF l
  <2>. QED  BY <1>0, <2>2, <2>3, PlainStepLinks
<1>7. CASE ValidateWrite(r)
  <2>1. SameLinks
    BY <1>7 DEF ValidateWrite, SameLinks, TypeInv, TypeOK, BookingRow
  <2>. QED  BY <1>2, <1>7, <2>1 DEF ValidateWrite, ValPC
<1>8. CASE ValidateTx(r) \/ ValidateOfferTx(r)
  <2>1. SameLinks /\ proc[r].pc \in ValPC /\ (Return(r) \/ Goto(r, "val_offer_tx"))
    BY <1>8 DEF ValidateTx, ValidateOfferTx, SameLinks, ValPC
  <2>. QED  BY <1>2, <1>3, <2>1 DEF ValPC
<1>. QED
  BY <1>1, <1>4, <1>5, <1>6, <1>7, <1>8 DEF Validate, ValidateCaptures, ValidateTxs

\* A step that is no part of bookAppointment or validateBookingToken,
OtherStep ==
    \/ \E r \in Requests : Cancel(r) \/ RequestStops(r)
    \/ \E h \in Hooks : Hook(h) \/ HookStops(h)
    \/ ByHand
    \/ ExpiryJob \/ CronStops \/ Environment

\* one that leaves the columns of the bookings these two handlers work from, but for
\* the date of a booking that the coach moves,
SameKeys ==
    \A b \in Bookings :
        /\ bookings'[b].slot = bookings[b].slot \/ b \in hist'.moved
        /\ bookings'[b].n = bookings[b].n
        /\ bookings'[b].done = bookings[b].done /\ bookings'[b].tx = bookings[b].tx
        /\ bookings'[b].offerTx = bookings[b].offerTx

\* the awaits of bookAppointment, and a step in which only x may move, to none of
\* these nor of validateBookingToken.
BookPC == OldPC \cup {"book_write", "book_pay", "book_link"}

OnlyMoves(x) ==
    /\ \A y \in Procs \ {x} : proc'[y] = proc[y]
    /\ proc'[x] = proc[x] \/ proc'[x].pc \notin ValPC \cup BookPC

\* The other handlers write none of these columns.
LEMMA OthersKeep == ASSUME TypeInv, OtherStep PROVE SameKeys
<1> USE DEF At
<1>1. ASSUME NEW b, \/ Void(b)
                    \/ bookings' = [bookings EXCEPT ![b].status = "CANCELLED"]
                    \/ bookings' = [bookings EXCEPT ![b] =
                                      [@ EXCEPT !.status = "CONFIRMED", !.token = "live"]]
                    \/ bookings' = [bookings EXCEPT ![b].token = "expired"]
      PROVE  SameKeys
  <2>1. CASE Void(b)
    BY <2>1 DEF Void, SameKeys, TypeInv, TypeOK, BookingRow
  <2>2. CASE bookings' = [bookings EXCEPT ![b].status = "CANCELLED"]
    BY <2>2 DEF SameKeys, TypeInv, TypeOK, BookingRow
  <2>3. CASE bookings' = [bookings EXCEPT ![b] =
                            [@ EXCEPT !.status = "CONFIRMED", !.token = "live"]]
    BY <2>3 DEF SameKeys, TypeInv, TypeOK, BookingRow
  <2>4. CASE bookings' = [bookings EXCEPT ![b].token = "expired"]
    BY <2>4 DEF SameKeys, TypeInv, TypeOK, BookingRow
  <2>. QED  BY <1>1, <2>1, <2>2, <2>3, <2>4
<1>2. CASE ByHand
  <2>1. ASSUME NEW b \in Bookings, NEW status \in Edits, EditStatus(b, status) PROVE SameKeys
    BY <2>1 DEF EditStatus, SameKeys, TypeInv, TypeOK, BookingRow
  <2>2. ASSUME NEW b \in Bookings, NEW s \in Slots, EditDate(b, s) PROVE SameKeys
    BY <2>2 DEF EditDate, NoteMove, SameKeys, TypeInv, TypeOK, BookingRow
  <2>. QED  BY <1>2, <2>1, <2>2 DEF ByHand
<1>3. CASE UNCHANGED bookings
  BY <1>3 DEF SameKeys
<1>4. ASSUME NEW r \in Requests, Cancel(r) \/ RequestStops(r) PROVE SameKeys
  BY <1>1, <1>3, <1>4 DEF Cancel, CancelRead, CancelWrite, CancelReadTx, CancelRelease,
                           CancelMark, RequestStops
<1>5. ASSUME NEW h \in Hooks, Hook(h) \/ HookStops(h) PROVE SameKeys
  BY <1>1, <1>3, <1>5 DEF Hook, HookBegin, HookContinue, HookCapturable, HookSucceeded,
       HookFailed, HookCanceled, HookRequiresAction, HookUpdateTx, HookConfirm, HookAuthorized,
       HookCaptured, HookFind, HookVoid, HookStops
<1>6. CASE ExpiryJob \/ CronStops
  BY <1>1, <1>3, <1>6 DEF ExpiryJob, CronSelect, CronPick, CronSettle, CronMark, CronVoid, CronStops
<1>7. CASE Environment
  BY <1>1, <1>3, <1>7 DEF Environment, Authorize, DeclineOrChallenge, HoldLapses, TokenExpires
<1>. QED
  BY <1>2, <1>4, <1>5, <1>6, <1>7 DEF OtherStep

\* Each step of them moves one handler, to none of those awaits.
LEMMA OthersMove == ASSUME TypeInv, OtherStep PROVE \E x \in Procs : OnlyMoves(x)
<1> USE DEF At
<1>1. ASSUME NEW x \in Procs, NEW l, proc' = [proc EXCEPT ![x] = l], l.pc \notin ValPC \cup BookPC
      PROVE  \E y \in Procs : OnlyMoves(y)
  BY <1>1 DEF OnlyMoves, TypeInv, TypeOK
<1>2. ASSUME NEW x \in Procs, Return(x) PROVE \E y \in Procs : OnlyMoves(y)
  <2>1. Idle.pc \notin ValPC \cup BookPC
    BY DEF Idle, ValPC, BookPC, OldPC
  <2>. QED  BY <1>1, <1>2, <2>1 DEF Return
<1>3. ASSUME NEW x \in Procs, NEW pc \in {"cancel_read_tx", "cancel_release", "cancel_mark",
                "hook_authorized", "cron_mark", "cron_void"}, Goto(x, pc)
      PROVE  \E y \in Procs : OnlyMoves(y)
  <2> DEFINE l == [proc[x] EXCEPT !.pc = pc]
  <2>1. l.pc = pc /\ proc' = [proc EXCEPT ![x] = l]
    BY <1>3 DEF Goto, TypeInv, TypeOK, Local
  <2>2. pc \notin ValPC \cup BookPC
    BY DEF ValPC, BookPC, OldPC
  <2> HIDE DEF l
  <2>. QED  BY <1>1, <2>1, <2>2
<1>4. ASSUME UNCHANGED proc PROVE \E y \in Procs : OnlyMoves(y)
  <2>1. Cron \in Procs
    BY DEF Procs
  <2>. QED  BY <1>4, <2>1 DEF OnlyMoves
<1>5. ASSUME NEW x \in Procs, NEW l, proc' = [proc EXCEPT ![x] = l],
             l.pc \in {"idle", "cancel_write", "hook_authorized", "hook_confirm", "hook_captured",
                       "hook_find", "hook_void", "cron_settle"}
      PROVE  \E y \in Procs : OnlyMoves(y)
  <2>1. l.pc \notin ValPC \cup BookPC
    BY <1>5 DEF ValPC, BookPC, OldPC
  <2>. QED  BY <1>1, <1>5, <2>1
<1>6. ASSUME NEW r \in Requests, Cancel(r) \/ RequestStops(r) PROVE \E y \in Procs : OnlyMoves(y)
  <2>1. r \in Procs
    BY DEF Procs
  <2>2. ASSUME NEW b \in Bookings, CancelRead(r, b) PROVE \E y \in Procs : OnlyMoves(y)
    <3> DEFINE l == [Idle EXCEPT !.pc = "cancel_write", !.b = b, !.p = bookings[b].tx]
    <3>1. l.pc = "cancel_write" /\ proc' = [proc EXCEPT ![r] = l]
      BY <2>2 DEF CancelRead, Idle
    <3> HIDE DEF l
    <3>. QED  BY <1>5, <2>1, <3>1
  <2>. QED  BY <1>2, <1>3, <1>6, <2>1, <2>2
            DEF Cancel, CancelWrite, CancelReadTx, CancelRelease, CancelMark, RequestStops
<1>7. ASSUME NEW h \in Hooks, Hook(h) \/ HookStops(h) PROVE \E y \in Procs : OnlyMoves(y)
  <2>1. h \in Procs
    BY DEF Procs
  <2>2. ASSUME NEW p \in Payments, HookCapturable(h, p) PROVE \E y \in Procs : OnlyMoves(y)
    <3>1. PICK b \in LinkedTo(p), pc \in {"hook_authorized", "hook_confirm"} :
            proc' = [proc EXCEPT ![h] =
               [Idle EXCEPT !.p = p, !.b = b, !.seen = "capturable", !.pc = pc]]
      BY <2>2 DEF HookCapturable
    <3> DEFINE l == [Idle EXCEPT !.p = p, !.b = b, !.seen = "capturable", !.pc = pc]
    <3>2. l.pc = pc /\ proc' = [proc EXCEPT ![h] = l]
      BY <3>1 DEF Idle
    <3> HIDE DEF l
    <3>. QED  BY <1>5, <2>1, <3>2
  <2>3. ASSUME NEW p \in Payments, NEW kind, NEW status,
               NEW next \in {"idle", "hook_captured", "hook_find"},
               HookUpdateTx(h, p, kind, status, next)
        PROVE  \E y \in Procs : OnlyMoves(y)
    <3> DEFINE l == IF next = "idle" THEN Idle ELSE [Idle EXCEPT !.p = p, !.pc = next, !.seen = kind]
    <3>1. l.pc \in {"idle", "hook_captured", "hook_find"} /\ proc' = [proc EXCEPT ![h] = l]
      BY <2>3 DEF HookUpdateTx, Idle
    <3> HIDE DEF l
    <3>. QED  BY <1>5, <2>1, <3>1
  <2>4. CASE HookFind(h)
    <3>1. ASSUME NEW b, proc' = [proc EXCEPT ![h] = [@ EXCEPT !.pc = "hook_void", !.b = b]]
          PROVE  \E y \in Procs : OnlyMoves(y)
      <4> DEFINE l == [proc[h] EXCEPT !.pc = "hook_void", !.b = b]
      <4>1. l.pc = "hook_void" /\ proc' = [proc EXCEPT ![h] = l]
        BY <2>1, <3>1 DEF TypeInv, TypeOK, Local
      <4> HIDE DEF l
      <4>. QED  BY <1>5, <2>1, <4>1
    <3>. QED  BY <1>2, <2>1, <2>4, <3>1 DEF HookFind
  <2>5. CASE HookConfirm(h) \/ HookAuthorized(h) \/ HookCaptured(h) \/ HookVoid(h) \/ HookStops(h)
    BY <1>2, <1>3, <2>1, <2>5 DEF HookConfirm, HookAuthorized, HookCaptured, HookVoid, HookStops
  <2>. QED  BY <1>7, <2>2, <2>3, <2>4, <2>5 DEF Hook, HookBegin, HookContinue, HookSucceeded,
              HookFailed, HookCanceled, HookRequiresAction
<1>8. CASE ExpiryJob \/ CronStops
  <2>1. Cron \in Procs
    BY DEF Procs
  <2>2. CASE CronPick
    <3>1. PICK job \in due : proc' = [proc EXCEPT ![Cron] =
            [Idle EXCEPT !.pc = "cron_settle", !.b = job[1], !.p = job[2],
               !.seen = IF payments[job[2]].intent = "succeeded" THEN "charged" ELSE "hold"]]
      BY <2>2 DEF CronPick
    <3> DEFINE l == [Idle EXCEPT !.pc = "cron_settle", !.b = job[1], !.p = job[2],
               !.seen = IF payments[job[2]].intent = "succeeded" THEN "charged" ELSE "hold"]
    <3>2. l.pc = "cron_settle" /\ proc' = [proc EXCEPT ![Cron] = l]
      BY <3>1 DEF Idle
    <3> HIDE DEF l
    <3>. QED  BY <1>5, <2>1, <3>2
  <2>. QED  BY <1>2, <1>3, <1>4, <1>8, <2>1, <2>2
            DEF ExpiryJob, CronSelect, CronSettle, CronMark, CronVoid, CronStops
<1>9. CASE Environment \/ ByHand
  BY <1>4, <1>9 DEF Environment, Authorize, DeclineOrChallenge, HoldLapses, TokenExpires,
                       ByHand, EditStatus, EditDate
<1>. QED
  BY <1>6, <1>7, <1>8, <1>9 DEF OtherStep

\* So they link nothing.
LEMMA OtherLinks == ASSUME TypeInv, LinkInv, RowsOnward, OtherStep PROVE LinkInv'
<1>1. SameKeys
  BY OthersKeep
<1>2. PICK x \in Procs : OnlyMoves(x)
  BY OthersMove
<1>3. proc'[x] = proc[x] \/ Holding(proc[x])'
  BY <1>2 DEF OnlyMoves, Holding, BookPC
<1>. QED
  BY <1>1, <1>2, <1>3, StepLinks DEF SameKeys, OnlyMoves

\* Every step keeps the links.
LEMMA LinkNext == ASSUME TypeInv, LinkInv, [Next]_vars PROVE LinkInv'
<1>1. RowsOnward
  BY OnwardNext
<1>2. CASE UNCHANGED vars
  <2>1. Cron \in Procs
    BY DEF Procs
  <2>. QED  BY <1>1, <1>2, <2>1, StepLinks DEF vars
<1>. QED
  BY <1>1, <1>2, BookLinks, ValidateLinks, OtherLinks DEF Next, OtherStep

\* No booking and no handler names a transaction at first.
LEMMA LinkStarts == ASSUME Init PROVE LinkInv
<1>1. /\ \A b \in Bookings : bookings[b].tx = None /\ bookings[b].offerTx = None
      /\ \A x \in Procs : proc[x].pc = "idle"
  BY DEF Init, NoBooking, Idle
<1>. QED
  BY <1>1 DEF LinkInv, OwnOrNone, Holding, ValPC

\* A transaction was made for the booking that names it; two bookings never name the same.
LEMMA LinksAreOwn == ASSUME LinkInv PROVE PaymentsLinked
  BY DEF LinkInv, OwnOrNone, Own, PaymentsLinked

\* The links hold in every behaviour.
LEMMA LinkInvariant == Spec => []LinkInv
<1>1. Init => LinkInv
  BY LinkStarts
<1>2. TypeInv /\ LinkInv /\ [Next]_vars => LinkInv'
  BY LinkNext
<1>. QED
  BY <1>1, <1>2, TypeInvariant, PTL DEF Spec

\* The webhook's findFirst by payment_transaction_id can only find one row, in every
\* interleaving and with every fault.
THEOREM PaymentsAreLinked == Spec => []PaymentsLinked
  BY LinksAreOwn, LinkInvariant, PTL

-----------------------------------------------------------------------------
(* One handler at a time: without Overlap at most one handler is in        *)
(* progress, and the job's list is empty while another one is.             *)

AloneInv ==
    /\ \A x, y \in Procs : proc[x].pc # "idle" /\ proc[y].pc # "idle" => x = y
    /\ due # {} => \A x \in Procs \ {Cron} : proc[x].pc = "idle"

\* Only x moves: it was in progress, it starts, or it is the job going on with its list.
Moves(x) ==
    /\ \A y \in Procs \ {x} : proc'[y] = proc[y]
    /\ proc'[x] = proc[x] \/ proc[x].pc # "idle" \/ MayStart(x) \/ (x = Cron /\ due # {})
    /\ due' \subseteq due \/ (x = Cron /\ MayStart(Cron) /\ UNCHANGED proc)

\* Each step of bookAppointment and of validateBookingToken moves its request,
LEMMA RequestMoves ==
  ASSUME TypeInv, NEW r \in Requests, Book(r) \/ Validate(r) PROVE Moves(r)
<1> USE DEF At
<1>0. r \in Procs /\ proc \in [Procs -> Local]
  BY DEF Procs, TypeInv, TypeOK
<1>1. ASSUME NEW l, proc' = [proc EXCEPT ![r] = l], UNCHANGED due, proc[r].pc # "idle" \/ MayStart(r)
      PROVE  Moves(r)
  BY <1>0, <1>1 DEF Moves
<1>2. ASSUME NEW p, NEW next, Capture(r, p, next), proc[r].pc # "idle" PROVE Moves(r)
  BY <1>1, <1>2 DEF Capture, Goto, Return
<1>3. CASE Book(r)
  BY <1>1, <1>3 DEF Book, BookRead, BookCreate, BookUpdate, BookReadOld, BookCancelOld, BookMarkOld,
                    BookPay, BookLink, Goto, Return
<1>4. CASE ValidateCapture(r) \/ ValidateCaptureOffer(r)
  BY <1>2, <1>4 DEF ValidateCapture, ValidateCaptureOffer
<1>5. CASE (\E b \in Bookings : ValidateRead(r, b)) \/ ValidateCheck(r) \/ ValidateTransfer(r)
             \/ ValidateWrite(r) \/ ValidateTx(r) \/ ValidateOfferTx(r)
  BY <1>1, <1>5 DEF ValidateRead, ValidateCheck, ValidateTransfer, ValidateWrite, ValidateTx,
                    ValidateOfferTx, Goto, Return
<1>. QED
  BY <1>3, <1>4, <1>5 DEF Validate, ValidateCaptures, ValidateTxs

\* each step of the other handlers moves its own,
LEMMA OtherMoves == ASSUME TypeInv, OtherStep PROVE \E x \in Procs : Moves(x)
<1> USE DEF At
<1>0. /\ proc \in [Procs -> Local] /\ Cron \in Procs
      /\ \A r \in Requests : r \in Procs
      /\ \A h \in Hooks : h \in Procs
  BY DEF Procs, TypeInv, TypeOK
<1>1. ASSUME NEW x \in Procs, NEW l, proc' = [proc EXCEPT ![x] = l], due' \subseteq due,
             proc[x].pc # "idle" \/ MayStart(x) \/ (x = Cron /\ due # {})
      PROVE  Moves(x)
  BY <1>0, <1>1 DEF Moves
<1>2. ASSUME UNCHANGED <<proc, due>> PROVE Moves(Cron)
  BY <1>2 DEF Moves
<1>3. ASSUME NEW r \in Requests, Cancel(r) \/ RequestStops(r) PROVE Moves(r)
  BY <1>0, <1>1, <1>3 DEF Cancel, CancelRead, CancelWrite, CancelReadTx, CancelRelease, CancelMark,
                          RequestStops, Goto, Return
<1>4. ASSUME NEW h \in Hooks, Hook(h) \/ HookStops(h) PROVE Moves(h)
  <2>1. ASSUME NEW p, NEW kind, NEW status, NEW next, HookUpdateTx(h, p, kind, status, next)
        PROVE  Moves(h)
    BY <1>0, <1>1, <2>1 DEF HookUpdateTx, Deliver
  <2>2. ASSUME NEW p \in Payments, HookCapturable(h, p) PROVE Moves(h)
    BY <1>0, <1>1, <2>2 DEF HookCapturable, Deliver
  <2>3. CASE HookContinue(h) \/ HookStops(h)
    BY <1>0, <1>1, <2>3 DEF HookContinue, HookConfirm, HookAuthorized, HookCaptured, HookFind,
                            HookVoid, HookStops, Goto, Return
  <2>. QED  BY <1>4, <2>1, <2>2, <2>3 DEF Hook, HookBegin, HookSucceeded, HookFailed, HookCanceled,
                                          HookRequiresAction
<1>5. CASE ExpiryJob \/ CronStops
  <2>1. CASE CronSelect
    BY <1>0, <2>1 DEF CronSelect, Moves
  <2>2. CASE CronPick
    BY <1>0, <1>1, <2>2 DEF CronPick
  <2>3. CASE CronSettle \/ CronMark \/ CronVoid \/ CronStops
    BY <1>0, <1>1, <2>3 DEF CronSettle, CronMark, CronVoid, CronStops, Goto, Return
  <2>. QED  BY <1>0, <1>5, <2>1, <2>2, <2>3 DEF ExpiryJob
<1>6. CASE Environment \/ ByHand
  BY <1>0, <1>2, <1>6 DEF Environment, Authorize, DeclineOrChallenge, HoldLapses, TokenExpires,
                       ByHand, EditStatus, EditDate
<1>. QED
  BY <1>0, <1>3, <1>4, <1>5, <1>6 DEF OtherStep

\* so no second handler gets into progress.
LEMMA AloneNext == ASSUME ~Overlap, TypeInv, AloneInv, [Next]_vars PROVE AloneInv'
<1>1. CASE UNCHANGED vars
  BY <1>1 DEF vars, AloneInv
<1>2. CASE Next
  <2>1. PICK x \in Procs : Moves(x)
    <3>1. \A r \in Requests : r \in Procs
      BY DEF Procs
    <3>. QED  BY <1>2, <3>1, RequestMoves, OtherMoves DEF Next, OtherStep
  <2>2. CASE UNCHANGED proc
    BY <2>1, <2>2 DEF Moves, MayStart, AloneInv
  <2>3. CASE due' \subseteq due /\ proc'[x] # proc[x]
    <3>1. \A y \in Procs \ {x} : proc[y].pc = "idle"
      BY <2>1, <2>3 DEF Moves, MayStart, AloneInv
    <3>2. due # {} => x = Cron
      BY <2>1, <2>3 DEF Moves, MayStart, AloneInv
    <3>. QED  BY <2>1, <2>3, <3>1, <3>2 DEF Moves, AloneInv
  <2>4. CASE proc'[x] = proc[x]
    <3>1. \A y \in Procs : proc'[y] = proc[y]
      BY <2>1, <2>4 DEF Moves
    <3>2. CASE due' \subseteq due
      BY <3>1, <3>2 DEF AloneInv
    <3>3. CASE MayStart(Cron)
      BY <3>1, <3>3 DEF AloneInv, MayStart
    <3>. QED  BY <2>1, <3>2, <3>3 DEF Moves
  <2>. QED  BY <2>1, <2>2, <2>3, <2>4 DEF Moves
<1>. QED
  BY <1>1, <1>2

\* Two bookings on one date are explained by a move of the coach, and so are a booking
\* there already and the one that is about to be written there.
SlotInv ==
    /\ OneBookingPerSlot
    /\ \A x \in Procs : proc[x].pc = "book_write" =>
          \A c \in Bookings \ {proc[x].b} :
             bookings[c].slot = proc[x].slot => c \in hist.moved \/ proc[x].b \in hist.moved

\* What a validation read of its booking is still there when it is used.
Fresh(l) ==
    /\ l.pc \in ValPC => l.p = bookings[l.b].tx /\ l.q = bookings[l.b].offerTx
    /\ l.pc \in BeforeTransfer \cup {"val_write"} => l.n = bookings[l.b].n /\ l.done = bookings[l.b].done

FreshInv == \A x \in Procs : Fresh(proc[x])

SerialInv == AloneInv /\ SlotInv /\ FreshInv

\* While a request is in progress, or starts, no other handler is.
LEMMA OthersIdle ==
  ASSUME ~Overlap, TypeInv, AloneInv, NEW r \in Requests, Book(r) \/ Validate(r)
  PROVE  /\ \A y \in Procs \ {r} : proc[y].pc = "idle" /\ proc'[y].pc = "idle"
         /\ due = {}
<1> USE DEF At
<1>1. r \in Procs /\ r # Cron /\ Moves(r)
  BY RequestMoves, ProcsDisjoint DEF Procs
<1>2. MayStart(r) \/ proc[r].pc # "idle"
  BY DEF Book, BookRead, BookCreate, BookUpdate, BookReadOld, BookCancelOld, BookMarkOld, BookPay,
         BookLink, Validate, ValidateRead, ValidateCheck, ValidateCaptures, ValidateCapture,
         ValidateCaptureOffer, ValidateTransfer, ValidateWrite, ValidateTxs, ValidateTx,
         ValidateOfferTx
<1>. QED
  BY <1>1, <1>2 DEF Moves, MayStart, AloneInv

\* A validation writes no link and no slot, and goes on among its awaits or ends.
LEMMA ValidateKeeps ==
  ASSUME TypeInv, NEW r \in Requests, Validate(r)
  PROVE  /\ \A b \in Bookings : /\ bookings'[b].slot = bookings[b].slot
                                /\ bookings'[b].n = bookings[b].n
                                /\ bookings'[b].tx = bookings[b].tx
                                /\ bookings'[b].offerTx = bookings[b].offerTx
         /\ proc'[r].pc \in ValPC \cup {"idle"}
         /\ ~At(r, "val_write") => UNCHANGED bookings
<1> USE DEF At
<1>0. r \in Procs /\ proc[r] \in Local /\ proc \in [Procs -> Local]
  BY DEF Procs, TypeInv, TypeOK
<1>7. ASSUME NEW pc, Goto(r, pc) PROVE proc'[r].pc = pc
  BY <1>0, <1>7 DEF Goto, Local
<1>8. ASSUME Return(r) PROVE proc'[r].pc = "idle"
  BY <1>0, <1>8 DEF Return, Idle
<1>1. ASSUME NEW p, NEW next \in ValPC, Capture(r, p, next)
      PROVE  UNCHANGED bookings /\ proc'[r].pc \in ValPC \cup {"idle"}
  <2>1. UNCHANGED bookings /\ (Goto(r, next) \/ Return(r))
    BY <1>1 DEF Capture
  <2>. QED  BY <1>7, <1>8, <2>1
<1>2. CASE ValidateCaptures(r)
  <2>1. "val_transfer" \in ValPC /\ "val_capture_offer" \in ValPC
    BY DEF ValPC
  <2>. QED  BY <1>1, <1>2, <2>1 DEF ValidateCaptures, ValidateCapture, ValidateCaptureOffer
<1>3. CASE \E b \in Bookings : ValidateRead(r, b)
  <2>1. PICK b \in Bookings, seen \in {"bare", "token"} : proc' = [proc EXCEPT ![r] =
          [Idle EXCEPT !.pc = "val_check", !.b = b, !.p = bookings[b].tx,
             !.q = bookings[b].offerTx, !.n = bookings[b].n, !.done = bookings[b].done,
             !.seen = seen]]
    BY <1>3 DEF ValidateRead
  <2>2. proc'[r].pc = "val_check"
    BY <1>0, <2>1 DEF Idle
  <2>. QED  BY <1>3, <2>2 DEF ValidateRead, ValPC
<1>4. CASE ValidateTransfer(r)
  <2>1. PICK seen : proc' = [proc EXCEPT ![r] = [@ EXCEPT !.pc = "val_write", !.seen = seen]]
    BY <1>4 DEF ValidateTransfer
  <2>2. proc'[r].pc = "val_write"
    BY <1>0, <2>1 DEF Local
  <2>. QED  BY <1>4, <2>2 DEF ValidateTransfer, ValPC
<1>5. CASE ValidateWrite(r)
  <2>1. proc'[r].pc = "val_tx"
    BY <1>0, <1>5 DEF ValidateWrite, Goto, Local
  <2>. QED  BY <1>5, <2>1 DEF ValidateWrite, TypeInv, TypeOK, BookingRow, ValPC
<1>6. CASE ValidateCheck(r) \/ ValidateTxs(r)
  BY <1>6, <1>7, <1>8 DEF ValidateCheck, ValidateTxs, ValidateTx, ValidateOfferTx, ValPC
<1>. QED
  BY <1>2, <1>3, <1>4, <1>5, <1>6 DEF Validate

\* What the coach moved stays moved.
LEMMA MovedGrows == ASSUME TypeInv, [Next]_vars PROVE hist.moved \subseteq hist'.moved
<1>0. hist \in [transfers : [Bookings -> Nat], uses : [Bookings -> Nat],
                edited : SUBSET Bookings, moved : SUBSET Bookings]
  BY DEF TypeInv, TypeOK
<1>1. CASE UNCHANGED hist
  BY <1>1
<1>2. ASSUME NEW r \in Requests, Book(r) PROVE UNCHANGED hist
  BY <1>2 DEF Book, BookRead, BookCreate, BookUpdate, BookReadOld, BookCancelOld, BookMarkOld, BookPay,
              BookLink
<1>3. ASSUME NEW r \in Requests, Cancel(r) \/ RequestStops(r) PROVE UNCHANGED hist
  BY <1>3 DEF Cancel, CancelRead, CancelWrite, CancelReadTx, CancelRelease, CancelMark, RequestStops
<1>4. ASSUME NEW r \in Requests, Validate(r) PROVE hist'.moved = hist.moved
  <2>1. CASE ValidateCheck(r)
    BY <1>0, <2>1 DEF ValidateCheck
  <2>2. CASE ValidateTransfer(r)
    BY <1>0, <2>2 DEF ValidateTransfer
  <2>. QED  BY <1>4, <2>1, <2>2 DEF Validate, ValidateRead, ValidateCaptures, ValidateCapture,
              ValidateCaptureOffer, Capture, ValidateWrite, ValidateTxs, ValidateTx, ValidateOfferTx
<1>5. ASSUME NEW h \in Hooks, Hook(h) \/ HookStops(h) PROVE UNCHANGED hist
  BY <1>5 DEF Hook, HookBegin, HookContinue, HookCapturable, HookSucceeded, HookFailed, HookCanceled,
              HookRequiresAction, HookUpdateTx, HookConfirm, HookAuthorized, HookCaptured, HookFind,
              HookVoid, HookStops
<1>6. CASE ExpiryJob \/ CronStops \/ Environment
  BY <1>6 DEF ExpiryJob, CronSelect, CronPick, CronSettle, CronMark, CronVoid, CronStops, Environment,
              Authorize, DeclineOrChallenge, HoldLapses, TokenExpires
<1>7. CASE ByHand
  BY <1>0, <1>7 DEF ByHand, EditStatus, EditDate, NoteMove
<1>. QED
  BY <1>1, <1>2, <1>3, <1>4, <1>5, <1>6, <1>7 DEF Next, vars

\* Booking and validating alone, a request finds its slot free when it takes it.
LEMMA SlotNext == ASSUME ~Overlap, TypeInv, AloneInv, SlotInv, [Next]_vars PROVE SlotInv'
<1> USE DEF At
<1>0. hist.moved \subseteq hist'.moved
  BY MovedGrows
<1>1. ASSUME \A b \in Bookings : bookings'[b].slot = bookings[b].slot \/ b \in hist'.moved,
             \A x \in Procs : proc'[x] = proc[x] \/ proc'[x].pc # "book_write"
      PROVE  SlotInv'
  <2>1. ASSUME NEW b \in Bookings, NEW c \in Bookings, b # c, bookings'[b].slot # None,
               bookings'[b].slot = bookings'[c].slot
        PROVE  b \in hist'.moved \/ c \in hist'.moved
    BY <1>0, <1>1, <2>1 DEF SlotInv, OneBookingPerSlot
  <2>2. ASSUME NEW x \in Procs, proc'[x].pc = "book_write", NEW c \in Bookings \ {proc'[x].b},
               bookings'[c].slot = proc'[x].slot
        PROVE  c \in hist'.moved \/ proc'[x].b \in hist'.moved
    BY <1>0, <1>1, <2>2 DEF SlotInv
  <2>. QED  BY <2>1, <2>2 DEF SlotInv, OneBookingPerSlot
<1>2. CASE UNCHANGED vars
  BY <1>1, <1>2 DEF vars
<1>3. CASE OtherStep
  <2>1. PICK x \in Procs : OnlyMoves(x)
    BY <1>3, OthersMove
  <2>. QED  BY <1>1, <1>3, <2>1, OthersKeep DEF OnlyMoves, SameKeys, BookPC
<1>4. ASSUME NEW r \in Requests, Book(r) \/ Validate(r) PROVE SlotInv'
  <2>0. /\ r \in Procs /\ proc[r] \in Local /\ Named(r, proc[r])
        /\ \A y \in Procs \ {r} : proc'[y].pc # "book_write"
    BY <1>4, OthersIdle DEF Procs, TypeInv, TypeOK
  <2>1. ASSUME \A b \in Bookings : bookings'[b].slot = bookings[b].slot,
               proc'[r].pc # "book_write"
        PROVE  SlotInv'
    BY <1>1, <2>0, <2>1
  <2>2. ASSUME NEW pc, pc # "book_write", Goto(r, pc) PROVE proc'[r].pc # "book_write"
    BY <2>0, <2>2 DEF Goto, TypeInv, TypeOK, Local
  <2>3. ASSUME Return(r) PROVE proc'[r].pc # "book_write"
    BY <2>0, <2>3 DEF Return, Idle, TypeInv, TypeOK
  <2>4. ASSUME NEW s \in Slots, NEW n \in Sizes, BookRead(r, s, n) PROVE SlotInv'
    <3>1. PICK b \in Bookings \cup {None} :
            /\ IF b = None THEN NoDuplicate(s) ELSE bookings[b].slot = s
            /\ proc' = [proc EXCEPT ![r] =
                  [Idle EXCEPT !.pc = "book_write", !.slot = s, !.b = b, !.n = n]]
      BY <2>4 DEF BookRead
    <3>2. proc'[r].slot = s /\ proc'[r].b = b
      BY <2>0, <3>1 DEF Idle, TypeInv, TypeOK
    <3>3. UNCHANGED <<bookings, hist>>
      BY <2>4 DEF BookRead
    <3>4. ASSUME NEW c \in Bookings \ {b}, bookings[c].slot = s PROVE c \in hist.moved \/ b \in hist.moved
      <4>1. b \in Bookings /\ bookings[b].slot = s
        BY <3>1, <3>4 DEF NoDuplicate
      <4>2. s # None
        BY NoneIsNoKey
      <4>. QED  BY <3>4, <4>1, <4>2 DEF SlotInv, OneBookingPerSlot
    <3>. QED  BY <2>0, <3>2, <3>3, <3>4 DEF SlotInv, OneBookingPerSlot
  <2>11. ASSUME NEW b \in Bookings, bookings'[b].slot = proc[r].slot, proc[r].b \in {None, b},
                proc[r].pc = "book_write", proc'[r].pc # "book_write", UNCHANGED hist,
                \A c \in Bookings \ {b} : bookings'[c].slot = bookings[c].slot
         PROVE  SlotInv'
    <3>1. None \notin hist.moved
      BY NoneIsNoKey DEF TypeInv, TypeOK
    <3>2. \A c \in Bookings \ {b} : bookings[c].slot = proc[r].slot => c \in hist.moved \/ b \in hist.moved
      BY <2>0, <2>11, <3>1, NoneIsNoKey DEF SlotInv
    <3>3. OneBookingPerSlot'
      BY <2>11, <3>2 DEF SlotInv, OneBookingPerSlot
    <3>. QED  BY <2>0, <2>11, <3>3 DEF SlotInv
  <2>5. CASE BookCreate(r)
    <3>1. PICK b \in Bookings :
            /\ bookings' = [bookings EXCEPT ![b] =
                  [NoBooking EXCEPT !.slot = proc[r].slot, !.status = "PENDING", !.n = proc[r].n]]
            /\ proc' = [proc EXCEPT ![r] = [@ EXCEPT !.pc = "book_pay", !.b = b]]
      BY <2>5 DEF BookCreate
    <3>2. /\ bookings'[b].slot = proc[r].slot
          /\ \A c \in Bookings \ {b} : bookings'[c] = bookings[c]
      BY <3>1 DEF NoBooking, TypeInv, TypeOK
    <3>3. proc'[r].pc = "book_pay"
      BY <2>0, <3>1 DEF TypeInv, TypeOK, Local
    <3>4. proc[r].pc = "book_write" /\ proc[r].b = None /\ UNCHANGED hist
      BY <2>5 DEF BookCreate
    <3>. QED  BY <2>11, <3>2, <3>3, <3>4
  <2>6. CASE BookUpdate(r)
    <3> DEFINE b == proc[r].b
    <3>1. b \in Bookings /\ proc[r].pc = "book_write" /\ UNCHANGED hist
      BY <2>0, <2>6 DEF BookUpdate, Local
    <3>2. bookings' = [bookings EXCEPT ![b] = [@ EXCEPT !.slot = proc[r].slot, !.status = "PENDING",
                                                        !.n = proc[r].n, !.done = 0]]
      BY <2>6 DEF BookUpdate
    <3>3. /\ bookings'[b].slot = proc[r].slot
          /\ \A c \in Bookings \ {b} : bookings'[c] = bookings[c]
      BY <3>1, <3>2 DEF TypeInv, TypeOK, BookingRow
    <3>4. PICK pc \in {"book_pay", "book_read_old"} :
            proc' = [proc EXCEPT ![r] = [@ EXCEPT !.q = bookings[b].tx, !.pc = pc]]
      BY <2>6 DEF BookUpdate
    <3>5. proc'[r].pc = pc
      BY <2>0, <3>4 DEF TypeInv, TypeOK, Local
    <3>. QED  BY <2>11, <3>1, <3>3, <3>5
  <2>7. CASE BookReadOld(r) \/ BookCancelOld(r) \/ BookMarkOld(r)
    BY <2>1, <2>2, <2>7 DEF BookReadOld, BookCancelOld, BookMarkOld
  <2>8. CASE BookPay(r)
    <3>1. PICK p : proc' = [proc EXCEPT ![r] = [@ EXCEPT !.pc = "book_link", !.p = p]]
      BY <2>8 DEF BookPay
    <3>2. proc'[r].pc = "book_link"
      BY <2>0, <3>1 DEF TypeInv, TypeOK, Local
    <3>. QED  BY <2>1, <2>8, <3>2 DEF BookPay
  <2>9. CASE BookLink(r)
    <3>1. \A b \in Bookings : bookings'[b].slot = bookings[b].slot
      BY <2>9 DEF BookLink, TypeInv, TypeOK, BookingRow
    <3>. QED  BY <2>1, <2>3, <2>9, <3>1 DEF BookLink
  <2>10. CASE Validate(r)
    BY <2>0, <2>1, <2>10, ValidateKeeps DEF ValPC
  <2>. QED  BY <1>4, <2>4, <2>5, <2>6, <2>7, <2>8, <2>9, <2>10 DEF Book
<1>. QED
  BY <1>2, <1>3, <1>4 DEF Next, OtherStep

\* Nobody writes the row of a booking between its validation's awaits.
LEMMA FreshNext == ASSUME ~Overlap, TypeInv, AloneInv, FreshInv, [Next]_vars PROVE FreshInv'
<1> USE DEF At
<1>1. CASE UNCHANGED vars
  BY <1>1 DEF vars, FreshInv, Fresh
<1>2. ASSUME NEW x \in Procs, proc'[x].pc \notin ValPC PROVE Fresh(proc[x])'
  BY <1>2 DEF Fresh, BeforeTransfer, ValPC
<1>3. CASE OtherStep
  <2>1. PICK x \in Procs : OnlyMoves(x)
    BY <1>3, OthersMove
  <2>2. SameKeys
    BY <1>3, OthersKeep
  <2>3. ASSUME NEW y \in Procs PROVE Fresh(proc[y])'
    <3>1. CASE proc'[y] = proc[y]
      <4>1. proc[y].pc \in ValPC => proc[y].b \in Bookings
        BY DEF TypeInv, Named
      <4>. QED  BY <2>2, <3>1, <4>1 DEF FreshInv, Fresh, SameKeys, BeforeTransfer, ValPC
    <3>. QED  BY <1>2, <2>1, <3>1 DEF OnlyMoves
  <2>. QED  BY <2>3 DEF FreshInv
<1>4. ASSUME NEW r \in Requests, Book(r) PROVE FreshInv'
  <2>0. /\ r \in Procs /\ proc[r] \in Local
        /\ \A y \in Procs \ {r} : proc'[y].pc \notin ValPC
    BY <1>4, OthersIdle DEF Procs, TypeInv, TypeOK, ValPC
  <2>1. ASSUME NEW l, proc' = [proc EXCEPT ![r] = l], l.pc \in BookPC \cup {"idle"} PROVE FreshInv'
    <3>1. proc'[r].pc \notin ValPC
      BY <2>0, <2>1 DEF TypeInv, TypeOK, BookPC, OldPC, ValPC
    <3>. QED  BY <1>2, <2>0, <3>1 DEF FreshInv
  <2>2. ASSUME NEW pc \in BookPC, Goto(r, pc) PROVE FreshInv'
    <3> DEFINE l == [proc[r] EXCEPT !.pc = pc]
    <3>1. l.pc = pc /\ proc' = [proc EXCEPT ![r] = l]
      BY <2>0, <2>2 DEF Goto, TypeInv, TypeOK, Local
    <3> HIDE DEF l
    <3>. QED  BY <2>1, <2>2, <3>1
  <2>3. ASSUME NEW s \in Slots, NEW n \in Sizes, BookRead(r, s, n) PROVE FreshInv'
    <3>1. PICK b \in Bookings \cup {None} : proc' = [proc EXCEPT ![r] =
            [Idle EXCEPT !.pc = "book_write", !.slot = s, !.b = b, !.n = n]]
      BY <2>3 DEF BookRead
    <3> DEFINE l == [Idle EXCEPT !.pc = "book_write", !.slot = s, !.b = b, !.n = n]
    <3>2. l.pc \in BookPC /\ proc' = [proc EXCEPT ![r] = l]
      BY <3>1 DEF Idle, BookPC
    <3> HIDE DEF l
    <3>. QED  BY <2>1, <3>2
  <2>4. CASE BookCreate(r)
    <3>1. PICK b \in Bookings : proc' = [proc EXCEPT ![r] = [@ EXCEPT !.pc = "book_pay", !.b = b]]
      BY <2>4 DEF BookCreate
    <3> DEFINE l == [proc[r] EXCEPT !.pc = "book_pay", !.b = b]
    <3>2. l.pc \in BookPC /\ proc' = [proc EXCEPT ![r] = l]
      BY <2>0, <3>1 DEF Local, BookPC
    <3> HIDE DEF l
    <3>. QED  BY <2>1, <3>2
  <2>5. CASE BookUpdate(r)
    <3>1. PICK pc \in {"book_pay", "book_read_old"} :
            proc' = [proc EXCEPT ![r] = [@ EXCEPT !.q = bookings[proc[r].b].tx, !.pc = pc]]
      BY <2>5 DEF BookUpdate
    <3> DEFINE l == [proc[r] EXCEPT !.q = bookings[proc[r].b].tx, !.pc = pc]
    <3>2. l.pc \in BookPC /\ proc' = [proc EXCEPT ![r] = l]
      BY <2>0, <3>1 DEF Local, BookPC, OldPC
    <3> HIDE DEF l
    <3>. QED  BY <2>1, <3>2
  <2>6. CASE BookReadOld(r) \/ BookCancelOld(r) \/ BookMarkOld(r)
    BY <2>2, <2>6 DEF BookReadOld, BookCancelOld, BookMarkOld, BookPC, OldPC
  <2>7. CASE BookPay(r)
    <3>1. PICK p \in Payments : proc' = [proc EXCEPT ![r] = [@ EXCEPT !.pc = "book_link", !.p = p]]
      BY <2>7 DEF BookPay
    <3> DEFINE l == [proc[r] EXCEPT !.pc = "book_link", !.p = p]
    <3>2. l.pc \in BookPC /\ proc' = [proc EXCEPT ![r] = l]
      BY <2>0, <3>1 DEF Local, BookPC
    <3> HIDE DEF l
    <3>. QED  BY <2>1, <3>2
  <2>8. CASE BookLink(r)
    BY <2>1, <2>8 DEF BookLink, Return, Idle
  <2>. QED  BY <1>4, <2>3, <2>4, <2>5, <2>6, <2>7, <2>8 DEF Book
<1>5. ASSUME NEW r \in Requests, Validate(r) PROVE FreshInv'
  <2>0. /\ r \in Procs /\ proc[r] \in Local /\ Named(r, proc[r]) /\ Fresh(proc[r])
        /\ \A y \in Procs \ {r} : proc'[y].pc \notin ValPC
    BY <1>5, OthersIdle DEF Procs, TypeInv, TypeOK, ValPC, FreshInv
  <2>1. ASSUME Fresh(proc[r])' PROVE FreshInv'
    BY <1>2, <2>0, <2>1 DEF FreshInv
  <2>2. ASSUME NEW l, proc' = [proc EXCEPT ![r] = l], UNCHANGED bookings, proc[r].pc \in ValPC,
               l.b = proc[r].b, l.p = proc[r].p, l.q = proc[r].q, l.n = proc[r].n,
               l.done = proc[r].done,
               l.pc \in BeforeTransfer \cup {"val_write"} =>
                  proc[r].pc \in BeforeTransfer \cup {"val_write"}
        PROVE  FreshInv'
    <3>1. proc'[r] = l
      BY <2>0, <2>2 DEF TypeInv, TypeOK
    <3>. QED  BY <2>0, <2>1, <2>2, <3>1 DEF Fresh
  <2>3. ASSUME NEW pc, Goto(r, pc), UNCHANGED bookings, proc[r].pc \in ValPC,
               pc \in BeforeTransfer => proc[r].pc \in BeforeTransfer, pc # "val_write"
        PROVE  FreshInv'
    <3> DEFINE l == [proc[r] EXCEPT !.pc = pc]
    <3>1. /\ proc' = [proc EXCEPT ![r] = l] /\ l.pc = pc
          /\ l.b = proc[r].b /\ l.p = proc[r].p /\ l.q = proc[r].q /\ l.n = proc[r].n
          /\ l.done = proc[r].done
      BY <2>0, <2>3 DEF Goto, Local
    <3> HIDE DEF l
    <3>. QED  BY <2>2, <2>3, <3>1
  <2>4. ASSUME Return(r) PROVE FreshInv'
    <3>1. proc'[r].pc \notin ValPC
      BY <2>0, <2>4 DEF Return, Idle, TypeInv, TypeOK, ValPC
    <3>. QED  BY <1>2, <2>0, <2>1, <3>1
  <2>5. ASSUME NEW b \in Bookings, ValidateRead(r, b) PROVE FreshInv'
    <3>1. PICK seen \in {"bare", "token"} : proc' = [proc EXCEPT ![r] =
            [Idle EXCEPT !.pc = "val_check", !.b = b, !.p = bookings[b].tx,
               !.q = bookings[b].offerTx, !.n = bookings[b].n, !.done = bookings[b].done,
               !.seen = seen]]
      BY <2>5 DEF ValidateRead
    <3>2. /\ proc'[r].b = b /\ proc'[r].p = bookings[b].tx /\ proc'[r].q = bookings[b].offerTx
          /\ proc'[r].n = bookings[b].n /\ proc'[r].done = bookings[b].done
      BY <2>0, <3>1 DEF TypeInv, TypeOK, Idle
    <3>3. UNCHANGED bookings
      BY <2>5 DEF ValidateRead
    <3>. QED  BY <2>1, <3>2, <3>3 DEF Fresh
  <2>6. CASE ValidateCheck(r)
    BY <2>3, <2>4, <2>6 DEF ValidateCheck, ValPC, BeforeTransfer
  <2>7. CASE ValidateCaptures(r)
    <3>1. /\ proc[r].pc \in BeforeTransfer /\ proc[r].pc \in ValPC
          /\ UNCHANGED bookings
          /\ Return(r) \/ Goto(r, "val_transfer") \/ Goto(r, "val_capture_offer")
      BY <2>7 DEF ValidateCaptures, ValidateCapture, ValidateCaptureOffer, Capture, ValPC, BeforeTransfer
    <3>. QED  BY <2>3, <2>4, <3>1 DEF ValPC, BeforeTransfer
  <2>8. CASE ValidateTransfer(r)
    <3>1. PICK seen : proc' = [proc EXCEPT ![r] = [@ EXCEPT !.pc = "val_write", !.seen = seen]]
      BY <2>8 DEF ValidateTransfer
    <3> DEFINE l == [proc[r] EXCEPT !.pc = "val_write", !.seen = seen]
    <3>2. /\ proc' = [proc EXCEPT ![r] = l] /\ l.pc = "val_write"
          /\ l.b = proc[r].b /\ l.p = proc[r].p /\ l.q = proc[r].q /\ l.n = proc[r].n
          /\ l.done = proc[r].done
      BY <2>0, <3>1 DEF Local
    <3> HIDE DEF l
    <3>. QED  BY <2>2, <2>8, <3>2 DEF ValidateTransfer, ValPC, BeforeTransfer
  <2>9. CASE ValidateWrite(r)
    <3>1. proc' = [proc EXCEPT ![r].pc = "val_tx"]
      BY <2>9 DEF ValidateWrite, Goto
    <3>2. /\ proc'[r].pc = "val_tx" /\ proc'[r].b = proc[r].b /\ proc'[r].p = proc[r].p
          /\ proc'[r].q = proc[r].q
      BY <2>0, <3>1 DEF Local, TypeInv, TypeOK
    <3>3. proc[r].b \in Bookings /\ proc[r].pc \in ValPC
      BY <2>0, <2>9 DEF ValidateWrite, Named, ValPC
    <3>. QED  BY <1>5, <2>0, <2>1, <3>2, <3>3, ValidateKeeps DEF Fresh, BeforeTransfer
  <2>10. CASE ValidateTxs(r)
    BY <2>3, <2>4, <2>10 DEF ValidateTxs, ValidateTx, ValidateOfferTx, ValPC, BeforeTransfer
  <2>. QED  BY <1>5, <2>5, <2>6, <2>7, <2>8, <2>9, <2>10 DEF Validate
<1>. QED
  BY <1>1, <1>3, <1>4, <1>5 DEF Next, OtherStep

\* Nothing but the capture of a validation charges: each other step leaves every
\* intent that has not succeeded without success.
NoneCharged ==
    \A p \in Payments : payments'[p].intent = "succeeded" => payments[p].intent = "succeeded"

\* A validation about to capture p, as its booking's payment or as the offer's.
Captures(l, p) ==
    \/ l.pc = "val_capture" /\ l.p = p
    \/ l.pc = "val_capture_offer" /\ l.q = p

\* Steps that charge no payment.
LEMMA NoneChargedBy ==
  ASSUME TypeInv, NEW p,
         \/ UNCHANGED payments
         \/ \E status \in TxStatus : SetTx(p, status)
         \/ CancelIntent(p)
         \/ \E row : payments' = [payments EXCEPT ![p] = row] /\ row.intent = payments[p].intent
         \/ \E row : payments' = [payments EXCEPT ![p] = row] /\ row.intent \in {"open", "held"}
  PROVE  NoneCharged
<1>1. CASE UNCHANGED payments
  BY <1>1 DEF NoneCharged
<1>2. CASE \E status \in TxStatus : SetTx(p, status)
  BY <1>2 DEF SetTx, NoneCharged, TypeInv, TypeOK, PaymentRow
<1>3. CASE CancelIntent(p)
  BY <1>3 DEF CancelIntent, NoneCharged, TypeInv, TypeOK, PaymentRow
<1>4. ASSUME NEW row, payments' = [payments EXCEPT ![p] = row],
             row.intent = payments[p].intent \/ row.intent \in {"open", "held"}
      PROVE  NoneCharged
  BY <1>4 DEF NoneCharged, TypeInv, TypeOK
<1>. QED
  BY <1>1, <1>2, <1>3, <1>4

\* The steps of bookAppointment, cancelBooking, the webhook, the job and the
\* environment do not charge;
LEMMA OthersCharge ==
  ASSUME TypeInv, (\E r \in Requests : Book(r)) \/ OtherStep PROVE NoneCharged
<1> USE DEF At
<1>1. ASSUME NEW p, NEW status \in TxStatus, SetTx(p, status) PROVE NoneCharged
  BY <1>1, NoneChargedBy
<1>2. ASSUME NEW p, CancelIntent(p) PROVE NoneCharged
  BY <1>2, NoneChargedBy
<1>3. ASSUME UNCHANGED payments PROVE NoneCharged
  BY <1>3, NoneChargedBy
<1>4. ASSUME NEW r \in Requests, Book(r) PROVE NoneCharged
  <2>1. CASE BookPay(r)
    <3>1. PICK p \in Payments : payments' = [payments EXCEPT ![p] =
             [NoPayment EXCEPT !.type = "booking", !.booking = proc[r].b,
                !.amount = Price[proc[r].n], !.status = "pending", !.intent = "open"]]
      BY <2>1 DEF BookPay
    <3> DEFINE row == [NoPayment EXCEPT !.type = "booking", !.booking = proc[r].b,
                         !.amount = Price[proc[r].n], !.status = "pending", !.intent = "open"]
    <3>2. payments' = [payments EXCEPT ![p] = row] /\ row.intent = "open"
      BY <3>1 DEF NoPayment
    <3> HIDE DEF row
    <3>. QED  BY <3>2, NoneChargedBy
  <2>2. CASE BookLink(r)
    BY <2>2 DEF BookLink, NoneCharged, TypeInv, TypeOK, PaymentRow
  <2>. QED  BY <1>1, <1>2, <1>3, <1>4, <2>1, <2>2 DEF Book, BookRead, BookCreate, BookUpdate,
              BookReadOld, BookCancelOld, BookMarkOld, TxStatus
<1>5. ASSUME NEW r \in Requests, Cancel(r) \/ RequestStops(r) PROVE NoneCharged
  BY <1>1, <1>2, <1>3, <1>5 DEF Cancel, CancelRead, CancelWrite, CancelReadTx, CancelRelease, CancelMark,
       RequestStops, TxStatus
<1>6. ASSUME NEW h \in Hooks, Hook(h) \/ HookStops(h) PROVE NoneCharged
  BY <1>1, <1>3, <1>6 DEF Hook, HookBegin, HookContinue, HookCapturable, HookSucceeded, HookFailed,
       HookCanceled, HookRequiresAction, HookUpdateTx, HookConfirm, HookAuthorized, HookCaptured,
       HookFind, HookVoid, HookStops, TxStatus
<1>7. CASE ExpiryJob \/ CronStops
  <2>1. CASE payments' = [payments EXCEPT ![proc[Cron].p].refunded = TRUE]
    BY <2>1 DEF NoneCharged, TypeInv, TypeOK, PaymentRow
  <2>. QED  BY <1>1, <1>2, <1>3, <1>7, <2>1 DEF ExpiryJob, CronSelect, CronPick, CronSettle, CronMark,
              CronVoid, CronStops, TxStatus
<1>8. CASE Environment
  <2>1. ASSUME NEW p \in Payments, Authorize(p) PROVE NoneCharged
    BY <2>1 DEF Authorize, NoneCharged, TypeInv, TypeOK, PaymentRow
  <2>. QED  BY <1>2, <1>3, <1>8, <2>1 DEF Environment, DeclineOrChallenge, HoldLapses, TokenExpires
<1>9. CASE ByHand
  BY <1>3, <1>9 DEF ByHand, EditStatus, EditDate
<1>. QED
  BY <1>4, <1>5, <1>6, <1>7, <1>8, <1>9 DEF OtherStep

\* so a payment is charged by the validation that is about to capture it.
LEMMA ChargedByCapture ==
  ASSUME TypeInv, [Next]_vars, NEW p \in Payments,
         payments[p].intent # "succeeded", payments'[p].intent = "succeeded"
  PROVE  \E r \in Requests : Captures(proc[r], p)
<1> USE DEF At
<1>1. CASE (\E r \in Requests : Book(r)) \/ OtherStep \/ UNCHANGED vars
  BY <1>1, OthersCharge DEF NoneCharged, vars
<1>2. ASSUME NEW r \in Requests, Validate(r) PROVE Captures(proc[r], p)
  <2>1. ASSUME NEW q, NEW next, Capture(r, q, next) PROVE q = p
    <3>1. payments' = [payments EXCEPT ![q].intent = "succeeded"]
      BY <2>1 DEF Capture
    <3>. QED  BY <3>1 DEF TypeInv, TypeOK
  <2>2. CASE ValidateCapture(r)
    BY <2>1, <2>2 DEF ValidateCapture, Captures
  <2>3. CASE ValidateCaptureOffer(r)
    BY <2>1, <2>3 DEF ValidateCaptureOffer, Captures
  <2>4. CASE ValidateTransfer(r)
    BY <2>4 DEF ValidateTransfer, TypeInv, TypeOK, PaymentRow
  <2>5. ASSUME NEW q, MarkTransfer(r, q) PROVE FALSE
    BY <2>5 DEF MarkTransfer, TypeInv, TypeOK, PaymentRow
  <2>. QED  BY <1>2, <2>2, <2>3, <2>4, <2>5 DEF Validate, ValidateRead, ValidateCheck,
              ValidateCaptures, ValidateWrite, ValidateTxs, ValidateTx, ValidateOfferTx
<1>. QED
  BY <1>1, <1>2 DEF Next, OtherStep

\* No handler is in progress at first, and no slot is booked.
LEMMA SerialStarts == ASSUME Init PROVE SerialInv
<1>1. /\ \A b \in Bookings : bookings[b].slot = None
      /\ \A x \in Procs : proc[x].pc = "idle"
      /\ due = {}
  BY DEF Init, NoBooking, Idle
<1>. QED
  BY <1>1 DEF SerialInv, AloneInv, SlotInv, OneBookingPerSlot, FreshInv, Fresh, ValPC, BeforeTransfer

\* What validations that do not overlap know holds in every behaviour.
LEMMA SerialInvariant == ASSUME ~Overlap PROVE Spec => []SerialInv
<1>1. Init => SerialInv
  BY SerialStarts
<1>2. TypeInv /\ SerialInv /\ [Next]_vars => SerialInv'
  BY AloneNext, SlotNext, FreshNext DEF SerialInv
<1>. QED
  BY <1>1, <1>2, TypeInvariant, PTL DEF Spec

\* As long as one request at a time is answered, the duplicate check of bookAppointment
\* keeps one booking per athlete and date, whatever the webhook and the job do and
\* wherever a handler stops.
THEOREM SlotsAreSingle == ASSUME ~Overlap PROVE Spec => []OneBookingPerSlot
<1>1. SerialInv => OneBookingPerSlot
  BY DEF SerialInv, SlotInv
<1>. QED
  BY <1>1, SerialInvariant, PTL

\* As long as one request at a time is answered, a payment that a booking no longer
\* names is never charged.
THEOREM SupersededIsNotCharged == ASSUME ~Overlap PROVE Spec => SupersededNeverCharged
<1>1. ASSUME TypeInv, LinkInv, SerialInv, [Next]_vars, NEW p \in Payments,
             payments[p].intent # "succeeded", payments'[p].intent = "succeeded",
             payments[p].type = "booking"
      PROVE  bookings[payments[p].booking].tx = p
  <2>1. PICK r \in Requests : Captures(proc[r], p)
    BY <1>1, ChargedByCapture
  <2>2. r \in Procs /\ proc[r].pc \in ValPC
    BY <2>1 DEF Procs, Captures, ValPC
  <2>3. Holding(proc[r]) /\ Fresh(proc[r])
    BY <1>1, <2>2 DEF LinkInv, SerialInv, FreshInv
  <2>4. p # None
    BY NoneIsNoKey
  <2>5. p = proc[r].p
    BY <1>1, <2>1, <2>2, <2>3, <2>4 DEF Captures, Holding, Own, OwnOrNone
  <2>. QED  BY <2>2, <2>3, <2>5 DEF Holding, Own, Fresh
<1>2. TypeInv /\ LinkInv /\ SerialInv /\ [Next]_vars
        => [\A p \in Payments :
              /\ payments[p].intent # "succeeded" /\ payments'[p].intent = "succeeded"
              /\ payments[p].type = "booking"
              => bookings[payments[p].booking].tx = p]_vars
  BY <1>1
<1>. QED
  BY <1>2, LinkInvariant, TypeInvariant, SerialInvariant, PTL DEF Spec, SupersededNeverCharged

-----------------------------------------------------------------------------
(* Each payout answers a token.  A validation without a token is let       *)
(* through when the last transfer of its booking's payment failed; the     *)
(* token of that earlier call is then still unanswered.                    *)

\* A token was accepted for b that no transfer has answered yet.
Answered(b) == hist.transfers[b] < hist.uses[b]

\* Between its transfer and its last write a validation has the result in its locals.
Noting == {"val_write", "val_tx"}

Writing(b) == \E x \in Procs : proc[x].pc \in Noting /\ proc[x].b = b

\* A validation that may transfer, or that noted no transfer, owes one.
Owing(l) ==
    /\ l.pc \in {"val_capture", "val_capture_offer", "val_transfer"} => Answered(l.b)
    /\ l.pc \in Noting /\ l.seen = "failed" => Answered(l.b)
    /\ l.pc = "book_link" => payments[l.p].transfer = "none"

FailedIsOwed(b) ==
    bookings[b].tx # None /\ payments[bookings[b].tx].transfer = "failed" /\ ~Writing(b)
        => Answered(b)

UsesInv ==
    /\ PayoutNeedsToken
    /\ \A b \in Bookings : bookings[b].offerTx = None /\ FailedIsOwed(b)
    /\ \A x \in Procs : Owing(proc[x])

\* A step that makes no transfer and writes no result of one.
NoResult ==
    /\ hist'.transfers = hist.transfers
    /\ \A b \in Bookings : hist'.uses[b] \in Nat /\ hist'.uses[b] >= hist.uses[b]
    /\ \A p \in Payments :
          payments[p].status # "none" => payments'[p].transfer = payments[p].transfer

\* Such a step keeps the invariant when the handler that moves owes what it must, a
\* validation with a result keeps it, and a booking gets no payment with a result.
LEMMA StepUses ==
  ASSUME TypeInv, LinkInv, UsesInv, NoResult, NEW x \in Procs,
         \A y \in Procs \ {x} : proc'[y] = proc[y],
         \/ proc'[x] = proc[x]
         \/ /\ Owing(proc[x])'
            /\ proc[x].pc \in Noting => proc'[x].pc \in Noting /\ proc'[x].b = proc[x].b,
         \A b \in Bookings :
            /\ bookings'[b].offerTx \in {None, bookings[b].offerTx}
            /\ \/ bookings'[b].tx \in {None, bookings[b].tx}
               \/ payments'[bookings'[b].tx].transfer = "none"
  PROVE  UsesInv'
<1>1. \A b \in Bookings : hist.transfers[b] \in Nat /\ hist.uses[b] \in Nat
  BY DEF TypeInv, TypeOK
<1>2. \A b \in Bookings : Answered(b) => Answered(b)'
  BY <1>1 DEF Answered, NoResult
<1>3. PayoutNeedsToken'
  BY <1>1 DEF UsesInv, PayoutNeedsToken, NoResult
<1>4. \A b \in Bookings : Writing(b) => Writing(b)'
  BY DEF Writing
<1>5. ASSUME NEW b \in Bookings PROVE (bookings[b].offerTx = None /\ FailedIsOwed(b))'
  <2>1. bookings[b].offerTx = None /\ FailedIsOwed(b) /\ OwnOrNone(bookings[b].tx, "booking", b)
        /\ bookings[b].tx \in Payments \cup {None}
    BY DEF UsesInv, LinkInv, TypeInv, TypeOK, BookingRow
  <2>2. CASE bookings'[b].tx = None \/ payments'[bookings'[b].tx].transfer = "none"
    BY <2>1, <2>2 DEF FailedIsOwed
  <2>3. CASE bookings'[b].tx = bookings[b].tx /\ bookings[b].tx # None
    <3>1. payments'[bookings[b].tx].transfer = payments[bookings[b].tx].transfer
      BY <2>1, <2>3 DEF NoResult, OwnOrNone, Own
    <3>. QED  BY <1>2, <1>4, <2>1, <2>3, <3>1 DEF FailedIsOwed
  <2>. QED  BY <2>1, <2>2, <2>3
<1>6. ASSUME NEW y \in Procs PROVE Owing(proc[y])'
  <2>1. Owing(proc[y]) /\ Named(y, proc[y]) /\ Holding(proc[y])
    BY DEF UsesInv, TypeInv, LinkInv
  <2>2. CASE proc'[y] = proc[y]
    <3>1. proc[y].pc \in {"val_capture", "val_capture_offer", "val_transfer"} \cup Noting
            => proc[y].b \in Bookings
      BY <2>1 DEF Named, ValPC, Noting
    <3>2. proc[y].pc = "book_link" => payments'[proc[y].p].transfer = payments[proc[y].p].transfer
      BY <2>1 DEF Named, Holding, Own, NoResult
    <3>. QED  BY <1>2, <2>1, <2>2, <3>1, <3>2 DEF Owing
  <2>. QED  BY <2>2
<1>. QED
  BY <1>3, <1>5, <1>6 DEF UsesInv

\* The other handlers pay nothing, and note nothing about transfers.
LEMMA OthersPay ==
  ASSUME TypeInv, OtherStep
  PROVE  /\ \A p \in Payments : /\ payments'[p].transfer = payments[p].transfer
                                /\ payments'[p].paid = payments[p].paid
         /\ hist'.transfers = hist.transfers /\ hist'.uses = hist.uses
<1> USE DEF At
<1> DEFINE Same == /\ \A p \in Payments : /\ payments'[p].transfer = payments[p].transfer
                                          /\ payments'[p].paid = payments[p].paid
                   /\ hist'.transfers = hist.transfers /\ hist'.uses = hist.uses
<1>0. hist \in [transfers : [Bookings -> Nat], uses : [Bookings -> Nat],
                 edited : SUBSET Bookings, moved : SUBSET Bookings]
      /\ payments \in [Payments -> PaymentRow]
  BY DEF TypeInv, TypeOK
<1>1. ASSUME UNCHANGED <<payments, hist>> PROVE Same
  BY <1>1
<1>2. ASSUME NEW p, NEW status, SetTx(p, status), UNCHANGED hist PROVE Same
  BY <1>0, <1>2 DEF SetTx, PaymentRow
<1>3. ASSUME NEW p, CancelIntent(p), UNCHANGED hist PROVE Same
  BY <1>0, <1>3 DEF CancelIntent, PaymentRow
<1>4. ASSUME NEW r \in Requests, Cancel(r) \/ RequestStops(r) PROVE Same
  <2>. HIDE DEF Same
  <2>. QED  BY <1>1, <1>2, <1>3, <1>4 DEF Cancel, CancelRead, CancelWrite, CancelReadTx, CancelRelease,
              CancelMark, RequestStops
<1>5. ASSUME NEW h \in Hooks, Hook(h) \/ HookStops(h) PROVE Same
  <2>. HIDE DEF Same
  <2>. QED  BY <1>1, <1>2, <1>5 DEF Hook, HookBegin, HookContinue, HookCapturable, HookSucceeded,
              HookFailed, HookCanceled, HookRequiresAction, HookUpdateTx, HookConfirm, HookAuthorized,
              HookCaptured, HookFind, HookVoid, HookStops
<1>6. ASSUME ExpiryJob \/ CronStops PROVE Same
  <2>1. ASSUME payments' = [payments EXCEPT ![proc[Cron].p].refunded = TRUE], UNCHANGED hist PROVE Same
    BY <1>0, <2>1 DEF PaymentRow
  <2>. HIDE DEF Same
  <2>. QED  BY <1>1, <1>2, <1>3, <1>6, <2>1 DEF ExpiryJob, CronSelect, CronPick, CronSettle, CronMark,
              CronVoid, CronStops
<1>7. ASSUME Environment PROVE Same
  <2>1. ASSUME NEW p \in Payments, Authorize(p) PROVE Same
    BY <1>0, <2>1 DEF Authorize, PaymentRow
  <2>. HIDE DEF Same
  <2>. QED  BY <1>1, <1>3, <1>7, <2>1 DEF Environment, DeclineOrChallenge, HoldLapses, TokenExpires
<1>8. CASE ByHand
  BY <1>0, <1>8 DEF ByHand, EditStatus, EditDate, NoteMove
<1>. QED
  BY <1>4, <1>5, <1>6, <1>7, <1>8 DEF OtherStep

\* When no handler stops, they leave the validations in progress alone.
LEMMA ValidationsLeft ==
  ASSUME ~Faults, TypeInv, OtherStep, NEW x \in Procs, proc[x].pc \in ValPC
  PROVE  proc'[x] = proc[x]
<1> USE DEF At, ValPC
<1>1. ASSUME NEW y, NEW l, proc' = [proc EXCEPT ![y] = l], proc[y].pc \notin ValPC PROVE proc'[x] = proc[x]
  BY <1>1 DEF TypeInv, TypeOK
<1>2. ASSUME NEW r \in Requests, Cancel(r) PROVE proc'[x] = proc[x]
  BY ZenonT(60), <1>1, <1>2 DEF Cancel, CancelRead, CancelWrite, CancelReadTx, CancelRelease, CancelMark,
                    MayStart, Goto, Return
<1>3. ASSUME NEW h \in Hooks, Hook(h) PROVE proc'[x] = proc[x]
  <2>1. ASSUME NEW p, NEW kind, NEW status, NEW next, HookUpdateTx(h, p, kind, status, next)
        PROVE  proc'[x] = proc[x]
    BY <1>1, <2>1 DEF HookUpdateTx, Deliver, MayStart
  <2>2. ASSUME NEW p \in Payments, HookCapturable(h, p) PROVE proc'[x] = proc[x]
    BY <1>1, <2>2 DEF HookCapturable, Deliver, MayStart
  <2>3. CASE HookContinue(h)
    BY <1>1, <2>3 DEF HookContinue, HookConfirm, HookAuthorized, HookCaptured, HookFind, HookVoid,
                      Goto, Return
  <2>. QED  BY <1>3, <2>1, <2>2, <2>3 DEF Hook, HookBegin, HookSucceeded, HookFailed, HookCanceled,
                                          HookRequiresAction
<1>4. CASE ExpiryJob
  BY ZenonT(60), <1>1, <1>4 DEF ExpiryJob, CronSelect, CronPick, CronSettle, CronMark, CronVoid, Goto, Return
<1>5. CASE Environment \/ ByHand
  BY <1>5 DEF Environment, Authorize, DeclineOrChallenge, HoldLapses, TokenExpires,
                       ByHand, EditStatus, EditDate
<1>. QED
  BY <1>2, <1>3, <1>4, <1>5 DEF OtherStep, RequestStops, HookStops, CronStops

\* so they keep the invariant.
LEMMA OthersUses ==
  ASSUME ~Faults, TypeInv, LinkInv, UsesInv, OtherStep PROVE UsesInv'
<1>1. PICK x \in Procs : OnlyMoves(x)
  BY OthersMove
<1>2. SameKeys /\ NoResult
  BY OthersKeep, OthersPay DEF NoResult, TypeInv, TypeOK
<1>3. proc'[x] = proc[x] \/ (Owing(proc[x])' /\ proc[x].pc \notin Noting)
  <2>1. CASE proc'[x] # proc[x]
    <3>1. proc[x].pc \notin ValPC /\ proc'[x].pc \notin ValPC \cup BookPC
      BY <1>1, <2>1, ValidationsLeft DEF OnlyMoves
    <3>. QED  BY <3>1 DEF Owing, Noting, ValPC, BookPC
  <2>. QED  BY <2>1
<1>. QED
  BY <1>1, <1>2, <1>3, StepUses DEF OnlyMoves, SameKeys

\* A step of one handler that goes on to an await where nothing is owed.
LEMMA PlainStepUses ==
  ASSUME TypeInv, LinkInv, UsesInv, NoResult, SameLinks, NEW x \in Procs, NEW l,
         proc' = [proc EXCEPT ![x] = l], l.pc \notin ValPC \cup {"book_link"}, proc[x].pc \notin Noting
  PROVE  UsesInv'
<1>1. proc'[x] = l /\ \A y \in Procs \ {x} : proc'[y] = proc[y]
  BY DEF TypeInv, TypeOK
<1>2. Owing(proc[x])'
  BY <1>1 DEF Owing, ValPC, Noting
<1>. QED
  BY <1>1, <1>2, StepUses DEF SameLinks

\* A payment that bookAppointment makes was never transferred from.
LEMMA BookUses == ASSUME TypeInv, LinkInv, UsesInv, NEW r \in Requests, Book(r) PROVE UsesInv'
<1> USE DEF At
<1>0. /\ r \in Procs /\ proc[r] \in Local /\ Named(r, proc[r]) /\ Holding(proc[r]) /\ Owing(proc[r])
      /\ \A b \in Bookings : hist.uses[b] \in Nat
  BY DEF Procs, TypeInv, TypeOK, LinkInv, UsesInv
<1>1. ASSUME UNCHANGED <<payments, hist>> PROVE NoResult
  BY <1>0, <1>1 DEF NoResult
<1>2. ASSUME NEW p, NEW row, payments' = [payments EXCEPT ![p] = row], UNCHANGED hist,
             payments[p].status # "none" => row.transfer = payments[p].transfer
      PROVE  NoResult
  BY <1>0, <1>2 DEF NoResult, TypeInv, TypeOK
<1>3. ASSUME NEW p, NEW status, SetTx(p, status), UNCHANGED hist PROVE NoResult
  BY <1>0, <1>3 DEF SetTx, NoResult, TypeInv, TypeOK, PaymentRow
<1>4. ASSUME NEW p, CancelIntent(p), UNCHANGED hist PROVE NoResult
  BY <1>0, <1>4 DEF CancelIntent, NoResult, TypeInv, TypeOK, PaymentRow
<1>5. ASSUME NEW pc, Goto(r, pc), pc \notin ValPC \cup {"book_link"}, NoResult, SameLinks,
             proc[r].pc \notin Noting
      PROVE  UsesInv'
  <2> DEFINE l == [proc[r] EXCEPT !.pc = pc]
  <2>1. l.pc = pc /\ proc' = [proc EXCEPT ![r] = l]
    BY <1>0, <1>5 DEF Goto, Local
  <2> HIDE DEF l
  <2>. QED  BY <1>0, <1>5, <2>1, PlainStepUses
<1>6. ASSUME NEW s \in Slots, NEW n \in Sizes, BookRead(r, s, n) PROVE UsesInv'
  <2>1. PICK b \in Bookings \cup {None} : proc' = [proc EXCEPT ![r] =
          [Idle EXCEPT !.pc = "book_write", !.slot = s, !.b = b, !.n = n]]
    BY <1>6 DEF BookRead
  <2> DEFINE l == [Idle EXCEPT !.pc = "book_write", !.slot = s, !.b = b, !.n = n]
  <2>2. l.pc = "book_write" /\ proc' = [proc EXCEPT ![r] = l]
    BY <2>1 DEF Idle
  <2> HIDE DEF l
  <2>3. NoResult /\ SameLinks /\ proc[r].pc \notin Noting
    BY <1>1, <1>6 DEF BookRead, SameLinks, MayStart, Noting
  <2>. QED  BY <1>0, <2>2, <2>3, PlainStepUses DEF ValPC
<1>7. CASE BookCreate(r)
  <2>1. PICK b \in Bookings :
          /\ bookings' = [bookings EXCEPT ![b] =
                [NoBooking EXCEPT !.slot = proc[r].slot, !.status = "PENDING", !.n = proc[r].n]]
          /\ proc' = [proc EXCEPT ![r] = [@ EXCEPT !.pc = "book_pay", !.b = b]]
    BY <1>7 DEF BookCreate
  <2>2. /\ bookings'[b].tx = None /\ bookings'[b].offerTx = None
        /\ \A c \in Bookings \ {b} : bookings'[c] = bookings[c]
    BY <2>1 DEF NoBooking, TypeInv, TypeOK
  <2>3. proc'[r].pc = "book_pay" /\ \A y \in Procs \ {r} : proc'[y] = proc[y]
    BY <1>0, <2>1 DEF TypeInv, TypeOK, Local
  <2>4. Owing(proc[r])'
    BY <2>3 DEF Owing, Noting
  <2>5. NoResult /\ proc[r].pc \notin Noting
    BY <1>1, <1>7 DEF BookCreate, Noting
  <2>. QED  BY <1>0, <2>2, <2>3, <2>4, <2>5, StepUses
<1>8. CASE BookUpdate(r)
  <2>1. SameLinks /\ NoResult /\ proc[r].pc \notin Noting
    BY <1>1, <1>8 DEF BookUpdate, SameLinks, TypeInv, TypeOK, BookingRow, Noting
  <2>2. PICK pc \in {"book_pay", "book_read_old"} :
          proc' = [proc EXCEPT ![r] = [@ EXCEPT !.q = bookings[proc[r].b].tx, !.pc = pc]]
    BY <1>8 DEF BookUpdate
  <2> DEFINE l == [proc[r] EXCEPT !.q = bookings[proc[r].b].tx, !.pc = pc]
  <2>3. l.pc = pc /\ proc' = [proc EXCEPT ![r] = l]
    BY <1>0, <2>2 DEF Local
  <2> HIDE DEF l
  <2>. QED  BY <1>0, <2>1, <2>3, PlainStepUses DEF ValPC
<1>9. CASE BookReadOld(r) \/ BookCancelOld(r) \/ BookMarkOld(r)
  <2>1. SameLinks /\ NoResult /\ proc[r].pc \notin Noting
    BY <1>1, <1>3, <1>4, <1>9 DEF BookReadOld, BookCancelOld, BookMarkOld, SameLinks, Noting
  <2>2. PICK pc \in {"book_pay", "book_cancel_old", "book_mark_old"} : Goto(r, pc)
    BY <1>9 DEF BookReadOld, BookCancelOld, BookMarkOld
  <2>. QED  BY <1>5, <2>1, <2>2 DEF ValPC
<1>10. CASE BookPay(r)
  <2>1. PICK p \in Payments :
          /\ payments[p].status = "none"
          /\ payments' = [payments EXCEPT ![p] = [NoPayment EXCEPT !.type = "booking",
                !.booking = proc[r].b, !.amount = Price[proc[r].n], !.status = "pending",
                !.intent = "open"]]
          /\ proc' = [proc EXCEPT ![r] = [@ EXCEPT !.pc = "book_link", !.p = p]]
    BY <1>10 DEF BookPay
  <2>2. NoResult /\ payments'[p].transfer = "none"
    BY <1>2, <1>10, <2>1 DEF BookPay, NoPayment, TypeInv, TypeOK
  <2>3. /\ proc'[r].pc = "book_link" /\ proc'[r].p = p
        /\ \A y \in Procs \ {r} : proc'[y] = proc[y]
    BY <1>0, <2>1 DEF TypeInv, TypeOK, Local
  <2>4. Owing(proc[r])'
    BY <2>2, <2>3 DEF Owing, Noting
  <2>5. UNCHANGED bookings /\ proc[r].pc \notin Noting
    BY <1>10 DEF BookPay, Noting
  <2>. QED  BY <1>0, <2>2, <2>3, <2>4, <2>5, StepUses
<1>11. CASE BookLink(r)
  <2>1. PICK p \in Payments, b \in Bookings : p = proc[r].p /\ b = proc[r].b
    BY <1>0, <1>11 DEF BookLink, Named
  <2>2. payments[p].transfer = "none"
    BY <1>0, <1>11, <2>1 DEF BookLink, Owing
  <2>3. /\ bookings'[b].tx = p /\ bookings'[b].offerTx = bookings[b].offerTx
        /\ \A c \in Bookings \ {b} : bookings'[c] = bookings[c]
    BY <1>11, <2>1 DEF BookLink, TypeInv, TypeOK, BookingRow
  <2>4. \A k \in Payments : payments'[k].transfer = payments[k].transfer
    BY <1>11 DEF BookLink, TypeInv, TypeOK, PaymentRow
  <2>5. proc'[r].pc = "idle" /\ \A y \in Procs \ {r} : proc'[y] = proc[y]
    BY <1>0, <1>11 DEF BookLink, Return, Idle, TypeInv, TypeOK
  <2>6. Owing(proc[r])' /\ NoResult /\ proc[r].pc \notin Noting
    BY <1>0, <1>11, <2>4, <2>5 DEF BookLink, Owing, NoResult, Noting
  <2>. QED  BY <1>0, <2>1, <2>2, <2>3, <2>4, <2>5, <2>6, StepUses
<1>. QED
  BY <1>6, <1>7, <1>8, <1>9, <1>10, <1>11 DEF Book

\* A validation transfers when a token was accepted for it, or when its booking's
\* payment still owes a transfer.
LEMMA ValidateUses ==
  ASSUME ~Overlap, TypeInv, LinkInv, AloneInv, FreshInv, UsesInv, NEW r \in Requests, Validate(r)
  PROVE  UsesInv'
<1> USE DEF At
<1>0. /\ r \in Procs /\ proc[r] \in Local /\ Named(r, proc[r]) /\ Holding(proc[r])
      /\ Owing(proc[r]) /\ Fresh(proc[r])
      /\ \A b \in Bookings : hist.uses[b] \in Nat /\ hist.transfers[b] \in Nat
  BY DEF Procs, TypeInv, TypeOK, LinkInv, UsesInv, FreshInv
<1>1. /\ \A y \in Procs \ {r} : proc[y].pc = "idle" /\ proc'[y].pc = "idle" /\ proc'[y] = proc[y]
      /\ \A b \in Bookings : bookings'[b].tx = bookings[b].tx /\ bookings'[b].offerTx = bookings[b].offerTx
  BY OthersIdle, ValidateKeeps, RequestMoves DEF Moves
<1>2. proc[r].pc \in ValPC => proc[r].b \in Bookings /\ proc[r].p \in Payments /\ proc[r].q = None
                              /\ bookings[proc[r].b].tx = proc[r].p
  BY <1>0 DEF Named, Fresh, UsesInv
<1>3. ASSUME NoResult, proc[r].pc \notin Noting, Owing(proc[r])' PROVE UsesInv'
  BY <1>0, <1>1, <1>3, StepUses
<1>4. ASSUME UNCHANGED <<payments, hist>> PROVE NoResult
  BY <1>0, <1>4 DEF NoResult
<1>5. ASSUME Return(r) PROVE Owing(proc[r])'
  BY <1>0, <1>5 DEF Return, Idle, Owing, Noting, TypeInv, TypeOK
<1>6. ASSUME NEW b \in Bookings, ValidateRead(r, b) PROVE UsesInv'
  <2>1. PICK seen \in {"bare", "token"} : proc' = [proc EXCEPT ![r] =
          [Idle EXCEPT !.pc = "val_check", !.b = b, !.p = bookings[b].tx,
             !.q = bookings[b].offerTx, !.n = bookings[b].n, !.done = bookings[b].done,
             !.seen = seen]]
    BY <1>6 DEF ValidateRead
  <2>2. proc'[r].pc = "val_check"
    BY <1>0, <2>1 DEF Idle, TypeInv, TypeOK
  <2>. QED  BY <1>3, <1>4, <1>6, <2>2 DEF ValidateRead, MayStart, Owing, Noting
<1>7. CASE ValidateCheck(r)
  <2>1. PICK b \in Bookings : b = proc[r].b /\ bookings[b].tx = proc[r].p /\ proc[r].q = None
    BY <1>2, <1>7 DEF ValidateCheck, ValPC
  <2>2. proc[r].pc = "val_check" /\ UNCHANGED payments
    BY <1>7 DEF ValidateCheck
  <2>3. CASE Return(r) /\ hist' = hist
    BY <1>3, <1>4, <1>5, <2>2, <2>3 DEF Noting
  <2>4. CASE Goto(r, "val_capture") /\ proc[r].seen = "token"
    <3>1. hist' = [hist EXCEPT !.uses[b] = @ + 1]
      BY <1>7, <2>1, <2>4 DEF ValidateCheck
    <3>2. hist'.transfers = hist.transfers /\ hist'.uses[b] = hist.uses[b] + 1
          /\ \A c \in Bookings \ {b} : hist'.uses[c] = hist.uses[c]
      BY <3>1 DEF TypeInv, TypeOK
    <3>3. proc'[r].pc = "val_capture" /\ proc'[r].b = b
      BY <1>0, <2>1, <2>4 DEF Goto, Local, TypeInv, TypeOK
    <3>4. hist.transfers[b] <= hist.uses[b]
      BY DEF UsesInv, PayoutNeedsToken
    <3>5. Owing(proc[r])'
      BY <1>0, <3>2, <3>3, <3>4 DEF Owing, Answered, Noting
    <3>6. NoResult
      BY <1>0, <2>2, <3>2 DEF NoResult
    <3>. QED  BY <1>3, <2>2, <3>5, <3>6 DEF Noting
  <2>5. CASE Goto(r, "val_capture") /\ proc[r].seen # "token"
    <3>1. hist' = hist /\ (PriorTransferFailed(r) \/ Return(r))
      BY <1>7, <2>5 DEF ValidateCheck
    <3>2. proc'[r].pc = "val_capture" /\ proc'[r].b = b
      BY <1>0, <2>1, <2>5 DEF Goto, Local, TypeInv, TypeOK
    <3>3. payments[proc[r].p].transfer = "failed"
      <4>1. ~Return(r)
        <5>1. SUFFICES ASSUME Return(r) PROVE FALSE
          OBVIOUS
        <5>2. proc'[r].pc = "idle"
          BY <1>0, <5>1 DEF Return, Idle, TypeInv, TypeOK
        <5>. QED  BY <3>2, <5>2
      <4>. QED  BY <2>1, <3>1, <4>1 DEF PriorTransferFailed
    <3>4. ~Writing(b)
      BY <1>1, <2>2 DEF Writing, Noting
    <3>5. proc[r].p # None
      BY <1>2, <2>2, NoneIsNoKey DEF ValPC
    <3>6. Answered(b)
      BY <2>1, <3>3, <3>4, <3>5 DEF UsesInv, FailedIsOwed
    <3>7. Owing(proc[r])'
      BY <3>1, <3>2, <3>6 DEF Owing, Answered, Noting
    <3>. QED  BY <1>3, <1>4, <2>2, <3>1, <3>7 DEF Noting
  <2>. QED  BY <1>7, <2>3, <2>4, <2>5 DEF ValidateCheck
<1>8. CASE ValidateCaptures(r)
  <2>1. PICK next \in {"val_transfer", "val_capture_offer"} : \E p : Capture(r, p, next)
    <3>1. CASE ValidateCapture(r) /\ proc[r].q = None
      BY <3>1 DEF ValidateCapture
    <3>2. CASE ValidateCapture(r) /\ proc[r].q # None
      BY <3>2 DEF ValidateCapture
    <3>3. CASE ValidateCaptureOffer(r)
      BY <3>3 DEF ValidateCaptureOffer
    <3>. QED  BY <1>8, <3>1, <3>2, <3>3 DEF ValidateCaptures
  <2>2. proc[r].pc \in {"val_capture", "val_capture_offer"} /\ Answered(proc[r].b)
    BY <1>0, <1>8 DEF ValidateCaptures, ValidateCapture, ValidateCaptureOffer, Owing
  <2>3. hist' = hist /\ (Goto(r, next) \/ Return(r))
    BY <2>1 DEF Capture
  <2>4. NoResult
    BY <1>0, <2>1 DEF Capture, NoResult, TypeInv, TypeOK, PaymentRow
  <2>5. ASSUME Goto(r, next) PROVE Owing(proc[r])'
    <3>1. proc'[r].pc = next /\ proc'[r].b = proc[r].b
      BY <1>0, <2>5 DEF Goto, Local, TypeInv, TypeOK
    <3>. QED  BY <2>2, <2>3, <3>1 DEF Owing, Answered, Noting
  <2>. QED  BY <1>3, <1>5, <2>2, <2>3, <2>4, <2>5 DEF Noting
<1>9. CASE ValidateTransfer(r)
  <2>1. PICK b \in Bookings : b = proc[r].b /\ proc[r].q = None /\ bookings[b].tx = proc[r].p
    BY <1>2, <1>9 DEF ValidateTransfer, ValPC
  <2>2. Answered(b) /\ UNCHANGED bookings /\ proc[r].pc = "val_transfer"
    BY <1>0, <1>9, <2>1 DEF ValidateTransfer, Owing
  <2>3. PICK seen \in {"created", "failed"} :
          /\ proc' = [proc EXCEPT ![r] = [@ EXCEPT !.pc = "val_write", !.seen = seen]]
          /\ hist' = IF seen = "created" THEN [hist EXCEPT !.transfers[b] = @ + 1] ELSE hist
    BY <1>9, <2>1 DEF ValidateTransfer
  <2>4. proc'[r].pc = "val_write" /\ proc'[r].b = b /\ proc'[r].seen = seen
    BY <1>0, <2>1, <2>3 DEF Local, TypeInv, TypeOK
  <2>5. \A p \in Payments : payments'[p].transfer = payments[p].transfer
    BY <1>9 DEF ValidateTransfer, TypeInv, TypeOK, PaymentRow
  <2>6. CASE seen = "failed"
    <3>1. hist' = hist
      BY <2>3, <2>6
    <3>2. NoResult /\ Owing(proc[r])'
      BY <1>0, <2>2, <2>4, <2>5, <3>1 DEF NoResult, Owing, Answered
    <3>. QED  BY <1>3, <2>2, <3>2 DEF Noting
  <2>7. CASE seen = "created"
    <3>1. /\ hist'.transfers[b] = hist.transfers[b] + 1 /\ hist'.uses = hist.uses
          /\ \A c \in Bookings \ {b} : hist'.transfers[c] = hist.transfers[c]
      BY <2>3, <2>7 DEF TypeInv, TypeOK
    <3>2. PayoutNeedsToken'
      BY <1>0, <2>2, <3>1 DEF UsesInv, PayoutNeedsToken, Answered
    <3>3. Writing(b)'
      BY <1>0, <2>4 DEF Writing, Noting
    <3>4. ASSUME NEW c \in Bookings \ {b} PROVE FailedIsOwed(c)'
      <4>1. ~Writing(c) /\ FailedIsOwed(c) /\ bookings[c].tx \in Payments \cup {None}
        BY <1>1, <2>2 DEF Writing, Noting, UsesInv, TypeInv, TypeOK, BookingRow
      <4>. QED  BY <2>2, <2>5, <3>1, <4>1 DEF FailedIsOwed, Answered
    <3>5. \A c \in Bookings : (bookings[c].offerTx = None /\ FailedIsOwed(c))'
      BY <2>2, <3>3, <3>4 DEF UsesInv, FailedIsOwed
    <3>6. \A y \in Procs : Owing(proc[y])'
      BY <1>1, <2>4, <2>7 DEF Owing, Noting
    <3>. QED  BY <3>2, <3>5, <3>6 DEF UsesInv
  <2>. QED  BY <2>6, <2>7
<1>10. CASE ValidateWrite(r)
  <2>1. /\ proc'[r].pc = "val_tx" /\ proc'[r].b = proc[r].b /\ proc'[r].seen = proc[r].seen
        /\ proc[r].pc = "val_write" /\ UNCHANGED <<payments, hist>>
    BY <1>0, <1>10 DEF ValidateWrite, Goto, Local, TypeInv, TypeOK
  <2>2. Owing(proc[r])'
    BY <1>0, <2>1 DEF Owing, Noting, Answered
  <2>3. NoResult /\ proc'[r].pc \in Noting
    BY <1>4, <2>1 DEF Noting
  <2>. QED  BY <1>0, <1>1, <2>1, <2>2, <2>3, StepUses
<1>11. CASE ValidateTxs(r)
  <2>1. PICK b \in Bookings, p \in Payments :
          b = proc[r].b /\ p = proc[r].p /\ proc[r].q = None /\ bookings[b].tx = p
    BY <1>2, <1>11 DEF ValidateTxs, ValidateTx, ValidateOfferTx, ValPC
  <2>2. proc[r].pc # "val_offer_tx"
    BY <1>0, <2>1, NoneIsNoKey DEF Named
  <2>3. /\ proc[r].pc = "val_tx" /\ MarkTransfer(r, p) /\ Return(r) /\ UNCHANGED <<bookings, hist>>
    BY <1>11, <2>1, <2>2 DEF ValidateTxs, ValidateTx, ValidateOfferTx
  <2>4. /\ payments'[p].transfer = proc[r].seen /\ proc[r].seen \in {"created", "failed"}
        /\ \A q \in Payments \ {p} : payments'[q] = payments[q]
    BY <1>0, <2>1, <2>3 DEF MarkTransfer, TypeInv, TypeOK, PaymentRow, Named
  <2>5. proc[r].seen = "failed" => Answered(b)
    BY <1>0, <2>1, <2>3 DEF Owing, Noting
  <2>6. ASSUME NEW c \in Bookings PROVE FailedIsOwed(c)'
    <3>1. CASE c = b
      BY <2>1, <2>3, <2>4, <2>5, <3>1 DEF FailedIsOwed, Answered
    <3>2. CASE c # b
      <4>1. ~Writing(c)
        BY <1>1, <2>1, <3>2 DEF Writing, Noting
      <4>2. FailedIsOwed(c) /\ bookings[c].tx \in Payments \cup {None}
        BY DEF UsesInv, TypeInv, TypeOK, BookingRow
      <4>3. bookings[c].tx # p
        BY <2>1, <3>2, NoneIsNoKey DEF LinkInv, OwnOrNone, Own
      <4>. QED  BY <2>3, <2>4, <4>1, <4>2, <4>3 DEF FailedIsOwed, Answered
    <3>. QED  BY <3>1, <3>2
  <2>7. \A y \in Procs : Owing(proc[y])'
    BY <1>1, <1>5, <2>3 DEF Owing, Noting
  <2>8. PayoutNeedsToken' /\ \A c \in Bookings : bookings'[c].offerTx = None
    BY <2>3 DEF UsesInv, PayoutNeedsToken
  <2>. QED  BY <2>6, <2>7, <2>8 DEF UsesInv
<1>. QED
  BY <1>6, <1>7, <1>8, <1>9, <1>10, <1>11 DEF Validate

\* The invariant holds when handlers run one at a time and run to their end.
LEMMA UsesInvariant == ASSUME ~Overlap, ~Faults PROVE Spec => []UsesInv
<1>1. Init => UsesInv
  <2>. SUFFICES ASSUME Init PROVE UsesInv
    OBVIOUS
  <2>1. /\ \A b \in Bookings : bookings[b].tx = None /\ bookings[b].offerTx = None
        /\ \A x \in Procs : proc[x].pc = "idle"
        /\ \A b \in Bookings : hist.transfers[b] = 0 /\ hist.uses[b] = 0
    BY DEF Init, NoBooking, Idle
  <2>. QED  BY <2>1 DEF UsesInv, PayoutNeedsToken, FailedIsOwed, Owing, Noting
<1>2. TypeInv /\ LinkInv /\ SerialInv /\ UsesInv /\ [Next]_vars => UsesInv'
  <2>. SUFFICES ASSUME TypeInv, LinkInv, SerialInv, UsesInv, [Next]_vars PROVE UsesInv'
    OBVIOUS
  <2>1. CASE UNCHANGED vars
    BY <2>1 DEF vars, UsesInv, PayoutNeedsToken, FailedIsOwed, Writing, Answered, Owing
  <2>2. CASE OtherStep
    BY <2>2, OthersUses
  <2>. QED  BY <2>1, <2>2, BookUses, ValidateUses DEF Next, OtherStep, SerialInv
<1>. QED
  BY <1>1, <1>2, TypeInvariant, LinkInvariant, SerialInvariant, PTL DEF Spec

\* When handlers run one at a time and to their end, each transfer to the coach answers
\* a token of the athlete: a call without one only repeats a transfer that failed.
THEOREM PayoutsAnswerTokens == ASSUME ~Overlap, ~Faults PROVE Spec => []PayoutNeedsToken
<1>1. UsesInv => PayoutNeedsToken
  BY DEF UsesInv
<1>. QED
  BY <1>1, UsesInvariant, PTL

-----------------------------------------------------------------------------
(* No payment pays out more than was charged for it.  A hold is confirmed  *)
(* once, so a booking gets its first token once; from then on a validation *)
(* renews the token only while sessions of the package are left, and each  *)
(* session takes the same share of the price.                              *)

WasHeld(p) == payments[p].intent \notin {"none", "open"}

Confirming(x, p) == proc[x].pc = "hook_confirm" /\ proc[x].p = p

\* The webhook has handled the hold of p, and will not handle it again.
Confirmed(p) ==
    /\ WasHeld(p) /\ EventsOf(p, "capturable") \notin events
    /\ \A x \in Procs : ~Confirming(x, p)

\* A hold is announced once, by an event or by the webhook that took it.
HoldsInv ==
    \A p \in Payments :
        /\ EventsOf(p, "capturable") \in events =>
              WasHeld(p) /\ \A x \in Procs : ~Confirming(x, p)
        /\ \A x \in Procs : Confirming(x, p) => WasHeld(p)

\* A step that announces no hold and starts no confirmation.
LEMMA QuietHolds ==
  ASSUME HoldsInv, \A p \in Payments : WasHeld(p) => WasHeld(p)',
         \A p \in Payments : EventsOf(p, "capturable") \in events' => EventsOf(p, "capturable") \in events,
         \A x \in Procs, p \in Payments : Confirming(x, p)' => Confirming(x, p)
  PROVE  HoldsInv' /\ \A p \in Payments : Confirmed(p) => Confirmed(p)'
  BY DEF HoldsInv, Confirmed

\* When events are delivered once and handlers run to their end, a hold that was
\* confirmed stays so.
LEMMA HoldsNext ==
  ASSUME ~Redeliver, ~Faults, TypeInv, LedgerInv, HoldsInv, [Next]_vars
  PROVE  HoldsInv' /\ \A p \in Payments : Confirmed(p) => Confirmed(p)'
<1> USE DEF At
<1> DEFINE Quiet == HoldsInv' /\ \A p \in Payments : Confirmed(p) => Confirmed(p)'
           SameEvents == \A p \in Payments :
              EventsOf(p, "capturable") \in events' => EventsOf(p, "capturable") \in events
           NoNewProc == \A x \in Procs, p \in Payments : Confirming(x, p)' => Confirming(x, p)
<1>1. \A p \in Payments : WasHeld(p) => WasHeld(p)'
  BY EscrowNext, EscrowOnward DEF WasHeld
<1>2. ASSUME SameEvents, NoNewProc PROVE Quiet
  BY <1>1, <1>2, QuietHolds
<1>3. ASSUME NEW x \in Procs, Moves(x), proc'[x].pc # "hook_confirm" PROVE NoNewProc
  BY <1>3 DEF Confirming, Moves
<1>4. ASSUME NEW x \in Procs, Return(x) PROVE NoNewProc
  <2>1. proc'[x].pc = "idle" /\ \A y \in Procs \ {x} : proc'[y] = proc[y]
    BY <1>4 DEF Return, Idle, TypeInv, TypeOK
  <2>. QED  BY <2>1 DEF Confirming
<1>5. ASSUME NEW x \in Procs, NEW pc, Goto(x, pc), pc # "hook_confirm" PROVE NoNewProc
  <2>1. proc'[x].pc = pc /\ \A y \in Procs \ {x} : proc'[y] = proc[y]
    BY <1>5 DEF Goto, TypeInv, TypeOK, Local
  <2>. QED  BY <1>5, <2>1 DEF Confirming
<1>6. ASSUME NEW p, CancelIntent(p) PROVE SameEvents
  BY <1>6 DEF CancelIntent, EventsOf
<1>7. ASSUME NEW p, NEW next \in {"val_transfer", "val_capture_offer"}, NEW r \in Procs, Capture(r, p, next)
      PROVE  Quiet
  <2>1. SameEvents
    BY <1>7 DEF Capture, EventsOf
  <2>2. NoNewProc
    <3>. HIDE DEF NoNewProc
    <3>. QED  BY <1>4, <1>5, <1>7 DEF Capture
  <2>. QED  BY <1>2, <2>1, <2>2
<1>. HIDE DEF NoNewProc
<1>8. ASSUME UNCHANGED events, NoNewProc PROVE Quiet
  BY <1>2, <1>8
<1>9. ASSUME UNCHANGED proc PROVE NoNewProc
  BY <1>9 DEF NoNewProc, Confirming
<1>10. ASSUME NEW r \in Requests, Book(r) PROVE Quiet
  <2>0. r \in Procs /\ proc[r] \in Local /\ Moves(r)
    BY <1>10, RequestMoves DEF Procs, TypeInv, TypeOK
  <2>1. CASE (\E s \in Slots, n \in Sizes : BookRead(r, s, n)) \/ BookCreate(r) \/ BookUpdate(r) \/ BookPay(r)
    <3>1. CASE \E s \in Slots, n \in Sizes : BookRead(r, s, n)
      BY <1>3, <1>8, <2>0, <3>1 DEF BookRead, Idle, TypeInv, TypeOK
    <3>2. CASE BookCreate(r)
      <4>1. PICK b \in Bookings : proc' = [proc EXCEPT ![r] = [@ EXCEPT !.pc = "book_pay", !.b = b]]
        BY <3>2 DEF BookCreate
      <4>2. proc'[r].pc = "book_pay"
        BY <2>0, <4>1 DEF Local, TypeInv, TypeOK
      <4>. QED  BY <1>3, <1>8, <2>0, <3>2, <4>2 DEF BookCreate
    <3>3. CASE BookUpdate(r)
      BY <1>3, <1>8, <2>0, <3>3 DEF BookUpdate, Local, TypeInv, TypeOK
    <3>4. CASE BookPay(r)
      <4>1. PICK p \in Payments : proc' = [proc EXCEPT ![r] = [@ EXCEPT !.pc = "book_link", !.p = p]]
        BY <3>4 DEF BookPay
      <4>2. proc'[r].pc = "book_link"
        BY <2>0, <4>1 DEF Local, TypeInv, TypeOK
      <4>. QED  BY <1>3, <1>8, <2>0, <3>4, <4>2 DEF BookPay
    <3>. QED  BY <2>1, <3>1, <3>2, <3>3, <3>4
  <2>3. CASE BookReadOld(r) \/ BookMarkOld(r) \/ BookLink(r)
    BY <1>4, <1>5, <1>8, <2>0, <2>3 DEF BookReadOld, BookMarkOld, BookLink
  <2>4. CASE BookCancelOld(r)
    BY <1>2, <1>5, <1>6, <2>0, <2>4 DEF BookCancelOld
  <2>. QED  BY <1>10, <2>1, <2>3, <2>4 DEF Book
<1>11. ASSUME NEW r \in Requests, Cancel(r) PROVE Quiet
  <2>0. r \in Procs
    BY DEF Procs
  <2>1. ASSUME NEW b \in Bookings, CancelRead(r, b) PROVE Quiet
    <3>1. proc'[r].pc # "hook_confirm" /\ \A y \in Procs \ {r} : proc'[y] = proc[y]
      BY <2>0, <2>1 DEF CancelRead, Idle, TypeInv, TypeOK
    <3>2. NoNewProc
      BY <3>1 DEF NoNewProc, Confirming
    <3>. QED  BY <1>8, <2>1, <3>2 DEF CancelRead
  <2>2. CASE CancelRelease(r)
    BY <1>2, <1>4, <1>5, <1>6, <2>0, <2>2 DEF CancelRelease
  <2>3. CASE CancelWrite(r) \/ CancelReadTx(r) \/ CancelMark(r)
    BY <1>4, <1>5, <1>8, <2>0, <2>3 DEF CancelWrite, CancelReadTx, CancelMark
  <2>. QED  BY <1>11, <2>1, <2>2, <2>3 DEF Cancel
<1>12. ASSUME NEW r \in Requests, Validate(r) PROVE Quiet
  <2>0. r \in Procs
    BY DEF Procs
  <2>1. NoNewProc
    BY <1>3, <1>12, <2>0, RequestMoves, ValidateKeeps DEF ValPC
  <2>2. CASE ValidateCaptures(r)
    BY <1>7, <2>0, <2>2 DEF ValidateCaptures, ValidateCapture, ValidateCaptureOffer
  <2>. QED  BY <1>8, <1>12, <2>1, <2>2 DEF Validate, ValidateRead, ValidateCheck, ValidateTransfer,
              ValidateWrite, ValidateTxs, ValidateTx, ValidateOfferTx
<1>13. ASSUME NEW h \in Hooks, Hook(h) PROVE Quiet
  <2>0. h \in Procs /\ proc[h] \in Local
    BY DEF Procs, TypeInv, TypeOK
  <2>1. ASSUME NEW p \in Payments, NEW kind, NEW status, NEW next \in {"idle", "hook_captured", "hook_find"},
               HookUpdateTx(h, p, kind, status, next)
        PROVE  Quiet
    <3>1. SameEvents
      BY <2>1 DEF HookUpdateTx, Deliver
    <3>2. proc'[h].pc # "hook_confirm" /\ \A y \in Procs \ {h} : proc'[y] = proc[y]
      BY <2>0, <2>1 DEF HookUpdateTx, Idle, TypeInv, TypeOK
    <3>3. NoNewProc
      BY <3>2 DEF NoNewProc, Confirming
    <3>. QED  BY <1>2, <3>1, <3>3
  <2>2. ASSUME NEW p \in Payments, HookCapturable(h, p) PROVE Quiet
    <3>1. EventsOf(p, "capturable") \in events /\ events' = events \ {EventsOf(p, "capturable")}
      BY <2>2 DEF HookCapturable, Deliver
    <3>2. WasHeld(p) /\ \A x \in Procs : ~Confirming(x, p)
      BY <3>1 DEF HoldsInv
    <3>3. \A y \in Procs \ {h} : proc'[y] = proc[y]
      BY <2>0, <2>2 DEF HookCapturable, TypeInv, TypeOK
    <3>4. proc'[h].p = p
      BY <2>0, <2>2 DEF HookCapturable, Idle, TypeInv, TypeOK
    <3>5. \A q \in Payments \ {p} : EventsOf(q, "capturable") \in events' <=> EventsOf(q, "capturable") \in events
      BY <3>1 DEF EventsOf
    <3>6. EventsOf(p, "capturable") \notin events' /\ ~Confirmed(p)
      BY <3>1 DEF Confirmed
    <3>7. \A x \in Procs, q \in Payments \ {p} : Confirming(x, q)' => Confirming(x, q)
      BY <3>3, <3>4 DEF Confirming
    <3>. QED  BY <1>1, <3>2, <3>5, <3>6, <3>7 DEF HoldsInv, Confirmed
  <2>3. CASE HookFind(h)
    <3>1. PICK b : IF b = None THEN Return(h)
                   ELSE proc' = [proc EXCEPT ![h] = [@ EXCEPT !.pc = "hook_void", !.b = b]]
      BY <2>3 DEF HookFind
    <3>2. CASE b = None
      BY <1>4, <1>8, <2>0, <2>3, <3>1, <3>2 DEF HookFind
    <3>3. CASE b # None
      <4>0. proc' = [proc EXCEPT ![h] = [@ EXCEPT !.pc = "hook_void", !.b = b]]
        BY <3>1, <3>3
      <4>1. proc'[h].pc = "hook_void" /\ \A y \in Procs \ {h} : proc'[y] = proc[y]
        BY <2>0, <4>0 DEF Local, TypeInv, TypeOK
      <4>2. NoNewProc
        BY <4>1 DEF NoNewProc, Confirming
      <4>. QED  BY <1>8, <2>3, <4>2 DEF HookFind
    <3>. QED  BY <3>2, <3>3
  <2>4. CASE HookContinue(h)
    BY <1>4, <1>5, <1>8, <2>0, <2>3, <2>4 DEF HookContinue, HookConfirm, HookAuthorized, HookCaptured, HookVoid
  <2>. QED  BY <1>13, <2>1, <2>2, <2>4 DEF Hook, HookBegin, HookSucceeded, HookFailed, HookCanceled,
              HookRequiresAction
<1>14. CASE ExpiryJob
  <2>0. Cron \in Procs
    BY DEF Procs
  <2>1. CASE CronPick
    <3>1. proc'[Cron].pc # "hook_confirm" /\ \A y \in Procs \ {Cron} : proc'[y] = proc[y]
      BY <2>0, <2>1 DEF CronPick, Idle, TypeInv, TypeOK
    <3>2. NoNewProc
      BY <3>1 DEF NoNewProc, Confirming
    <3>. QED  BY <1>8, <2>1, <3>2 DEF CronPick
  <2>2. CASE CronSettle
    BY <1>2, <1>4, <1>5, <1>6, <1>8, <2>0, <2>2 DEF CronSettle
  <2>. QED  BY <1>4, <1>5, <1>8, <1>9, <1>14, <2>0, <2>1, <2>2 DEF ExpiryJob, CronSelect, CronMark, CronVoid
<1>15. CASE Environment
  <2>1. ASSUME NEW p \in Payments, Authorize(p) PROVE Quiet
    <3>1. ~WasHeld(p) /\ WasHeld(p)'
      BY <2>1 DEF Authorize, WasHeld, TypeInv, TypeOK, PaymentRow
    <3>2. ~Confirmed(p) /\ \A x \in Procs : ~Confirming(x, p)
      BY <3>1 DEF HoldsInv, Confirmed
    <3>3. \A q \in Payments \ {p} : EventsOf(q, "capturable") \in events' <=> EventsOf(q, "capturable") \in events
      BY <2>1 DEF Authorize, EventsOf
    <3>4. \A x \in Procs, q \in Payments : Confirming(x, q)' <=> Confirming(x, q)
      BY <2>1 DEF Authorize, Confirming
    <3>. QED  BY <1>1, <3>1, <3>2, <3>3, <3>4 DEF HoldsInv, Confirmed
  <2>2. ASSUME NEW p \in Payments, DeclineOrChallenge(p) \/ HoldLapses(p) PROVE Quiet
    <3>1. SameEvents
      BY <1>6, <2>2, MishapsAreKnown DEF DeclineOrChallenge, HoldLapses, EventsOf
    <3>. QED  BY <1>2, <1>9, <2>2, <3>1 DEF DeclineOrChallenge, HoldLapses
  <2>. QED  BY <1>8, <1>9, <1>15, <2>1, <2>2 DEF Environment, TokenExpires
<1>16. CASE ByHand
  BY <1>8, <1>9, <1>16 DEF ByHand, EditStatus, EditDate
<1>17. CASE UNCHANGED vars
  BY <1>8, <1>9, <1>17 DEF vars
<1>. QED
  BY <1>10, <1>11, <1>12, <1>13, <1>14, <1>15, <1>16, <1>17 DEF Next, RequestStops, HookStops, CronStops

\* Shares of a whole do not exceed it.
LEMMA SharesFit ==
  ASSUME NEW whole \in Nat, NEW n \in Nat \ {0}, NEW d \in Nat, d <= n
  PROVE  d * (whole \div n) <= whole
<1>1. whole \div n \in Nat /\ n * (whole \div n) <= whole
  OBVIOUS
<1>2. \A s \in Nat : d * s <= n * s
  OBVIOUS
<1>3. d * (whole \div n) <= n * (whole \div n)
  BY <1>1, <1>2
<1>4. d * (whole \div n) \in Nat /\ n * (whole \div n) \in Nat
  BY <1>1
<1>. QED
  BY <1>1, <1>3, <1>4

\* Nothing was paid out of p, nor tried to be.
Unpaid(p) == payments[p].paid = 0 /\ payments[p].transfer = "none"

\* Payment p of a package has paid out at most the shares of d sessions.
Within(p, n, d) == payments[p].paid <= d * (payments[p].amount \div n)

\* A booking and its payment, between its validations.
MoneyRow(b) ==
    LET row == bookings[b]  p == bookings[b].tx IN
    /\ row.status = "PENDING" => row.token = "null"
    /\ row.n # 0 => row.done <= row.n
    /\ p # None =>
         /\ row.token # "null" \/ ~Unpaid(p) => Confirmed(p)
         /\ row.status = "PENDING" => Unpaid(p)
         /\ ~Writing(b) =>
              IF row.n # 0 THEN Within(p, row.n, row.done)
              ELSE payments[p].paid = 0 \/ (row.token = "null" /\ payments[p].transfer = "created")

\* The validation in l may transfer.
MayPay(l) == l.pc \in ValPC /\ (l.pc = "val_check" => l.seen = "token")

\* What a handler knows of the booking and the payment in its locals.
MoneyLocals(l) ==
    LET row == bookings[l.b] IN
    /\ l.pc = "hook_confirm" => row.tx = l.p /\ Unpaid(l.p)
    /\ l.pc = "book_link" => Unpaid(l.p)
    /\ l.pc \in BookPC /\ l.b # None => row.status = "PENDING"
    /\ MayPay(l) => row.status # "PENDING" /\ Confirmed(l.p)
    /\ l.pc \in BeforeTransfer =>
         IF row.n # 0 THEN row.done < row.n ELSE MayPay(l) => payments[l.p].paid = 0
    /\ l.pc = "val_write" =>
         IF row.n # 0
         THEN IF l.seen = "created" THEN row.done < row.n /\ Within(l.p, row.n, row.done + 1)
                                    ELSE Within(l.p, row.n, row.done)
         ELSE l.seen = "created" \/ payments[l.p].paid = 0
    /\ l.pc = "val_tx" =>
         IF row.n # 0 THEN Within(l.p, row.n, row.done)
         ELSE row.token = "null" /\ (l.seen = "created" \/ payments[l.p].paid = 0)

MoneyInv ==
    /\ PayoutConserved
    /\ \A b \in Bookings : MoneyRow(b)
    /\ \A x \in Procs : MoneyLocals(proc[x])

\* Steps that write neither the size nor the count nor the payment of b, and give it
\* no first token.
RowKept(b) ==
    /\ bookings'[b].n = bookings[b].n /\ bookings'[b].done = bookings[b].done
    /\ bookings'[b].tx = bookings[b].tx
    /\ bookings[b].token = "null" => bookings'[b].token = "null"
    /\ bookings'[b].status = "PENDING" => bookings[b].status = "PENDING"

SamePay(p) ==
    /\ payments'[p].paid = payments[p].paid
    /\ payments[p].status # "none" => payments'[p].transfer = payments[p].transfer

\* They keep the booking true to its payment,
LEMMA RowMoney ==
  ASSUME TypeInv, LinkInv, RowsOnward, \A p \in Payments : Confirmed(p) => Confirmed(p)',
         NEW b \in Bookings, MoneyRow(b), RowKept(b), Writing(b) => Writing(b)',
         \A p \in Payments : SamePay(p)
  PROVE  MoneyRow(b)'
<1>1. bookings[b].tx \in Payments \cup {None} /\ OwnOrNone(bookings[b].tx, "booking", b)
  BY DEF TypeInv, TypeOK, BookingRow, LinkInv
<1>2. CASE bookings[b].tx = None
  BY <1>2 DEF MoneyRow, RowKept
<1>3. ASSUME NEW p \in Payments, bookings[b].tx = p PROVE MoneyRow(b)'
  <2>1. /\ payments'[p].paid = payments[p].paid /\ payments'[p].transfer = payments[p].transfer
        /\ payments'[p].amount = payments[p].amount
    BY <1>1, <1>3, NoneIsNoKey DEF OwnOrNone, Own, SamePay, RowsOnward
  <2>2. /\ Unpaid(p)' <=> Unpaid(p)
        /\ \A n, d : Within(p, n, d)' <=> Within(p, n, d)
    BY <2>1 DEF Unpaid, Within
  <2>3. p # None /\ bookings'[b].tx = p
    BY <1>3, NoneIsNoKey DEF RowKept
  <2>. QED  BY <1>3, <2>1, <2>2, <2>3 DEF MoneyRow, RowKept
<1>. QED
  BY <1>1, <1>2, <1>3

\* and nothing more is paid out.
LEMMA PaidKept ==
  ASSUME TypeInv, TypeInv', LedgerInv, RowsOnward, PayoutConserved, \A p \in Payments : SamePay(p)
  PROVE  PayoutConserved'
<1> SUFFICES ASSUME NEW p \in Payments PROVE payments'[p].paid <= payments'[p].amount
  BY DEF PayoutConserved
<1>1. /\ payments[p].paid \in Nat /\ payments[p].amount \in Nat
      /\ payments'[p].paid \in Nat /\ payments'[p].amount \in Nat
  BY DEF TypeInv, TypeOK, PaymentRow
<1>2. payments[p].status = "none" => payments[p].paid = 0
  BY <1>1 DEF LedgerInv, RowTrue
<1>. QED
  BY <1>1, <1>2 DEF PayoutConserved, SamePay, RowsOnward

\* A handler that ends, or goes on to another await, has no claims.
LEMMA NoClaims ==
  ASSUME NEW x, proc'[x].pc \notin ValPC \cup BookPC \cup {"hook_confirm"}
  PROVE  MoneyLocals(proc[x])'
  BY DEF MoneyLocals, MayPay, ValPC, BookPC, BeforeTransfer

\* In a step that moves no handler, the claims of the ones in progress stay true.
LEMMA ClaimsKept ==
  ASSUME TypeInv, LinkInv, FreshInv, RowsOnward, \A p \in Payments : Confirmed(p) => Confirmed(p)',
         \A b \in Bookings : RowKept(b) /\ bookings'[b].status = bookings[b].status,
         \A p \in Payments : SamePay(p), NEW x \in Procs, proc'[x] = proc[x], MoneyLocals(proc[x])
  PROVE  MoneyLocals(proc[x])'
<1>1. /\ proc[x].pc \in ValPC \cup (BookPC \ {"book_write"}) \cup {"hook_confirm"} => proc[x].b \in Bookings
      /\ proc[x].pc \in ValPC \cup {"book_link", "hook_confirm"} => proc[x].p \in Payments
      /\ proc[x].b \in Bookings \cup {None}
  BY DEF TypeInv, TypeOK, Named, ValPC, BookPC, OldPC, HookPC, Local
<1>2. proc[x].pc \in ValPC \cup {"book_link"} => Own(proc[x].p, "booking", proc[x].b)
  BY DEF LinkInv, Holding
<1>3. CASE proc[x].pc \in ValPC \cup {"book_link"}
  <2>1. PICK b \in Bookings, p \in Payments : b = proc[x].b /\ p = proc[x].p
    BY <1>1, <1>3 DEF BookPC
  <2>2. /\ payments'[p].paid = payments[p].paid /\ payments'[p].transfer = payments[p].transfer
        /\ payments'[p].amount = payments[p].amount
    BY <1>2, <1>3, <2>1 DEF Own, SamePay, RowsOnward
  <2>3. /\ Unpaid(p)' <=> Unpaid(p)
        /\ \A n, d : Within(p, n, d)' <=> Within(p, n, d)
        /\ Confirmed(p) => Confirmed(p)'
    BY <2>2 DEF Unpaid, Within
  <2>4. RowKept(b) /\ bookings'[b].status = bookings[b].status
    OBVIOUS
  <2>. QED  BY <2>1, <2>2, <2>3, <2>4 DEF MoneyLocals, MayPay, RowKept, BeforeTransfer, ValPC
<1>4. CASE proc[x].pc \in BookPC \ {"book_link"}
  <2>1. proc[x].b # None => proc[x].b \in Bookings
    BY <1>1
  <2>. QED  BY <1>4, <2>1 DEF MoneyLocals, MayPay, ValPC, BookPC, OldPC, BeforeTransfer
<1>5. CASE proc[x].pc = "hook_confirm"
  <2>1. PICK b \in Bookings, p \in Payments : b = proc[x].b /\ p = proc[x].p
    BY <1>1, <1>5
  <2>2. bookings[b].tx = p /\ Unpaid(p) /\ Own(p, "booking", b)
    BY <1>5, <2>1, NoneIsNoKey DEF MoneyLocals, LinkInv, OwnOrNone
  <2>3. Unpaid(p)' /\ RowKept(b)
    BY <2>2 DEF Unpaid, SamePay, Own
  <2>. QED  BY <1>5, <2>1, <2>2, <2>3 DEF MoneyLocals, MayPay, RowKept, ValPC, BookPC, OldPC, BeforeTransfer
<1>6. CASE proc[x].pc \notin ValPC \cup BookPC \cup {"hook_confirm"}
  BY <1>6, NoClaims
<1>. QED
  BY <1>3, <1>4, <1>5, <1>6

\* A webhook, a cancellation and the job run alone.
LEMMA OthersWait ==
  ASSUME ~Overlap, TypeInv, AloneInv, NEW x \in Procs,
         \/ x \in Requests /\ Cancel(x)
         \/ x \in Hooks /\ Hook(x)
         \/ x = Cron /\ ExpiryJob
  PROVE  \A y \in Procs \ {x} : proc[y].pc = "idle"
<1> USE DEF At
<1>1. proc[x].pc # "idle" \/ MayStart(x) \/ (x = Cron /\ due # {})
  <2>1. CASE x \in Requests /\ Cancel(x)
    BY <2>1 DEF Cancel, CancelRead, CancelWrite, CancelReadTx, CancelRelease, CancelMark
  <2>2. CASE x \in Hooks /\ Hook(x)
    BY <2>2 DEF Hook, HookBegin, HookContinue, HookCapturable, HookSucceeded, HookFailed, HookCanceled,
                HookRequiresAction, HookUpdateTx, Deliver, HookConfirm, HookAuthorized, HookCaptured,
                HookFind, HookVoid
  <2>3. CASE x = Cron /\ ExpiryJob
    BY <2>3 DEF ExpiryJob, CronSelect, CronPick, CronSettle, CronMark, CronVoid
  <2>. QED  BY <2>1, <2>2, <2>3
<1>. QED
  BY <1>1 DEF AloneInv, MayStart

\* Of the other handlers, only the webhook that confirms a hold gives a booking a token.
LEMMA OthersRows ==
  ASSUME Edits = {}, ~Faults, TypeInv, OtherStep, NEW b \in Bookings
  PROVE  RowKept(b) \/ \E h \in Hooks : HookConfirm(h) /\ proc[h].b = b
<1> USE DEF At
<1>0. SameKeys
  BY OthersKeep
<1> DEFINE Kept == /\ bookings[b].token = "null" => bookings'[b].token = "null"
                   /\ bookings'[b].status = "PENDING" => bookings[b].status = "PENDING"
           Good == Kept \/ \E h \in Hooks : HookConfirm(h) /\ proc[h].b = b
<1>1. ASSUME UNCHANGED bookings PROVE Good
  BY <1>1
<1>2. ASSUME NEW c, Void(c) PROVE Good
  BY <1>2 DEF Void, TypeInv, TypeOK, BookingRow
<1>8. ASSUME NEW c, bookings' = [bookings EXCEPT ![c].status = "CANCELLED"] PROVE Good
  BY <1>8 DEF TypeInv, TypeOK, BookingRow
<1>9. ASSUME NEW c \in Bookings, TokenExpires(c) PROVE Good
  BY <1>9 DEF TokenExpires, TypeInv, TypeOK, BookingRow
<1>3. ASSUME NEW h \in Hooks, HookConfirm(h) PROVE Good
  BY <1>3 DEF HookConfirm, TypeInv, TypeOK, BookingRow
<1>4. ASSUME NEW r \in Requests, Cancel(r) PROVE Good
  <2>. HIDE DEF Good
  <2>. QED  BY <1>1, <1>8, <1>4 DEF Cancel, CancelRead, CancelWrite, CancelReadTx, CancelRelease, CancelMark
<1>5. ASSUME NEW h \in Hooks, Hook(h) PROVE Good
  <2>. HIDE DEF Good
  <2>. QED  BY <1>1, <1>2, <1>3, <1>5 DEF Hook, HookBegin, HookContinue, HookCapturable, HookSucceeded,
              HookFailed, HookCanceled, HookRequiresAction, HookUpdateTx, HookAuthorized,
              HookCaptured, HookFind, HookVoid
<1>6. ASSUME ExpiryJob PROVE Good
  <2>. HIDE DEF Good
  <2>1. UNCHANGED bookings \/ Void(proc[Cron].b)
    BY <1>6 DEF ExpiryJob, CronSelect, CronPick, CronSettle, CronMark, CronVoid
  <2>. QED  BY <1>1, <1>2, <2>1
<1>7. ASSUME Environment PROVE Good
  <2>. HIDE DEF Good
  <2>1. UNCHANGED bookings \/ \E c \in Bookings : TokenExpires(c)
    BY <1>7 DEF Environment, Authorize, DeclineOrChallenge, HoldLapses
  <2>. QED  BY <1>1, <1>9, <2>1
<1>10. ASSUME NEW c \in Bookings, NEW s \in Slots, EditDate(c, s) PROVE Good
  BY <1>10 DEF EditDate, TypeInv, TypeOK, BookingRow
<1>. QED
  BY <1>0, <1>4, <1>5, <1>6, <1>7, <1>10
  DEF OtherStep, ByHand, RequestStops, HookStops, CronStops, RowKept, SameKeys

\* A payment that paid nothing out is within any count.
LEMMA UnpaidWithin ==
  ASSUME TypeInv, NEW p \in Payments, payments[p].paid = 0, NEW n \in Nat \ {0}, NEW d \in Nat
  PROVE  Within(p, n, d)
<1>1. payments[p].amount \in Nat
  BY DEF TypeInv, TypeOK, PaymentRow
<1>2. payments[p].amount \div n \in Nat
  BY <1>1
<1>3. \A s \in Nat : 0 <= d * s
  OBVIOUS
<1>. QED
  BY <1>2, <1>3 DEF Within

\* A cancellation, a webhook and the job move themselves only, and of them only a
\* webhook that found a booking for a hold has a claim.
LEMMA OthersClaim ==
  ASSUME TypeInv, NEW x \in Procs,
         \/ x \in Requests /\ Cancel(x)
         \/ x \in Hooks /\ Hook(x)
         \/ x = Cron /\ ExpiryJob
  PROVE  /\ \A y \in Procs \ {x} : proc'[y] = proc[y]
         /\ \/ proc'[x].pc \notin ValPC \cup BookPC \cup {"hook_confirm"}
            \/ x \in Hooks /\ \E p \in Payments : HookCapturable(x, p)
<1> USE DEF At
<1> DEFINE Claims == ValPC \cup BookPC \cup {"hook_confirm"}
           Good == /\ \A y \in Procs \ {x} : proc'[y] = proc[y]
                   /\ \/ proc'[x].pc \notin Claims
                      \/ x \in Hooks /\ \E p \in Payments : HookCapturable(x, p)
<1>0. proc \in [Procs -> Local] /\ proc[x] \in Local
  BY DEF TypeInv, TypeOK
<1>1. ASSUME NEW l, proc' = [proc EXCEPT ![x] = l], l.pc \notin Claims PROVE Good
  BY <1>0, <1>1
<1>2. ASSUME NEW pc \in {"cancel_read_tx", "cancel_release", "cancel_mark", "hook_authorized",
                         "cron_mark", "cron_void"}, Goto(x, pc) PROVE Good
  BY <1>0, <1>2 DEF Goto, Local, ValPC, BookPC, OldPC
<1>3. ASSUME Return(x) PROVE Good
  <2>1. Idle.pc \notin Claims
    BY DEF Idle, ValPC, BookPC, OldPC
  <2>. QED  BY <1>1, <1>3, <2>1 DEF Return
<1>4. ASSUME UNCHANGED proc, proc[x].pc = "idle" PROVE Good
  BY <1>4 DEF ValPC, BookPC, OldPC
<1>5. ASSUME NEW r \in Requests, r = x, Cancel(r) PROVE Good
  <2>1. ASSUME NEW b \in Bookings, CancelRead(r, b) PROVE Good
    <3>1. proc' = [proc EXCEPT ![x] = [Idle EXCEPT !.pc = "cancel_write", !.b = b, !.p = bookings[b].tx]]
      BY <1>5, <2>1 DEF CancelRead
    <3>2. proc'[x].pc = "cancel_write" /\ \A y \in Procs \ {x} : proc'[y] = proc[y]
      BY <1>0, <3>1 DEF Idle
    <3>. QED  BY <3>2 DEF ValPC, BookPC, OldPC
  <2>. HIDE DEF Good
  <2>. QED  BY <1>2, <1>3, <1>5, <2>1 DEF Cancel, CancelWrite, CancelReadTx, CancelRelease, CancelMark
<1>6. ASSUME NEW h \in Hooks, h = x, Hook(h) PROVE Good
  <2>1. ASSUME NEW p \in Payments, HookCapturable(h, p) PROVE Good
    BY <1>0, <1>6, <2>1 DEF HookCapturable
  <2>2. ASSUME NEW p, NEW kind, NEW status, NEW next \in {"idle", "hook_captured", "hook_find"},
               HookUpdateTx(h, p, kind, status, next)
        PROVE  Good
    <3>1. proc'[x].pc = next /\ \A y \in Procs \ {x} : proc'[y] = proc[y]
      BY <1>0, <1>6, <2>2 DEF HookUpdateTx, Idle
    <3>. QED  BY <3>1 DEF ValPC, BookPC, OldPC
  <2>3. CASE HookFind(h)
    <3>1. PICK b : IF b = None THEN Return(h)
                   ELSE proc' = [proc EXCEPT ![h] = [@ EXCEPT !.pc = "hook_void", !.b = b]]
      BY <2>3 DEF HookFind
    <3>2. CASE b = None
      BY <1>3, <1>6, <3>1, <3>2
    <3>3. CASE b # None
      <4>1. proc' = [proc EXCEPT ![x] = [@ EXCEPT !.pc = "hook_void", !.b = b]]
        BY <1>6, <3>1, <3>3
      <4>2. proc'[x].pc = "hook_void" /\ \A y \in Procs \ {x} : proc'[y] = proc[y]
        BY <1>0, <4>1 DEF Local
      <4>. QED  BY <4>2 DEF ValPC, BookPC, OldPC
    <3>. QED  BY <3>2, <3>3
  <2>4. ASSUME HookContinue(h) PROVE Good
    <3>. HIDE DEF Good
    <3>. QED  BY <1>2, <1>3, <1>6, <2>3, <2>4 DEF HookContinue, HookConfirm, HookAuthorized, HookCaptured,
                HookVoid
  <2>. HIDE DEF Good
  <2>. QED  BY <1>6, <2>1, <2>2, <2>4 DEF Hook, HookBegin, HookSucceeded, HookFailed, HookCanceled,
              HookRequiresAction
<1>7. ASSUME x = Cron, ExpiryJob PROVE Good
  <2>1. ASSUME CronPick PROVE Good
    <3>1. proc'[x].pc = "cron_settle" /\ \A y \in Procs \ {x} : proc'[y] = proc[y]
      BY <1>0, <1>7, <2>1 DEF CronPick, Idle
    <3>. QED  BY <3>1 DEF ValPC, BookPC, OldPC
  <2>. HIDE DEF Good
  <2>. QED  BY <1>2, <1>3, <1>4, <1>7, <2>1 DEF ExpiryJob, CronSelect, CronSettle, CronMark, CronVoid,
              MayStart
<1>. QED
  BY <1>5, <1>6, <1>7

\* The confirmation of a hold gives the booking its first token, when nothing was paid.
LEMMA ConfirmMoney ==
  ASSUME ~Overlap, TypeInv, TypeInv', AloneInv, HoldsInv, MoneyInv, NEW h \in Hooks, HookConfirm(h),
         NEW b \in Bookings, b = proc[h].b
  PROVE  MoneyRow(b)'
<1> USE DEF At
<1>1. h \in Procs /\ proc[h].pc = "hook_confirm" /\ proc[h] \in Local
  BY DEF Procs, HookConfirm, TypeInv, TypeOK
<1>2. PICK p \in Payments : p = proc[h].p
  BY <1>1 DEF TypeInv, Named, HookPC
<1>3. bookings[b].tx = p /\ Unpaid(p) /\ MoneyRow(b)
  BY <1>1, <1>2 DEF MoneyInv, MoneyLocals
<1>4. Confirmed(p)'
  <2>1. Confirming(h, p) /\ UNCHANGED <<payments, events>>
    BY <1>1, <1>2 DEF Confirming, HookConfirm
  <2>2. WasHeld(p) /\ EventsOf(p, "capturable") \notin events
    BY <1>1, <2>1 DEF HoldsInv
  <2>3. \A y \in Procs \ {h} : proc[y].pc = "idle" /\ proc'[y] = proc[y]
    BY <1>1, OthersWait, OthersClaim DEF Hook, HookContinue
  <2>4. proc'[h].pc = "hook_authorized"
    BY <1>1 DEF HookConfirm, Goto, Local, TypeInv, TypeOK
  <2>. QED  BY <2>1, <2>2, <2>3, <2>4 DEF Confirmed, Confirming, WasHeld
<1>5. /\ bookings'[b].status = "CONFIRMED" /\ bookings'[b].n = bookings[b].n
      /\ bookings'[b].done = bookings[b].done /\ bookings'[b].tx = p
  BY <1>1, <1>2, <1>3 DEF HookConfirm, TypeInv, TypeOK, BookingRow
<1>6. payments' = payments /\ bookings[b].n \in Nat /\ bookings[b].done \in Nat
  BY SizesAreCounts DEF HookConfirm, TypeInv, TypeOK, BookingRow
<1>7. payments'[p].paid = 0 /\ (bookings[b].n # 0 => Within(p, bookings[b].n, bookings[b].done)')
  <2>1. bookings[b].n # 0 => Within(p, bookings[b].n, bookings[b].done)
    BY <1>3, <1>6, UnpaidWithin DEF Unpaid
  <2>. QED  BY <1>3, <1>5, <1>6, <2>1 DEF Unpaid, Within
<1>. QED
  BY <1>3, <1>4, <1>5, <1>7 DEF MoneyRow

\* What a step of any handler may rely on.
MoneyStep ==
    /\ TypeInv /\ TypeInv' /\ LedgerInv /\ LinkInv /\ SerialInv /\ HoldsInv /\ MoneyInv /\ RowsOnward
    /\ \A p \in Payments : Confirmed(p) => Confirmed(p)'

\* The webhook, the job, a cancellation and Stripe pay nothing out.
LEMMA OthersMoney ==
  ASSUME ~Overlap, ~Faults, Edits = {}, MoneyStep, OtherStep PROVE MoneyInv'
<1> USE DEF MoneyStep
<1>1. \A p \in Payments : SamePay(p)
  BY OthersPay DEF SamePay
<1>2. \A b \in Bookings : Writing(b) => Writing(b)'
  BY ValidationsLeft DEF Writing, Noting, ValPC
<1>3. ASSUME NEW b \in Bookings PROVE MoneyRow(b)'
  <2>1. CASE RowKept(b)
    BY <1>1, <1>2, <2>1, RowMoney DEF MoneyInv
  <2>2. CASE \E h \in Hooks : HookConfirm(h) /\ proc[h].b = b
    BY <2>2, ConfirmMoney DEF SerialInv
  <2>. QED  BY <2>1, <2>2, OthersRows
<1>4. ASSUME NEW x \in Procs,
             \/ x \in Requests /\ Cancel(x)
             \/ x \in Hooks /\ Hook(x)
             \/ x = Cron /\ ExpiryJob,
             NEW y \in Procs
      PROVE  MoneyLocals(proc[y])'
  <2>1. CASE y # x
    <3>1. proc'[y] = proc[y] /\ proc[y].pc = "idle"
      BY <1>4, <2>1, OthersWait, OthersClaim DEF SerialInv
    <3>. QED  BY <3>1, NoClaims DEF ValPC, BookPC, OldPC
  <2>2. CASE y = x /\ proc'[x].pc \notin ValPC \cup BookPC \cup {"hook_confirm"}
    BY <2>2, NoClaims
  <2>3. ASSUME y = x, x \in Hooks, NEW p \in Payments, HookCapturable(x, p) PROVE MoneyLocals(proc[y])'
    <3>1. PICK b \in LinkedTo(p) : proc' = [proc EXCEPT ![x] = [Idle EXCEPT !.p = p, !.b = b,
             !.seen = "capturable", !.pc = IF b = None THEN "hook_authorized" ELSE "hook_confirm"]]
      BY <2>3 DEF HookCapturable
    <3>2. /\ proc'[x].p = p /\ proc'[x].b = b
          /\ proc'[x].pc = IF b = None THEN "hook_authorized" ELSE "hook_confirm"
      BY <3>1 DEF Idle, TypeInv, TypeOK
    <3>3. CASE b = None
      BY <2>3, <3>2, <3>3, NoClaims DEF ValPC, BookPC, OldPC
    <3>4. CASE b # None
      <4>1. b \in Bookings /\ bookings[b].tx = p
        BY <3>4 DEF LinkedTo
      <4>2. EventsOf(p, "capturable") \in events /\ UNCHANGED <<bookings, payments>>
        BY <2>3 DEF HookCapturable, Deliver
      <4>3. ~Confirmed(p) /\ MoneyRow(b)
        BY <4>1, <4>2 DEF Confirmed, MoneyInv
      <4>4. Unpaid(p)
        BY <4>1, <4>3, NoneIsNoKey DEF MoneyRow
      <4>5. bookings'[b].tx = p /\ Unpaid(p)' /\ proc'[y].pc = "hook_confirm"
            /\ proc'[y].b = b /\ proc'[y].p = p
        BY <2>3, <3>2, <3>4, <4>1, <4>2, <4>4 DEF Unpaid
      <4>. QED  BY <4>5 DEF MoneyLocals, MayPay, ValPC, BookPC, OldPC, BeforeTransfer
    <3>. QED  BY <3>3, <3>4
  <2>. QED  BY <1>4, <2>1, <2>2, <2>3, OthersClaim
<1>5. ASSUME Environment \/ ByHand, NEW y \in Procs PROVE MoneyLocals(proc[y])'
  <2> DEFINE Untouched(b) == /\ bookings'[b].status = bookings[b].status
                             /\ bookings[b].token = "null" => bookings'[b].token = "null"
  <2>1. UNCHANGED proc
    BY <1>5 DEF Environment, Authorize, DeclineOrChallenge, HoldLapses, TokenExpires, ByHand, EditStatus,
                EditDate
  <2>2. ASSUME NEW b \in Bookings PROVE Untouched(b)
    <3>1. CASE Environment
      BY <3>1 DEF Environment, Authorize, DeclineOrChallenge, HoldLapses, TokenExpires, TypeInv, TypeOK,
                  BookingRow
    <3>2. ASSUME NEW c \in Bookings, NEW s \in Slots, EditDate(c, s) PROVE Untouched(b)
      BY <3>2 DEF EditDate, TypeInv, TypeOK, BookingRow
    <3>. QED  BY <1>5, <3>1, <3>2 DEF ByHand
  <2>3. SameKeys
    BY OthersKeep
  <2>4. \A b \in Bookings : RowKept(b) /\ bookings'[b].status = bookings[b].status
    BY <2>2, <2>3 DEF RowKept, SameKeys
  <2>. QED  BY <1>1, <2>1, <2>4, ClaimsKept DEF SerialInv, MoneyInv
<1>6. PayoutConserved'
  BY <1>1, PaidKept DEF MoneyInv
<1>7. \A y \in Procs : MoneyLocals(proc[y])'
  BY <1>4, <1>5 DEF OtherStep, RequestStops, HookStops, CronStops, Procs
<1>. QED
  BY <1>3, <1>6, <1>7 DEF MoneyInv

\* The claims of handlers that wait, and of the one that moves, are all there are.
LEMMA RequestMoney ==
  ASSUME ~Overlap, MoneyStep, NEW r \in Requests, Book(r) \/ Validate(r),
         PayoutConserved', \A b \in Bookings : MoneyRow(b)', MoneyLocals(proc[r])'
  PROVE  MoneyInv'
<1>1. ASSUME NEW y \in Procs \ {r} PROVE MoneyLocals(proc[y])'
  <2>1. proc'[y].pc = "idle"
    BY OthersIdle DEF MoneyStep, SerialInv
  <2>. QED  BY <2>1, NoClaims DEF ValPC, BookPC, OldPC
<1>. QED
  BY <1>1 DEF MoneyInv

\* bookAppointment writes a booking while it is PENDING, that is before its first token.
LEMMA BookMoney == ASSUME ~Overlap, MoneyStep, NEW r \in Requests, Book(r) PROVE MoneyInv'
<1> USE DEF At
<1>0. /\ r \in Procs /\ proc[r] \in Local /\ Named(r, proc[r]) /\ MoneyLocals(proc[r])
      /\ \A b \in Bookings : MoneyRow(b) /\ bookings[b] \in BookingRow
      /\ TypeInv /\ LinkInv /\ RowsOnward /\ \A p \in Payments : Confirmed(p) => Confirmed(p)'
  BY DEF MoneyStep, Procs, TypeInv, TypeOK, MoneyInv
<1>1. /\ proc[r].pc \notin ValPC
      /\ \A y \in Procs \ {r} : proc[y].pc = "idle" /\ proc'[y].pc = "idle"
  <2>1. proc[r].pc \notin ValPC
    BY DEF Book, BookRead, BookCreate, BookUpdate, BookReadOld, BookCancelOld, BookMarkOld, BookPay,
           BookLink, MayStart, ValPC
  <2>. QED  BY <2>1, OthersIdle DEF MoneyStep, SerialInv
<1>2. \A b \in Bookings : ~Writing(b)
  BY <1>1 DEF Writing, Noting, ValPC
<1>3. ASSUME \A p \in Payments : SamePay(p), \A b \in Bookings : RowKept(b) \/ MoneyRow(b)',
             MoneyLocals(proc[r])'
      PROVE  MoneyInv'
  <2>1. \A b \in Bookings : MoneyRow(b)'
    BY <1>0, <1>2, <1>3, RowMoney
  <2>2. PayoutConserved'
    BY <1>3, PaidKept DEF MoneyStep, MoneyInv
  <2>. QED  BY <1>3, <2>1, <2>2, RequestMoney
<1>4. UNCHANGED payments => \A p \in Payments : SamePay(p)
  BY DEF SamePay
<1>5. UNCHANGED bookings => \A b \in Bookings : RowKept(b)
  BY DEF RowKept
<1>6. ASSUME NEW p, NEW status, SetTx(p, status) PROVE \A q \in Payments : SamePay(q)
  BY <1>6 DEF SetTx, SamePay, TypeInv, TypeOK, PaymentRow, MoneyStep
<1>7. ASSUME NEW p, CancelIntent(p) PROVE \A q \in Payments : SamePay(q)
  BY <1>7 DEF CancelIntent, SamePay, TypeInv, TypeOK, PaymentRow, MoneyStep
\* The locals of a call that is still about the same PENDING booking.
<1>8. ASSUME proc'[r].pc \in (BookPC \ {"book_link"}) \cup {"idle"},
             proc'[r].b # None => bookings'[proc'[r].b].status = "PENDING"
      PROVE  MoneyLocals(proc[r])'
  BY <1>8 DEF MoneyLocals, MayPay, ValPC, BookPC, OldPC, BeforeTransfer
<1>9. ASSUME NEW s \in Slots, NEW n \in Sizes, BookRead(r, s, n) PROVE MoneyInv'
  <2>1. PICK b \in Bookings \cup {None} :
          /\ b # None => bookings[b].status = "PENDING"
          /\ proc' = [proc EXCEPT ![r] = [Idle EXCEPT !.pc = "book_write", !.slot = s, !.b = b, !.n = n]]
    BY <1>9 DEF BookRead
  <2>2. proc'[r].pc = "book_write" /\ proc'[r].b = b
    BY <1>0, <2>1 DEF Idle, TypeInv, TypeOK
  <2>3. UNCHANGED <<bookings, payments>>
    BY <1>9 DEF BookRead
  <2>. QED  BY <1>3, <1>4, <1>5, <1>8, <2>1, <2>2, <2>3 DEF BookPC
<1>10. CASE BookCreate(r)
  <2>1. PICK b \in Bookings :
          /\ bookings' = [bookings EXCEPT ![b] =
                [NoBooking EXCEPT !.slot = proc[r].slot, !.status = "PENDING", !.n = proc[r].n]]
          /\ proc' = [proc EXCEPT ![r] = [@ EXCEPT !.pc = "book_pay", !.b = b]]
    BY <1>10 DEF BookCreate
  <2>2. /\ bookings'[b].tx = None /\ bookings'[b].status = "PENDING" /\ bookings'[b].token = "null"
        /\ bookings'[b].done = 0 /\ bookings'[b].n \in Nat
        /\ \A c \in Bookings \ {b} : bookings'[c] = bookings[c]
    BY <1>0, <2>1, SizesAreCounts DEF NoBooking, TypeInv, TypeOK, Local
  <2>3. proc'[r].pc = "book_pay" /\ proc'[r].b = b
    BY <1>0, <2>1 DEF TypeInv, TypeOK, Local
  <2>4. MoneyRow(b)' /\ \A c \in Bookings \ {b} : RowKept(c)
    BY <2>2 DEF MoneyRow, RowKept
  <2>5. MoneyLocals(proc[r])'
    BY <1>8, <2>2, <2>3 DEF BookPC
  <2>6. UNCHANGED payments
    BY <1>10 DEF BookCreate
  <2>. QED  BY <1>3, <1>4, <2>4, <2>5, <2>6
<1>11. CASE BookUpdate(r)
  <2>1. PICK b \in Bookings, pc \in {"book_pay", "book_read_old"} :
          /\ b = proc[r].b
          /\ bookings' = [bookings EXCEPT ![b] =
                [@ EXCEPT !.slot = proc[r].slot, !.status = "PENDING", !.n = proc[r].n, !.done = 0]]
          /\ proc' = [proc EXCEPT ![r] = [@ EXCEPT !.q = bookings[b].tx, !.pc = pc]]
    BY <1>0, <1>11 DEF BookUpdate, Local
  <2>2. /\ bookings'[b].tx = bookings[b].tx /\ bookings'[b].status = "PENDING"
        /\ bookings'[b].token = bookings[b].token
        /\ bookings'[b].done = 0 /\ bookings'[b].n = proc[r].n /\ proc[r].n \in Nat
        /\ \A c \in Bookings \ {b} : bookings'[c] = bookings[c]
    BY ZenonT(60), <1>0, <2>1, SizesAreCounts DEF TypeInv, TypeOK, BookingRow, Local
  <2>3. bookings[b].status = "PENDING"
    BY <1>0, <1>11, <2>1, NoneIsNoKey DEF BookUpdate, MoneyLocals, BookPC
  <2>4. bookings[b].token = "null" /\ (bookings[b].tx # None => Unpaid(bookings[b].tx))
    BY <1>0, <2>3 DEF MoneyRow
  <2>5. UNCHANGED payments
    BY <1>11 DEF BookUpdate
  <2>6. MoneyRow(b)'
    <3>1. CASE bookings[b].tx = None
      BY <2>2, <2>4, <3>1 DEF MoneyRow
    <3>2. ASSUME NEW p \in Payments, bookings[b].tx = p PROVE MoneyRow(b)'
      <4>1. Unpaid(p)' /\ payments'[p].paid = 0
        BY <2>4, <2>5, <3>2, NoneIsNoKey DEF Unpaid
      <4>2. PICK n \in Nat : n = proc[r].n
        BY <2>2
      <4>3. n # 0 => Within(p, n, 0)
        BY <1>0, <2>5, <4>1, UnpaidWithin
      <4>4. n # 0 => Within(p, n, 0)'
        BY <2>5, <4>3 DEF Within
      <4>. QED  BY <2>2, <2>4, <3>2, <4>1, <4>2, <4>4 DEF MoneyRow
    <3>. QED  BY <1>0, <3>1, <3>2 DEF BookingRow
  <2>7. proc'[r].pc = pc /\ proc'[r].b = b
    BY <1>0, <2>1 DEF TypeInv, TypeOK, Local
  <2>8. MoneyLocals(proc[r])'
    BY <1>8, <2>2, <2>7 DEF BookPC, OldPC
  <2>9. \A c \in Bookings \ {b} : RowKept(c)
    BY <2>2 DEF RowKept
  <2>. QED  BY <1>3, <1>4, <2>5, <2>6, <2>8, <2>9
<1>12. CASE BookReadOld(r) \/ BookCancelOld(r) \/ BookMarkOld(r)
  <2>1. PICK pc \in {"book_pay", "book_cancel_old", "book_mark_old"} : Goto(r, pc)
    BY <1>12 DEF BookReadOld, BookCancelOld, BookMarkOld
  <2>2. proc'[r].pc = pc /\ proc'[r].b = proc[r].b
    BY <1>0, <2>1 DEF Goto, TypeInv, TypeOK, Local
  <2>3. proc[r].b # None => bookings[proc[r].b].status = "PENDING"
    BY <1>0, <1>12 DEF BookReadOld, BookCancelOld, BookMarkOld, MoneyLocals, BookPC, OldPC
  <2>4. UNCHANGED bookings /\ \A p \in Payments : SamePay(p)
    BY <1>4, <1>6, <1>7, <1>12 DEF BookReadOld, BookCancelOld, BookMarkOld
  <2>5. MoneyLocals(proc[r])'
    BY <1>8, <2>2, <2>3, <2>4 DEF BookPC, OldPC
  <2>. QED  BY <1>3, <1>5, <2>4, <2>5
<1>13. CASE BookPay(r)
  <2>1. PICK p \in Payments :
          /\ payments[p].status = "none"
          /\ payments' = [payments EXCEPT ![p] = [NoPayment EXCEPT !.type = "booking",
                !.booking = proc[r].b, !.amount = Price[proc[r].n], !.status = "pending",
                !.intent = "open"]]
          /\ proc' = [proc EXCEPT ![r] = [@ EXCEPT !.pc = "book_link", !.p = p]]
    BY <1>13 DEF BookPay
  <2>2. /\ payments'[p].paid = 0 /\ payments'[p].transfer = "none"
        /\ \A q \in Payments \ {p} : payments'[q] = payments[q]
    BY <1>0, <2>1 DEF NoPayment, TypeInv, TypeOK
  <2>3. payments[p].paid = 0
    BY <1>0, <2>1 DEF MoneyStep, LedgerInv, RowTrue, TypeInv, TypeOK, PaymentRow
  <2>4. \A q \in Payments : SamePay(q)
    BY <2>1, <2>2, <2>3 DEF SamePay
  <2>5. proc'[r].pc = "book_link" /\ proc'[r].p = p /\ proc'[r].b = proc[r].b /\ UNCHANGED bookings
    BY <1>0, <1>13, <2>1 DEF BookPay, TypeInv, TypeOK, Local
  <2>6. proc[r].b # None => bookings[proc[r].b].status = "PENDING"
    BY <1>0, <1>13 DEF BookPay, MoneyLocals, BookPC
  <2>7. MoneyLocals(proc[r])'
    BY <2>2, <2>5, <2>6 DEF MoneyLocals, MayPay, ValPC, BookPC, OldPC, BeforeTransfer, Unpaid
  <2>. QED  BY <1>3, <1>5, <2>4, <2>5, <2>7
<1>14. CASE BookLink(r)
  <2>1. PICK p \in Payments, b \in Bookings : p = proc[r].p /\ b = proc[r].b
    BY <1>0, <1>14 DEF BookLink, Named
  <2>2. Unpaid(p) /\ bookings[b].status = "PENDING"
    BY <1>0, <1>14, <2>1, NoneIsNoKey DEF BookLink, MoneyLocals, BookPC
  <2>3. /\ bookings'[b].tx = p /\ bookings'[b].status = bookings[b].status
        /\ bookings'[b].token = bookings[b].token /\ bookings'[b].n = bookings[b].n
        /\ bookings'[b].done = bookings[b].done
        /\ \A c \in Bookings \ {b} : bookings'[c] = bookings[c]
    BY <1>0, <1>14, <2>1 DEF BookLink, TypeInv, TypeOK, BookingRow
  <2>4. \A q \in Payments : /\ payments'[q].paid = payments[q].paid
                            /\ payments'[q].transfer = payments[q].transfer
                            /\ payments'[q].amount = payments[q].amount
    BY <1>0, <1>14 DEF BookLink, TypeInv, TypeOK, PaymentRow
  <2>5. PICK n, d \in Nat : n = bookings[b].n /\ d = bookings[b].done
    BY <1>0, SizesAreCounts DEF BookingRow
  <2>6. n # 0 => Within(p, n, d)
    BY <1>0, <2>2, <2>5, UnpaidWithin DEF Unpaid
  <2>7. Unpaid(p)' /\ (n # 0 => Within(p, n, d)')
    BY <2>2, <2>4, <2>6 DEF Unpaid, Within
  <2>8. MoneyRow(b)'
    BY <1>0, <2>2, <2>3, <2>5, <2>7 DEF MoneyRow, Unpaid
  <2>9. proc'[r].pc = "idle"
    BY <1>0, <1>14 DEF BookLink, Return, Idle, TypeInv, TypeOK
  <2>10. MoneyLocals(proc[r])'
    BY <2>9, NoClaims DEF ValPC, BookPC, OldPC
  <2>11. \A q \in Payments : SamePay(q)
    BY <2>4 DEF SamePay
  <2>12. \A c \in Bookings \ {b} : RowKept(c)
    BY <2>3 DEF RowKept
  <2>. QED  BY <1>3, <2>8, <2>10, <2>11, <2>12
<1>. QED
  BY <1>9, <1>10, <1>11, <1>12, <1>13, <1>14 DEF Book

\* The part of the price one validation pays out keeps the payment within the count.
LEMMA ShareWithin ==
  ASSUME TypeInv, NEW p \in Payments, NEW n \in Nat, NEW d \in Nat,
         payments'[p].amount = payments[p].amount,
         payments'[p].paid = payments[p].paid + Share(p, n),
         IF n # 0 THEN d < n /\ Within(p, n, d) ELSE payments[p].paid = 0
  PROVE  /\ payments'[p].paid <= payments'[p].amount
         /\ n # 0 => Within(p, n, d + 1)'
<1>1. payments[p].amount \in Nat /\ payments[p].paid \in Nat
  BY DEF TypeInv, TypeOK, PaymentRow
<1>2. CASE n = 0
  BY <1>1, <1>2 DEF Share
<1>3. CASE n # 0
  <2> DEFINE share == payments[p].amount \div n
  <2>1. share \in Nat /\ payments[p].paid <= d * share /\ payments'[p].paid = payments[p].paid + share
    BY <1>1, <1>3 DEF Share, Within
  <2>2. (d + 1) * share <= payments[p].amount
    BY SMTT(40), <1>1, <1>3, SharesFit
  <2> HIDE DEF share
  <2>3. (d + 1) * share = d * share + share /\ d * share \in Nat
    BY <2>1
  <2>4. payments'[p].paid <= (d + 1) * share
    BY <1>1, <2>1, <2>3
  <2>. QED  BY <1>1, <1>3, <2>1, <2>2, <2>3, <2>4 DEF Within, share
<1>. QED
  BY <1>2, <1>3

\* A validation pays one session's share, counts the session, and leaves a token only
\* when shares are left.
LEMMA ValidateMoney ==
  ASSUME ~Overlap, MoneyStep, UsesInv, NEW r \in Requests, Validate(r) PROVE MoneyInv'
<1> USE DEF At
<1>0. /\ r \in Procs /\ proc[r] \in Local /\ Named(r, proc[r]) /\ Holding(proc[r])
      /\ Fresh(proc[r]) /\ MoneyLocals(proc[r])
      /\ \A b \in Bookings : MoneyRow(b) /\ bookings[b] \in BookingRow /\ bookings[b].offerTx = None
                             /\ bookings[b].n \in Nat /\ bookings[b].done \in Nat
      /\ TypeInv /\ LinkInv /\ RowsOnward /\ \A p \in Payments : Confirmed(p) => Confirmed(p)'
  BY SizesAreCounts DEF MoneyStep, Procs, TypeInv, TypeOK, BookingRow, LinkInv, SerialInv, FreshInv,
                        MoneyInv, UsesInv
<1>1. \A y \in Procs \ {r} : proc[y].pc = "idle" /\ proc'[y].pc = "idle"
  BY OthersIdle DEF MoneyStep, SerialInv
<1>2. ASSUME \A p \in Payments : SamePay(p),
             \A b \in Bookings : RowKept(b), proc[r].pc \notin Noting, MoneyLocals(proc[r])'
      PROVE  MoneyInv'
  <2>1. \A b \in Bookings : ~Writing(b)
    BY <1>1, <1>2 DEF Writing, Noting
  <2>2. \A b \in Bookings : MoneyRow(b)'
    BY <1>0, <1>2, <2>1, RowMoney
  <2>3. PayoutConserved'
    BY <1>2, PaidKept DEF MoneyStep, MoneyInv
  <2>. QED  BY <1>2, <2>2, <2>3, RequestMoney
<1>3. UNCHANGED payments => \A p \in Payments : SamePay(p)
  BY DEF SamePay
<1>4. UNCHANGED bookings => \A b \in Bookings : RowKept(b)
  BY DEF RowKept
<1>5. ASSUME Return(r) PROVE proc'[r].pc = "idle" /\ MoneyLocals(proc[r])'
  <2>1. proc'[r].pc = "idle"
    BY <1>0, <1>5 DEF Return, Idle, TypeInv, TypeOK
  <2>. QED  BY <2>1, NoClaims DEF ValPC, BookPC, OldPC
<1>6. ASSUME NEW b \in Bookings, ValidateRead(r, b) PROVE MoneyInv'
  <2>1. PICK seen \in {"bare", "token"} :
          /\ seen = "token" => bookings[b].token = "live"
          /\ proc' = [proc EXCEPT ![r] =
               [Idle EXCEPT !.pc = "val_check", !.b = b, !.p = bookings[b].tx,
                  !.q = bookings[b].offerTx, !.n = bookings[b].n, !.done = bookings[b].done,
                  !.seen = seen]]
    BY <1>6 DEF ValidateRead
  <2>2. PICK p \in Payments : p = bookings[b].tx /\ p # None
    BY <1>0, <1>6 DEF ValidateRead, BookingRow
  <2>3. /\ proc'[r].pc = "val_check" /\ proc'[r].b = b /\ proc'[r].p = p /\ proc'[r].seen = seen
        /\ UNCHANGED <<bookings, payments, events>>
    BY <1>0, <1>6, <2>1, <2>2 DEF ValidateRead, Idle, TypeInv, TypeOK
  <2>4. proc[r].pc = "idle" /\ ~Writing(b)
    BY <1>1, <1>6 DEF ValidateRead, MayStart, Writing, Noting
  <2>5. seen = "token" => /\ bookings[b].status # "PENDING" /\ Confirmed(p)
                          /\ bookings[b].n = 0 => payments[p].paid = 0
    BY <1>0, <2>1, <2>2, <2>4 DEF MoneyRow
  <2>6. bookings[b].n # 0 => bookings[b].done < bookings[b].n
    BY <1>6 DEF ValidateRead
  <2>7. MoneyLocals(proc[r])'
    BY <1>0, <2>3, <2>5, <2>6 DEF MoneyLocals, MayPay, ValPC, BookPC, OldPC, BeforeTransfer
  <2>. QED  BY <1>2, <1>3, <1>4, <2>3, <2>4, <2>7 DEF Noting
<1>7. ASSUME proc[r].pc \in ValPC
      PROVE  \E b \in Bookings, p \in Payments : b = proc[r].b /\ p = proc[r].p /\ p # None
               /\ proc[r].q = None /\ bookings[b].tx = p /\ Own(p, "booking", b)
  BY <1>0, <1>7, NoneIsNoKey DEF Named, Fresh, Holding
<1>8. CASE ValidateCheck(r)
  <2>1. proc[r].pc = "val_check" /\ UNCHANGED <<bookings, payments, events>>
    BY <1>8 DEF ValidateCheck
  <2>2. PICK b \in Bookings, p \in Payments : b = proc[r].b /\ p = proc[r].p /\ p # None
               /\ proc[r].q = None /\ bookings[b].tx = p
    BY <1>7, <2>1 DEF ValPC
  <2>3. Return(r) \/ (Goto(r, "val_capture") /\ (proc[r].seen = "token" \/ payments[p].transfer = "failed"))
    BY <1>8, <2>2 DEF ValidateCheck, PriorTransferFailed
  <2>4. CASE Goto(r, "val_capture") /\ (proc[r].seen = "token" \/ payments[p].transfer = "failed")
    <3>1. proc'[r].pc = "val_capture" /\ proc'[r].b = b /\ proc'[r].p = p
      BY <1>0, <2>2, <2>4 DEF Goto, TypeInv, TypeOK, Local
    <3>2. ~Writing(b)
      BY <1>1, <2>1 DEF Writing, Noting
    <3>3. /\ bookings[b].status # "PENDING" /\ Confirmed(p)
          /\ IF bookings[b].n # 0 THEN bookings[b].done < bookings[b].n ELSE payments[p].paid = 0
      <4>1. CASE proc[r].seen = "token"
        BY <1>0, <2>1, <2>2, <4>1 DEF MoneyLocals, MayPay, ValPC, BeforeTransfer
      <4>2. CASE payments[p].transfer = "failed"
        BY <1>0, <2>1, <2>2, <3>2, <4>2 DEF MoneyLocals, MoneyRow, Unpaid, BeforeTransfer
      <4>. QED  BY <2>4, <4>1, <4>2
    <3>4. MoneyLocals(proc[r])'
      BY <1>0, <2>1, <3>1, <3>3 DEF MoneyLocals, MayPay, ValPC, BookPC, OldPC, BeforeTransfer
    <3>. QED  BY <1>2, <1>3, <1>4, <2>1, <3>4 DEF Noting
  <2>5. CASE Return(r)
    BY <1>2, <1>3, <1>4, <1>5, <2>1, <2>5 DEF Noting
  <2>. QED  BY <2>3, <2>4, <2>5
<1>9. CASE ValidateCaptures(r)
  <2>1. proc[r].pc \in {"val_capture", "val_capture_offer"}
    BY <1>9 DEF ValidateCaptures, ValidateCapture, ValidateCaptureOffer
  <2>2. PICK b \in Bookings, p \in Payments : b = proc[r].b /\ p = proc[r].p /\ p # None
               /\ proc[r].q = None /\ bookings[b].tx = p
    BY <1>7, <2>1 DEF ValPC
  <2>3. Capture(r, p, "val_transfer") /\ proc[r].pc = "val_capture"
    BY <1>0, <1>9, <2>1, <2>2, NoneIsNoKey DEF ValidateCaptures, ValidateCapture, ValidateCaptureOffer,
                                               Named, OldPC
  <2>4. UNCHANGED bookings /\ \A q \in Payments : SamePay(q)
    BY SMTT(40), <1>0, <2>3 DEF Capture, SamePay, TypeInv, TypeOK, PaymentRow
  <2>5. Return(r) \/ Goto(r, "val_transfer")
    BY <2>3 DEF Capture
  <2>6. CASE Goto(r, "val_transfer")
    <3>1. proc'[r].pc = "val_transfer" /\ proc'[r].b = b /\ proc'[r].p = p
      BY <1>0, <2>2, <2>6 DEF Goto, TypeInv, TypeOK, Local
    <3>2. /\ bookings[b].status # "PENDING" /\ Confirmed(p)
          /\ IF bookings[b].n # 0 THEN bookings[b].done < bookings[b].n ELSE payments[p].paid = 0
      BY <1>0, <2>2, <2>3 DEF MoneyLocals, MayPay, ValPC, BeforeTransfer
    <3>3. payments'[p].paid = payments[p].paid /\ Confirmed(p)'
      BY <1>0, <2>4, <3>2 DEF SamePay
    <3>4. MoneyLocals(proc[r])'
      BY <2>4, <3>1, <3>2, <3>3 DEF MoneyLocals, MayPay, ValPC, BookPC, OldPC, BeforeTransfer
    <3>. QED  BY <1>2, <1>4, <2>3, <2>4, <3>4 DEF Noting
  <2>7. CASE Return(r)
    BY <1>2, <1>4, <1>5, <2>3, <2>4, <2>7 DEF Noting
  <2>. QED  BY <2>5, <2>6, <2>7
<1>10. CASE ValidateTransfer(r)
  <2>1. proc[r].pc = "val_transfer" /\ UNCHANGED bookings
    BY <1>10 DEF ValidateTransfer
  <2>2. PICK b \in Bookings, p \in Payments, n, d \in Nat : b = proc[r].b /\ p = proc[r].p /\ p # None
               /\ proc[r].q = None /\ bookings[b].tx = p /\ Own(p, "booking", b)
               /\ n = bookings[b].n /\ d = bookings[b].done
    BY <1>0, <1>7, <2>1 DEF ValPC
  <2>3. proc[r].n = n
    BY <1>0, <2>1, <2>2 DEF Fresh, BeforeTransfer
  <2>4. /\ bookings[b].status # "PENDING" /\ Confirmed(p)
        /\ IF n # 0 THEN d < n /\ Within(p, n, d) ELSE payments[p].paid = 0
    <3>1. ~Writing(b)
      BY <1>1, <2>1 DEF Writing, Noting
    <3>. QED  BY <1>0, <2>1, <2>2, <3>1 DEF MoneyLocals, MayPay, MoneyRow, ValPC, BeforeTransfer
  <2>5. payments'[p].amount = payments[p].amount /\ Confirmed(p)'
    BY <1>0, <2>2, <2>4 DEF Own, RowsOnward
  <2>6. CASE /\ payments' = [q \in Payments |->
                   IF q \in {proc[r].p, proc[r].q}
                   THEN [payments[q] EXCEPT !.paid = @ + Share(q, proc[r].n)] ELSE payments[q]]
             /\ proc' = [proc EXCEPT ![r] = [@ EXCEPT !.pc = "val_write", !.seen = "created"]]
    <3>1. /\ payments'[p].paid = payments[p].paid + Share(p, n)
          /\ \A q \in Payments \ {p} : payments'[q] = payments[q]
      BY <2>2, <2>3, <2>6, NoneIsNoKey DEF TypeInv, TypeOK, PaymentRow, MoneyStep
    <3>2. payments'[p].paid <= payments'[p].amount /\ (n # 0 => Within(p, n, d + 1)')
      BY <1>0, <2>4, <2>5, <3>1, ShareWithin
    <3>3. PayoutConserved'
      BY <3>1, <3>2 DEF PayoutConserved, MoneyStep, MoneyInv
    <3>4. proc'[r].pc = "val_write" /\ proc'[r].seen = "created" /\ proc'[r].b = b /\ proc'[r].p = p
      BY <1>0, <2>2, <2>6 DEF TypeInv, TypeOK, Local
    <3>5. MoneyLocals(proc[r])'
      BY <2>1, <2>2, <2>4, <2>5, <3>2, <3>4 DEF MoneyLocals, MayPay, ValPC, BookPC, OldPC, BeforeTransfer
    <3>6. Writing(b)'
      BY <1>0, <3>4 DEF Writing, Noting
    <3>7. MoneyRow(b)'
      BY <1>0, <2>1, <2>2, <2>4, <2>5, <3>6 DEF MoneyRow
    <3>8. ASSUME NEW c \in Bookings \ {b} PROVE MoneyRow(c)'
      <4>1. ~Writing(c) /\ MoneyRow(c) /\ bookings'[c] = bookings[c]
        BY <1>0, <1>1, <2>1 DEF Writing, Noting
      <4>2. CASE bookings[c].tx = None
        BY <4>1, <4>2 DEF MoneyRow
      <4>3. ASSUME NEW q \in Payments, bookings[c].tx = q PROVE MoneyRow(c)'
        <5>1. q # p
          BY <1>0, <2>2, <4>3, NoneIsNoKey DEF LinkInv, OwnOrNone, Own
        <5>2. payments'[q] = payments[q] /\ (Confirmed(q) => Confirmed(q)')
          BY <1>0, <3>1, <5>1
        <5>3. /\ Unpaid(q)' <=> Unpaid(q)
              /\ \A m, k : Within(q, m, k)' <=> Within(q, m, k)
          BY <5>2 DEF Unpaid, Within
        <5>. QED  BY <4>1, <4>3, <5>2, <5>3 DEF MoneyRow
      <4>. QED  BY <1>0, <4>2, <4>3 DEF BookingRow
    <3>. QED  BY <3>3, <3>5, <3>7, <3>8, RequestMoney
  <2>7. CASE /\ proc' = [proc EXCEPT ![r] = [@ EXCEPT !.pc = "val_write", !.seen = "failed"]]
             /\ UNCHANGED payments
    <3>1. proc'[r].pc = "val_write" /\ proc'[r].seen = "failed" /\ proc'[r].b = b /\ proc'[r].p = p
      BY <1>0, <2>2, <2>7 DEF TypeInv, TypeOK, Local
    <3>2. n # 0 => Within(p, n, d)'
      BY <2>4, <2>7 DEF Within
    <3>3. MoneyLocals(proc[r])'
      BY <2>1, <2>2, <2>4, <2>5, <2>7, <3>1, <3>2 DEF MoneyLocals, MayPay, ValPC, BookPC, OldPC, BeforeTransfer
    <3>. QED  BY <1>2, <1>3, <1>4, <2>1, <2>7, <3>3 DEF Noting
  <2>. QED  BY <1>10, <2>6, <2>7 DEF ValidateTransfer
<1>11. CASE ValidateWrite(r)
  <2>1. proc[r].pc = "val_write" /\ UNCHANGED payments /\ Goto(r, "val_tx")
    BY <1>11 DEF ValidateWrite
  <2>2. PICK b \in Bookings, p \in Payments, n, d \in Nat : b = proc[r].b /\ p = proc[r].p /\ p # None
               /\ proc[r].q = None /\ bookings[b].tx = p
               /\ n = bookings[b].n /\ d = bookings[b].done
    BY <1>0, <1>7, <2>1 DEF ValPC
  <2>3. proc[r].n = n /\ proc[r].done = d /\ proc[r].seen \in {"created", "failed"}
    BY <1>0, <2>1, <2>2 DEF Fresh, Named
  <2> DEFINE created == proc[r].seen = "created"
             more == created /\ n # 0 /\ d + 1 < n
             token == IF more THEN "live" ELSE "null"
             status == IF created /\ ~more THEN "COMPLETED" ELSE "CONFIRMED"
  <2>4. PICK k \in Nat : k = IF created THEN d + 1 ELSE d
    OBVIOUS
  <2>5. bookings' = [bookings EXCEPT ![b] = [@ EXCEPT !.status = status, !.token = token, !.done = k]]
    BY <1>11, <2>2, <2>3, <2>4 DEF ValidateWrite
  <2>6. /\ bookings'[b].status = status /\ bookings'[b].token = token /\ bookings'[b].done = k
        /\ bookings'[b].n = n /\ bookings'[b].tx = p
        /\ \A c \in Bookings \ {b} : bookings'[c] = bookings[c]
    BY <1>0, <2>2, <2>5 DEF TypeInv, TypeOK, BookingRow
  <2>7. /\ Confirmed(p) /\ (n # 0 => k <= n /\ Within(p, n, k))
        /\ n = 0 => token = "null" /\ (created \/ payments[p].paid = 0)
    BY <1>0, <2>1, <2>2, <2>4 DEF MoneyLocals, MayPay, MoneyRow, ValPC
  <2>8. Confirmed(p)' /\ (n # 0 => Within(p, n, k)')
    BY <1>0, <2>1, <2>7 DEF Within
  <2>9. proc'[r].pc = "val_tx" /\ proc'[r].seen = proc[r].seen /\ proc'[r].b = b /\ proc'[r].p = p
    BY <1>0, <2>1, <2>2 DEF Goto, TypeInv, TypeOK, Local
  <2>10. MoneyLocals(proc[r])'
    BY <2>1, <2>6, <2>7, <2>8, <2>9 DEF MoneyLocals, MayPay, ValPC, BookPC, OldPC, BeforeTransfer
  <2>11. Writing(b)'
    BY <1>0, <2>9 DEF Writing, Noting
  <2>12. MoneyRow(b)'
    BY <2>6, <2>7, <2>8, <2>11 DEF MoneyRow
  <2>13. ASSUME NEW c \in Bookings \ {b} PROVE MoneyRow(c)'
    <3>1. ~Writing(c)
      BY <1>1, <2>2 DEF Writing, Noting
    <3>2. RowKept(c)
      BY <2>6 DEF RowKept
    <3>. QED  BY <1>0, <1>3, <2>1, <3>1, <3>2, RowMoney
  <2>14. PayoutConserved'
    BY <1>3, <2>1, PaidKept DEF MoneyStep, MoneyInv
  <2>. QED  BY <2>10, <2>12, <2>13, <2>14, RequestMoney
<1>12. CASE ValidateTxs(r)
  <2>1. proc[r].pc \in {"val_tx", "val_offer_tx"}
    BY <1>12 DEF ValidateTxs, ValidateTx, ValidateOfferTx
  <2>2. PICK b \in Bookings, p \in Payments, n, d \in Nat : b = proc[r].b /\ p = proc[r].p /\ p # None
               /\ proc[r].q = None /\ bookings[b].tx = p /\ Own(p, "booking", b)
               /\ n = bookings[b].n /\ d = bookings[b].done
    BY <1>0, <1>7, <2>1 DEF ValPC
  <2>3. proc[r].pc = "val_tx" /\ MarkTransfer(r, p) /\ Return(r) /\ UNCHANGED <<bookings, events, hist>>
    BY <1>0, <1>12, <2>1, <2>2, NoneIsNoKey DEF ValidateTxs, ValidateTx, ValidateOfferTx, Named
  <2>4. /\ payments'[p].transfer = proc[r].seen /\ payments'[p].paid = payments[p].paid
        /\ payments'[p].amount = payments[p].amount
        /\ \A q \in Payments \ {p} : payments'[q] = payments[q]
    BY <1>0, <2>3 DEF MarkTransfer, TypeInv, TypeOK, PaymentRow
  <2>5. /\ bookings[b].status # "PENDING" /\ Confirmed(p)
        /\ IF n # 0 THEN Within(p, n, d)
           ELSE bookings[b].token = "null" /\ (proc[r].seen = "created" \/ payments[p].paid = 0)
    BY <1>0, <2>2, <2>3 DEF MoneyLocals, MayPay, ValPC
  <2>6. Confirmed(p)' /\ (n # 0 => Within(p, n, d)')
    BY <1>0, <2>4, <2>5 DEF Within
  <2>7. MoneyRow(b)'
    BY <1>0, <2>2, <2>3, <2>4, <2>5, <2>6 DEF MoneyRow
  <2>8. ASSUME NEW c \in Bookings \ {b} PROVE MoneyRow(c)'
    <3>1. ~Writing(c) /\ MoneyRow(c) /\ bookings'[c] = bookings[c]
      BY <1>0, <1>1, <2>2, <2>3 DEF Writing, Noting
    <3>2. CASE bookings[c].tx = None
      BY <3>1, <3>2 DEF MoneyRow
    <3>3. ASSUME NEW q \in Payments, bookings[c].tx = q PROVE MoneyRow(c)'
      <4>1. q # p
        BY <1>0, <2>2, <3>3, NoneIsNoKey DEF LinkInv, OwnOrNone, Own
      <4>2. payments'[q] = payments[q] /\ (Confirmed(q) => Confirmed(q)')
        BY <1>0, <2>4, <4>1
      <4>3. /\ Unpaid(q)' <=> Unpaid(q)
            /\ \A m, k : Within(q, m, k)' <=> Within(q, m, k)
        BY <4>2 DEF Unpaid, Within
      <4>. QED  BY <3>1, <3>3, <4>2, <4>3 DEF MoneyRow
    <3>. QED  BY <1>0, <3>2, <3>3 DEF BookingRow
  <2>9. PayoutConserved'
    BY <2>4 DEF PayoutConserved, MoneyStep, MoneyInv
  <2>. QED  BY <1>5, <2>3, <2>7, <2>8, <2>9, RequestMoney
<1>. QED
  BY <1>6, <1>8, <1>9, <1>10, <1>11, <1>12 DEF Validate

\* The invariant holds for one handler at a time, each run to its end, when an event is
\* delivered once and nobody writes a status by hand.
LEMMA MoneyInvariant ==
  ASSUME ~Overlap, ~Redeliver, ~Faults, Edits = {} PROVE Spec => [](HoldsInv /\ MoneyInv)
<1>1. Init => HoldsInv /\ MoneyInv
  <2>. SUFFICES ASSUME Init PROVE HoldsInv /\ MoneyInv
    OBVIOUS
  <2>1. /\ \A b \in Bookings : bookings[b].tx = None /\ bookings[b].n = 0 /\ bookings[b].token = "null"
        /\ \A p \in Payments : payments[p].paid = 0 /\ payments[p].amount = 0
        /\ \A x \in Procs : proc[x].pc = "idle"
        /\ events = {}
    BY DEF Init, NoBooking, NoPayment, Idle
  <2>2. HoldsInv
    BY <2>1 DEF HoldsInv, Confirming
  <2>3. PayoutConserved /\ \A b \in Bookings : MoneyRow(b)
    BY <2>1 DEF PayoutConserved, MoneyRow
  <2>4. \A x \in Procs : MoneyLocals(proc[x])
    BY <2>1 DEF MoneyLocals, MayPay, ValPC, BookPC, OldPC, BeforeTransfer
  <2>. QED  BY <2>2, <2>3, <2>4 DEF MoneyInv
<1>2. TypeInv /\ TypeInv' /\ LedgerInv /\ LinkInv /\ SerialInv /\ UsesInv
        /\ HoldsInv /\ MoneyInv /\ [Next]_vars => (HoldsInv /\ MoneyInv)'
  <2>. SUFFICES ASSUME TypeInv, TypeInv', LedgerInv, LinkInv, SerialInv, UsesInv, HoldsInv, MoneyInv,
                       [Next]_vars
                PROVE  (HoldsInv /\ MoneyInv)'
    OBVIOUS
  <2>1. HoldsInv' /\ MoneyStep
    BY HoldsNext, OnwardNext DEF MoneyStep
  <2>2. CASE UNCHANGED vars
    <3>1. \A x \in Procs : MoneyLocals(proc[x])'
      BY <2>2 DEF vars, MoneyInv, MoneyLocals, Unpaid, Within, Confirmed, WasHeld, Confirming
    <3>2. \A b \in Bookings : MoneyRow(b)'
      BY <2>2 DEF vars, MoneyInv, MoneyRow, Unpaid, Within, Confirmed, WasHeld, Confirming, Writing
    <3>3. PayoutConserved'
      BY <2>2 DEF vars, MoneyInv, PayoutConserved
    <3>. QED  BY <2>1, <3>1, <3>2, <3>3 DEF MoneyInv
  <2>. QED  BY <2>1, <2>2, OthersMoney, BookMoney, ValidateMoney DEF Next, OtherStep
<1>. QED
  BY <1>1, <1>2, TypeInvariant, LedgerInvariant, LinkInvariant, SerialInvariant, UsesInvariant, PTL DEF Spec

\* When handlers run one at a time and to their end, events are delivered once and no
\* status is edited, validations never pay the coach more than the athlete was charged.
THEOREM PayoutsAreConserved ==
  ASSUME ~Overlap, ~Redeliver, ~Faults, Edits = {} PROVE Spec => []PayoutConserved
<1>1. MoneyInv => PayoutConserved
  BY DEF MoneyInv
<1>. QED
  BY <1>1, MoneyInvariant, PTL
=============================================================================
