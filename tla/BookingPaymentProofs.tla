------------------------ MODULE BookingPaymentProofs ------------------------
(***************************************************************************)
(* Theorems about BookingPayment, for every value of its constants: any    *)
(* number of athletes, dates, bookings, payments and handlers in flight,   *)
(* any prices and package sizes, with and without faults, repeated and     *)
(* reordered webhook deliveries.                                           *)
(***************************************************************************)
EXTENDS BookingPayment, TLAPS

-----------------------------------------------------------------------------
(* Which locals a handler has set at each await.  A handler that is about  *)
(* to use a row id holds one: this makes TypeOK inductive.                 *)

HookPC == {"hook_confirm", "hook_authorized", "hook_captured", "hook_find", "hook_void"}
CronPC == {"cron_settle", "cron_mark", "cron_void"}
ValPC == {"val_check", "val_capture", "val_capture_offer", "val_transfer",
          "val_write", "val_tx", "val_offer_tx"}
OldPC == {"book_read_old", "book_cancel_old", "book_mark_old"}

Named(x, l) ==
    /\ x \in Hooks => l.pc \in HookPC \cup {"idle"}
    /\ l.pc \in OldPC \cup {"val_capture_offer", "val_offer_tx"} => l.q \in Payments
    /\ l.pc \in OldPC \cup ValPC \cup CronPC \cup {"book_pay", "book_link", "cancel_write",
                  "cancel_read_tx", "cancel_release", "cancel_mark", "hook_confirm", "hook_void"}
         => l.b \in Bookings
    /\ l.pc \in ValPC \cup CronPC \cup HookPC \cup
                  {"book_link", "cancel_read_tx", "cancel_release", "cancel_mark"}
         => l.p \in Payments
    /\ l.pc \in HookPC => l.seen \in EventKind
    /\ l.pc \in {"val_write", "val_tx", "val_offer_tx"} => l.seen \in {"created", "failed"}

TypeInv == TypeOK /\ \A x \in Procs : Named(x, proc[x])

-----------------------------------------------------------------------------
(* Typing of the building blocks                                           *)

\* An absent booking row is a booking row.
LEMMA NoBookingType == NoBooking \in BookingRow
  BY NoneIsNoKey, SizesAreCounts DEF NoBooking, BookingRow, BookingStatus, Token

\* An absent transaction row is a transaction row.
LEMMA NoPaymentType == NoPayment \in PaymentRow
  BY DEF NoPayment, PaymentRow, TxStatus, IntentStatus

\* The locals of a handler that is not running.
LEMMA IdleType == Idle \in Local /\ \A x \in Procs : Named(x, Idle)
  BY SizesAreCounts DEF Idle, Local, PC, Named, OldPC, ValPC, CronPC, HookPC

\* A step that gives one handler locals of the right shape keeps all of them so.
LEMMA ProcType ==
  ASSUME TypeInv, NEW x \in Procs, NEW l \in Local, Named(x, l), proc' = [proc EXCEPT ![x] = l]
  PROVE  proc' \in [Procs -> Local] /\ \A y \in Procs : Named(y, proc'[y])
  BY DEF TypeInv, TypeOK

\* Ending a handler keeps the type of the locals.
LEMMA ReturnType ==
  ASSUME TypeInv, NEW x \in Procs, Return(x)
  PROVE  proc' \in [Procs -> Local] /\ \A y \in Procs : Named(y, proc'[y])
  BY IdleType, ProcType DEF Return

\* So does moving one to another await whose locals are set.
LEMMA GotoType ==
  ASSUME TypeInv, NEW x \in Procs, NEW pc \in PC, Goto(x, pc),
         Named(x, [proc[x] EXCEPT !.pc = pc])
  PROVE  proc' \in [Procs -> Local] /\ \A y \in Procs : Named(y, proc'[y])
<1>1. [proc[x] EXCEPT !.pc = pc] \in Local
  BY ZenonT(60) DEF TypeInv, TypeOK, Local
<1>. QED
  BY <1>1, ProcType DEF Goto

\* Writing the status of a transaction keeps the type of the table.
LEMMA SetTxType ==
  ASSUME payments \in [Payments -> PaymentRow], NEW p, NEW status \in TxStatus, SetTx(p, status)
  PROVE  payments' \in [Payments -> PaymentRow]
  BY ZenonT(60) DEF SetTx, PaymentRow

\* So does the cancellation of an intent, which also queues an event.
LEMMA CancelIntentType ==
  ASSUME payments \in [Payments -> PaymentRow], events \subseteq Event,
         NEW p \in Payments, CancelIntent(p)
  PROVE  payments' \in [Payments -> PaymentRow] /\ events' \subseteq Event
  BY DEF CancelIntent, PaymentRow, Event, EventsOf, IntentStatus, EventKind

\* Voiding a booking keeps the type of the table.
LEMMA VoidType ==
  ASSUME bookings \in [Bookings -> BookingRow], NEW b, Void(b)
  PROVE  bookings' \in [Bookings -> BookingRow]
  BY ZenonT(60) DEF Void, BookingRow, BookingStatus, Token

-----------------------------------------------------------------------------
(* Type correctness, one lemma per handler                                 *)

\* bookAppointment keeps the types.
LEMMA BookType == ASSUME TypeInv, NEW r \in Requests, Book(r) PROVE TypeInv'
<1> USE DEF At
<1>0. r \in Procs \ Hooks /\ proc[r] \in Local /\ Named(r, proc[r])
  BY ProcsDisjoint DEF Procs, TypeInv, TypeOK
<1>1. ASSUME NEW s \in Slots, NEW n \in Sizes, BookRead(r, s, n) PROVE TypeInv'
  <2>1. PICK b \in Bookings \cup {None} : proc' = [proc EXCEPT ![r] =
          [Idle EXCEPT !.pc = "book_write", !.slot = s, !.b = b, !.n = n]]
    BY <1>1 DEF BookRead
  <2>2. [Idle EXCEPT !.pc = "book_write", !.slot = s, !.b = b, !.n = n] \in Local
    BY SizesAreCounts DEF Idle, Local, PC
  <2>3. Named(r, [Idle EXCEPT !.pc = "book_write", !.slot = s, !.b = b, !.n = n])
    BY <1>0 DEF Idle, Named, OldPC, ValPC, CronPC, HookPC
  <2>. QED  BY <1>0, <1>1, <2>1, <2>2, <2>3, ProcType DEF BookRead, TypeInv, TypeOK
<1>2. CASE BookCreate(r)
  <2>1. PICK b \in Bookings :
          /\ bookings' = [bookings EXCEPT ![b] = [NoBooking EXCEPT !.slot = proc[r].slot,
                                                   !.status = "PENDING", !.n = proc[r].n]]
          /\ proc' = [proc EXCEPT ![r] = [@ EXCEPT !.pc = "book_pay", !.b = b]]
    BY <1>2 DEF BookCreate
  <2>2. bookings' \in [Bookings -> BookingRow]
    BY <1>0, <2>1, NoBookingType DEF TypeInv, TypeOK, BookingRow, BookingStatus, Local
  <2>3. [proc[r] EXCEPT !.pc = "book_pay", !.b = b] \in Local
    BY ZenonT(60), <1>0 DEF Local, PC
  <2>4. Named(r, [proc[r] EXCEPT !.pc = "book_pay", !.b = b])
    BY <1>0 DEF Local, Named, OldPC, ValPC, CronPC, HookPC
  <2>. QED  BY <1>0, <1>2, <2>1, <2>2, <2>3, <2>4, ProcType DEF BookCreate, TypeInv, TypeOK
<1>3. CASE BookUpdate(r)
  <2> DEFINE l == [proc[r] EXCEPT !.q = bookings[proc[r].b].tx,
                      !.pc = IF bookings[proc[r].b].tx = None THEN "book_pay" ELSE "book_read_old"]
  <2>1. proc[r].b \in Bookings /\ bookings[proc[r].b] \in BookingRow
    BY <1>0, <1>3 DEF BookUpdate, Local, TypeInv, TypeOK
  <2>2. bookings' \in [Bookings -> BookingRow]
    BY <1>0, <1>3, <2>1, SizesAreCounts
    DEF BookUpdate, TypeInv, TypeOK, BookingRow, BookingStatus, Local
  <2>5. bookings[proc[r].b].tx \in Payments \cup {None}
    BY <2>1 DEF BookingRow
  <2> HIDE DEF l
  <2>6. l = IF bookings[proc[r].b].tx = None
            THEN [proc[r] EXCEPT !.q = bookings[proc[r].b].tx, !.pc = "book_pay"]
            ELSE [proc[r] EXCEPT !.q = bookings[proc[r].b].tx, !.pc = "book_read_old"]
    BY <1>0 DEF l, Local
  <2>3. l \in Local
    <3>1. \A pc \in PC : [proc[r] EXCEPT !.q = bookings[proc[r].b].tx, !.pc = pc] \in Local
      BY <1>0, <2>5 DEF Local
    <3>2. {"book_pay", "book_read_old"} \subseteq PC
      BY DEF PC
    <3>. QED  BY <2>6, <3>1, <3>2
  <2>8. ASSUME bookings[proc[r].b].tx = None PROVE Named(r, l)
    <3>1. Named(r, [proc[r] EXCEPT !.q = bookings[proc[r].b].tx, !.pc = "book_pay"])
      BY <1>0, <2>1 DEF Local, Named, OldPC, ValPC, CronPC, HookPC
    <3>. QED  BY <2>6, <2>8, <3>1
  <2>9. ASSUME bookings[proc[r].b].tx # None PROVE Named(r, l)
    <3>1. Named(r, [proc[r] EXCEPT !.q = bookings[proc[r].b].tx, !.pc = "book_read_old"])
      BY <1>0, <2>1, <2>5, <2>9 DEF Local, Named, OldPC, ValPC, CronPC, HookPC
    <3>. QED  BY <2>6, <2>9, <3>1
  <2>4. Named(r, l)
    BY <2>8, <2>9
  <2>7. proc' = [proc EXCEPT ![r] = l]
    BY <1>3 DEF BookUpdate, l
  <2>. QED  BY <1>0, <1>3, <2>2, <2>3, <2>4, <2>7, ProcType DEF BookUpdate, TypeInv, TypeOK
<1>4. CASE BookReadOld(r)
  <2>1. Named(r, [proc[r] EXCEPT !.pc = "book_cancel_old"]) /\ Named(r, [proc[r] EXCEPT !.pc = "book_pay"])
    BY <1>0, <1>4 DEF BookReadOld, Local, Named, OldPC, ValPC, CronPC, HookPC
  <2>2. Goto(r, "book_cancel_old") \/ Goto(r, "book_pay")
    BY <1>4 DEF BookReadOld
  <2>3. proc' \in [Procs -> Local] /\ \A y \in Procs : Named(y, proc'[y])
    BY <1>0, <2>1, <2>2, GotoType DEF PC
  <2>. QED  BY <1>4, <2>3 DEF BookReadOld, TypeInv, TypeOK
<1>5. CASE BookCancelOld(r)
  <2>4. Named(r, [proc[r] EXCEPT !.pc = "book_mark_old"]) /\ Named(r, [proc[r] EXCEPT !.pc = "book_pay"])
    BY <1>0, <1>5 DEF BookCancelOld, Local, Named, OldPC, ValPC, CronPC, HookPC
  <2>5. Goto(r, "book_mark_old") \/ Goto(r, "book_pay")
    BY <1>5 DEF BookCancelOld
  <2>1. proc' \in [Procs -> Local] /\ \A y \in Procs : Named(y, proc'[y])
    BY <1>0, <2>4, <2>5, GotoType DEF PC
  <2>2. proc[r].q \in Payments
    BY <1>0, <1>5 DEF BookCancelOld, Named, OldPC
  <2>3. payments' \in [Payments -> PaymentRow] /\ events' \subseteq Event
    BY <1>5, <2>2, CancelIntentType DEF BookCancelOld, TypeInv, TypeOK
  <2>. QED  BY <1>5, <2>1, <2>3 DEF BookCancelOld, TypeInv, TypeOK
<1>6. CASE BookMarkOld(r)
  <2>3. Named(r, [proc[r] EXCEPT !.pc = "book_pay"])
    BY <1>0, <1>6 DEF BookMarkOld, Local, Named, OldPC, ValPC, CronPC, HookPC
  <2>1. proc' \in [Procs -> Local] /\ \A y \in Procs : Named(y, proc'[y])
    BY <1>0, <1>6, <2>3, GotoType DEF BookMarkOld, PC
  <2>2. payments' \in [Payments -> PaymentRow]
    BY <1>6, SetTxType DEF BookMarkOld, TypeInv, TypeOK, TxStatus
  <2>. QED  BY <1>6, <2>1, <2>2 DEF BookMarkOld, TypeInv, TypeOK
<1>7. CASE BookPay(r)
  <2>1. PICK p \in Payments :
          /\ payments' = [payments EXCEPT ![p] = [NoPayment EXCEPT !.type = "booking",
                !.booking = proc[r].b, !.amount = Price[proc[r].n], !.status = "pending",
                !.intent = "open"]]
          /\ proc' = [proc EXCEPT ![r] = [@ EXCEPT !.pc = "book_link", !.p = p]]
    BY <1>7 DEF BookPay
  <2>5. [NoPayment EXCEPT !.type = "booking", !.booking = proc[r].b,
           !.amount = Price[proc[r].n], !.status = "pending", !.intent = "open"] \in PaymentRow
    BY <1>0, NoPaymentType, PricesAreAmounts DEF NoPayment, PaymentRow, TxStatus, IntentStatus, Local
  <2>2. payments' \in [Payments -> PaymentRow]
    BY <2>1, <2>5 DEF TypeInv, TypeOK
  <2>3. [proc[r] EXCEPT !.pc = "book_link", !.p = p] \in Local
    BY ZenonT(60), <1>0 DEF Local, PC
  <2>4. Named(r, [proc[r] EXCEPT !.pc = "book_link", !.p = p])
    BY <1>0, <1>7 DEF BookPay, Local, Named, OldPC, ValPC, CronPC, HookPC
  <2>. QED  BY <1>0, <1>7, <2>1, <2>2, <2>3, <2>4, ProcType DEF BookPay, TypeInv, TypeOK
<1>8. CASE BookLink(r)
  <2>3. proc[r].b \in Bookings /\ proc[r].p \in Payments
    BY <1>0, <1>8 DEF BookLink, Named
  <2>4. bookings[proc[r].b] \in BookingRow /\ payments[proc[r].p] \in PaymentRow
    BY <2>3 DEF TypeInv, TypeOK
  <2>5. [bookings[proc[r].b] EXCEPT !.tx = proc[r].p] \in BookingRow
    BY <2>3, <2>4 DEF BookingRow
  <2>6. [payments[proc[r].p] EXCEPT !.secret = TRUE] \in PaymentRow
    BY <2>4 DEF PaymentRow
  <2>1. bookings' \in [Bookings -> BookingRow]
    BY <1>8, <2>5 DEF BookLink, TypeInv, TypeOK
  <2>2. payments' \in [Payments -> PaymentRow]
    BY <1>8, <2>6 DEF BookLink, TypeInv, TypeOK
  <2>. QED  BY <1>0, <1>8, <2>1, <2>2, ReturnType DEF BookLink, TypeInv, TypeOK
<1>. QED
  BY <1>1, <1>2, <1>3, <1>4, <1>5, <1>6, <1>7, <1>8 DEF Book

\* The webhook keeps the types.
LEMMA HookType == ASSUME TypeInv, NEW h \in Hooks, Hook(h) PROVE TypeInv'
<1> USE DEF At
<1>0. h \in Procs /\ proc[h] \in Local /\ Named(h, proc[h])
  BY DEF Procs, TypeInv, TypeOK
<1>1. ASSUME NEW p \in Payments, HookCapturable(h, p) PROVE TypeInv'
  <2>1. PICK b \in LinkedTo(p) : proc' = [proc EXCEPT ![h] =
          [Idle EXCEPT !.p = p, !.b = b, !.seen = "capturable",
             !.pc = IF b = None THEN "hook_authorized" ELSE "hook_confirm"]]
    BY <1>1 DEF HookCapturable
  <2> DEFINE l == [Idle EXCEPT !.p = p, !.b = b, !.seen = "capturable",
                     !.pc = IF b = None THEN "hook_authorized" ELSE "hook_confirm"]
  <2>2. b \in Bookings \cup {None}
    BY <2>1 DEF LinkedTo
  <2>3. l \in Local
    BY <2>2, SizesAreCounts DEF Idle, Local, PC, EventKind
  <2>4. Named(h, l)
    BY <1>0, <2>2 DEF Idle, Named, OldPC, ValPC, CronPC, HookPC, EventKind
  <2>5. events' \subseteq Event
    BY <1>1 DEF HookCapturable, Deliver, TypeInv, TypeOK
  <2>. QED  BY <1>0, <1>1, <2>1, <2>3, <2>4, <2>5, ProcType DEF HookCapturable, TypeInv, TypeOK
<1>2. ASSUME NEW p \in Payments, NEW kind \in EventKind, NEW status \in TxStatus,
             NEW next \in {"idle", "hook_captured", "hook_find"},
             HookUpdateTx(h, p, kind, status, next)
      PROVE  TypeInv'
  <2> DEFINE l == IF next = "idle" THEN Idle ELSE [Idle EXCEPT !.p = p, !.pc = next, !.seen = kind]
  <2>1. l \in Local
    BY SizesAreCounts DEF Idle, Local, PC
  <2>2. Named(h, l)
    BY <1>0 DEF Idle, Named, OldPC, ValPC, CronPC, HookPC
  <2>3. events' \subseteq Event
    BY <1>2 DEF HookUpdateTx, Deliver, TypeInv, TypeOK
  <2>4. payments' \in [Payments -> PaymentRow]
    BY <1>2, SetTxType DEF HookUpdateTx, TypeInv, TypeOK
  <2>. QED  BY <1>0, <1>2, <2>1, <2>2, <2>3, <2>4, ProcType DEF HookUpdateTx, TypeInv, TypeOK
<1>3. ASSUME NEW p \in Payments,
             HookSucceeded(h, p) \/ HookFailed(h, p) \/ HookCanceled(h, p) \/ HookRequiresAction(h, p)
      PROVE  TypeInv'
  BY <1>2, <1>3
  DEF HookSucceeded, HookFailed, HookCanceled, HookRequiresAction, EventKind, TxStatus
<1>4. CASE HookConfirm(h)
  <2>1. Named(h, [proc[h] EXCEPT !.pc = "hook_authorized"])
    BY <1>0, <1>4 DEF HookConfirm, Local, Named, OldPC, ValPC, CronPC, HookPC
  <2>2. proc' \in [Procs -> Local] /\ \A y \in Procs : Named(y, proc'[y])
    BY <1>0, <1>4, <2>1, GotoType DEF HookConfirm, PC
  <2>3. bookings' \in [Bookings -> BookingRow]
    <3>1. bookings[proc[h].b] \in BookingRow
      BY <1>0, <1>4 DEF HookConfirm, Named, TypeInv, TypeOK
    <3>2. [bookings[proc[h].b] EXCEPT !.status = "CONFIRMED", !.token = "live"] \in BookingRow
      BY <3>1 DEF BookingRow, BookingStatus, Token
    <3>. QED  BY <1>4, <3>2 DEF HookConfirm, TypeInv, TypeOK
  <2>. QED  BY <1>4, <2>2, <2>3 DEF HookConfirm, TypeInv, TypeOK
<1>5. CASE HookAuthorized(h)
  BY <1>0, <1>5, ReturnType, SetTxType DEF HookAuthorized, TypeInv, TypeOK, TxStatus
<1>6. CASE HookCaptured(h)
  BY <1>0, <1>6, ReturnType, SetTxType DEF HookCaptured, TypeInv, TypeOK, TxStatus
<1>7. CASE HookFind(h)
  <2>1. PICK b \in LinkedTo(proc[h].p) :
          IF b = None THEN Return(h)
          ELSE proc' = [proc EXCEPT ![h] = [@ EXCEPT !.pc = "hook_void", !.b = b]]
    BY <1>7 DEF HookFind
  <2>2. b = None \/ b \in Bookings
    BY <2>1 DEF LinkedTo
  <2>3. CASE b = None
    BY <1>0, <1>7, <2>1, <2>3, ReturnType DEF HookFind, TypeInv, TypeOK
  <2>4. CASE b # None
    <3>1. [proc[h] EXCEPT !.pc = "hook_void", !.b = b] \in Local
      BY ZenonT(60), <1>0, <2>2, <2>4 DEF Local, PC
    <3>2. Named(h, [proc[h] EXCEPT !.pc = "hook_void", !.b = b])
      BY <1>0, <1>7, <2>2, <2>4 DEF HookFind, Local, Named, OldPC, ValPC, CronPC, HookPC
    <3>. QED  BY <1>0, <1>7, <2>1, <2>4, <3>1, <3>2, ProcType DEF HookFind, TypeInv, TypeOK
  <2>. QED  BY <2>3, <2>4
<1>8. CASE HookVoid(h)
  BY <1>0, <1>8, ReturnType, VoidType DEF HookVoid, TypeInv, TypeOK
<1>. QED
  BY <1>1, <1>3, <1>4, <1>5, <1>6, <1>7, <1>8 DEF Hook, HookBegin, HookContinue

\* cancelBooking keeps the types.
LEMMA CancelType == ASSUME TypeInv, NEW r \in Requests, Cancel(r) PROVE TypeInv'
<1> USE DEF At
<1>0. r \in Procs \ Hooks /\ proc[r] \in Local /\ Named(r, proc[r])
  BY ProcsDisjoint DEF Procs, TypeInv, TypeOK
<1>1. ASSUME NEW b \in Bookings, CancelRead(r, b) PROVE TypeInv'
  <2> DEFINE l == [Idle EXCEPT !.pc = "cancel_write", !.b = b, !.p = bookings[b].tx]
  <2>1. bookings[b].tx \in Payments \cup {None}
    BY DEF TypeInv, TypeOK, BookingRow
  <2>2. l \in Local
    BY <2>1, SizesAreCounts DEF Idle, Local, PC
  <2>3. Named(r, l)
    BY <1>0 DEF Idle, Named, OldPC, ValPC, CronPC, HookPC
  <2>. QED  BY <1>0, <1>1, <2>2, <2>3, ProcType DEF CancelRead, TypeInv, TypeOK
<1>2. CASE CancelWrite(r)
  <2>1. proc[r].p # None => Named(r, [proc[r] EXCEPT !.pc = "cancel_read_tx"])
    BY <1>0, <1>2 DEF CancelWrite, Local, Named, OldPC, ValPC, CronPC, HookPC
  <2>2. proc' \in [Procs -> Local] /\ \A y \in Procs : Named(y, proc'[y])
    BY <1>0, <1>2, <2>1, GotoType, ReturnType DEF CancelWrite, PC
  <2>3. bookings' \in [Bookings -> BookingRow]
    <3>1. bookings[proc[r].b] \in BookingRow
      BY <1>0, <1>2 DEF CancelWrite, Named, TypeInv, TypeOK
    <3>2. [bookings[proc[r].b] EXCEPT !.status = "CANCELLED"] \in BookingRow
      BY <3>1 DEF BookingRow, BookingStatus
    <3>. QED  BY <1>2, <3>2 DEF CancelWrite, TypeInv, TypeOK
  <2>. QED  BY <1>2, <2>2, <2>3 DEF CancelWrite, TypeInv, TypeOK
<1>3. CASE CancelReadTx(r)
  <2>1. Named(r, [proc[r] EXCEPT !.pc = "cancel_release"])
    BY <1>0, <1>3 DEF CancelReadTx, Local, Named, OldPC, ValPC, CronPC, HookPC
  <2>2. proc' \in [Procs -> Local] /\ \A y \in Procs : Named(y, proc'[y])
    BY <1>0, <1>3, <2>1, GotoType, ReturnType DEF CancelReadTx, PC
  <2>. QED  BY <1>3, <2>2 DEF CancelReadTx, TypeInv, TypeOK
<1>4. CASE CancelRelease(r)
  <2>1. Named(r, [proc[r] EXCEPT !.pc = "cancel_mark"])
    BY <1>0, <1>4 DEF CancelRelease, Local, Named, OldPC, ValPC, CronPC, HookPC
  <2>2. proc' \in [Procs -> Local] /\ \A y \in Procs : Named(y, proc'[y])
    BY <1>0, <1>4, <2>1, GotoType, ReturnType DEF CancelRelease, PC
  <2>3. proc[r].p \in Payments
    BY <1>0, <1>4 DEF CancelRelease, Named
  <2>4. payments' \in [Payments -> PaymentRow] /\ events' \subseteq Event
    BY <1>4, <2>3, CancelIntentType DEF CancelRelease, TypeInv, TypeOK
  <2>. QED  BY <1>4, <2>2, <2>4 DEF CancelRelease, TypeInv, TypeOK
<1>5. CASE CancelMark(r)
  BY <1>0, <1>5, ReturnType, SetTxType DEF CancelMark, TypeInv, TypeOK, TxStatus
<1>. QED
  BY <1>1, <1>2, <1>3, <1>4, <1>5 DEF Cancel

\* A share of a payment is an amount.
LEMMA ShareType ==
  ASSUME payments \in [Payments -> PaymentRow], NEW p \in Payments, NEW n \in Sizes
  PROVE  Share(p, n) \in Nat
<1>1. n \in Nat /\ payments[p].amount \in Nat
  BY SizesAreCounts DEF PaymentRow
<1>2. ASSUME NEW a \in Nat, NEW m \in Nat, m > 0 PROVE a \div m \in Nat
  BY <1>2, Z3
<1>. QED
  BY <1>1, <1>2 DEF Share

\* validateBookingToken keeps the types.
LEMMA ValidateType == ASSUME TypeInv, NEW r \in Requests, Validate(r) PROVE TypeInv'
<1> USE DEF At
<1>0. r \in Procs \ Hooks /\ proc[r] \in Local /\ Named(r, proc[r])
  BY ProcsDisjoint DEF Procs, TypeInv, TypeOK
<1>1. ASSUME NEW b \in Bookings, ValidateRead(r, b) PROVE TypeInv'
  <2>1. PICK seen \in {"bare", "token"} : proc' = [proc EXCEPT ![r] =
          [Idle EXCEPT !.pc = "val_check", !.b = b, !.p = bookings[b].tx,
             !.q = bookings[b].offerTx, !.n = bookings[b].n, !.done = bookings[b].done,
             !.seen = seen]]
    BY <1>1 DEF ValidateRead
  <2> DEFINE l == [Idle EXCEPT !.pc = "val_check", !.b = b, !.p = bookings[b].tx,
                     !.q = bookings[b].offerTx, !.n = bookings[b].n, !.done = bookings[b].done,
                     !.seen = seen]
  <2>2. /\ bookings[b].tx \in Payments
        /\ bookings[b].offerTx \in Payments \cup {None}
        /\ bookings[b].n \in Sizes /\ bookings[b].done \in Nat
    BY <1>1 DEF ValidateRead, TypeInv, TypeOK, BookingRow
  <2>3. l \in Local
    BY <2>2 DEF Idle, Local, PC
  <2>4. Named(r, l)
    BY <1>0, <2>2 DEF Idle, Named, OldPC, ValPC, CronPC, HookPC
  <2>. QED  BY <1>0, <1>1, <2>1, <2>3, <2>4, ProcType DEF ValidateRead, TypeInv, TypeOK
<1>2. CASE ValidateCheck(r)
  <2>1. Named(r, [proc[r] EXCEPT !.pc = "val_capture"])
    BY <1>0, <1>2 DEF ValidateCheck, Local, Named, OldPC, ValPC, CronPC, HookPC
  <2>2. proc' \in [Procs -> Local] /\ \A y \in Procs : Named(y, proc'[y])
    BY <1>0, <1>2, <2>1, GotoType, ReturnType DEF ValidateCheck, PC
  <2>3. hist' \in [transfers : [Bookings -> Nat], uses : [Bookings -> Nat],
                    edited : SUBSET Bookings, moved : SUBSET Bookings]
    BY <1>2 DEF ValidateCheck, TypeInv, TypeOK
  <2>. QED  BY <1>2, <2>2, <2>3 DEF ValidateCheck, TypeInv, TypeOK
<1>3. ASSUME NEW p \in Payments, NEW next \in PC, Capture(r, p, next),
             Named(r, [proc[r] EXCEPT !.pc = next])
      PROVE  TypeInv'
  <2>1. proc' \in [Procs -> Local] /\ \A y \in Procs : Named(y, proc'[y])
    BY <1>0, <1>3, GotoType, ReturnType DEF Capture
  <2>2. payments' \in [Payments -> PaymentRow] /\ events' \subseteq Event
    <3>1. CASE payments[p].intent = "held"
      <4>1. [payments[p] EXCEPT !.intent = "succeeded"] \in PaymentRow
        BY DEF TypeInv, TypeOK, PaymentRow, IntentStatus
      <4>2. EventsOf(p, "succeeded") \in Event
        BY DEF EventsOf, Event, EventKind
      <4>. QED  BY <1>3, <3>1, <4>1, <4>2 DEF Capture, TypeInv, TypeOK
    <3>2. CASE payments[p].intent # "held"
      BY <1>3, <3>2 DEF Capture, TypeInv, TypeOK
    <3>. QED  BY <3>1, <3>2
  <2>. QED  BY <1>3, <2>1, <2>2 DEF Capture, TypeInv, TypeOK
<1>4. CASE ValidateCapture(r)
  <2>1. proc[r].p \in Payments /\ proc[r].q \in Payments \cup {None}
    BY <1>0, <1>4 DEF ValidateCapture, Local, Named, ValPC
  <2>2. CASE proc[r].q = None
    <3>1. Named(r, [proc[r] EXCEPT !.pc = "val_transfer"])
      BY <1>0, <1>4 DEF ValidateCapture, Local, Named, OldPC, ValPC, CronPC, HookPC
    <3>2. Capture(r, proc[r].p, "val_transfer")
      BY <1>4, <2>2 DEF ValidateCapture
    <3>. QED  BY <1>3, <2>1, <3>1, <3>2 DEF PC
  <2>3. CASE proc[r].q # None
    <3>1. Named(r, [proc[r] EXCEPT !.pc = "val_capture_offer"])
      BY <1>0, <1>4, <2>1, <2>3 DEF ValidateCapture, Local, Named, OldPC, ValPC, CronPC, HookPC
    <3>2. Capture(r, proc[r].p, "val_capture_offer")
      BY <1>4, <2>3 DEF ValidateCapture
    <3>. QED  BY <1>3, <2>1, <3>1, <3>2 DEF PC
  <2>. QED  BY <2>2, <2>3
<1>5. CASE ValidateCaptureOffer(r)
  <2>1. proc[r].q \in Payments
    BY <1>0, <1>5 DEF ValidateCaptureOffer, Named
  <2>2. Named(r, [proc[r] EXCEPT !.pc = "val_transfer"])
    BY <1>0, <1>5 DEF ValidateCaptureOffer, Local, Named, OldPC, ValPC, CronPC, HookPC
  <2>. QED  BY <1>3, <1>5, <2>1, <2>2 DEF ValidateCaptureOffer, PC
<1>6. CASE ValidateTransfer(r)
  <2>1. PICK seen \in {"created", "failed"} :
          proc' = [proc EXCEPT ![r] = [@ EXCEPT !.pc = "val_write", !.seen = seen]]
    BY <1>6 DEF ValidateTransfer
  <2>2. [proc[r] EXCEPT !.pc = "val_write", !.seen = seen] \in Local
    BY ZenonT(60), <1>0 DEF Local, PC
  <2>3. Named(r, [proc[r] EXCEPT !.pc = "val_write", !.seen = seen])
    BY <1>0, <1>6 DEF ValidateTransfer, Local, Named, OldPC, ValPC, CronPC, HookPC
  <2>4. \A p \in Payments : Share(p, proc[r].n) \in Nat
    BY <1>0, ShareType DEF TypeInv, TypeOK, Local
  <2>5. payments' \in [Payments -> PaymentRow]
    <3>1. \A p \in Payments : [payments[p] EXCEPT !.paid = @ + Share(p, proc[r].n)] \in PaymentRow
      BY <2>4 DEF TypeInv, TypeOK, PaymentRow
    <3>. QED  BY <1>6, <3>1 DEF ValidateTransfer, TypeInv, TypeOK
  <2>6. hist' \in [transfers : [Bookings -> Nat], uses : [Bookings -> Nat],
                    edited : SUBSET Bookings, moved : SUBSET Bookings]
    BY <1>6 DEF ValidateTransfer, TypeInv, TypeOK
  <2>. QED  BY <1>0, <1>6, <2>1, <2>2, <2>3, <2>5, <2>6, ProcType DEF ValidateTransfer, TypeInv, TypeOK
<1>7. CASE ValidateWrite(r)
  <2>1. Named(r, [proc[r] EXCEPT !.pc = "val_tx"])
    BY <1>0, <1>7 DEF ValidateWrite, Local, Named, OldPC, ValPC, CronPC, HookPC
  <2>2. proc' \in [Procs -> Local] /\ \A y \in Procs : Named(y, proc'[y])
    BY <1>0, <1>7, <2>1, GotoType DEF ValidateWrite, PC
  <2>3. bookings[proc[r].b] \in BookingRow /\ proc[r].done \in Nat
    BY <1>0, <1>7 DEF ValidateWrite, Local, Named, ValPC, TypeInv, TypeOK
  <2>4. PICK status \in {"COMPLETED", "CONFIRMED"}, token \in {"live", "null"},
             done \in {proc[r].done, proc[r].done + 1} :
          bookings' = [bookings EXCEPT ![proc[r].b] =
                          [@ EXCEPT !.status = status, !.token = token, !.done = done]]
    BY <1>7 DEF ValidateWrite
  <2>5. [bookings[proc[r].b] EXCEPT !.status = status, !.token = token, !.done = done] \in BookingRow
    <3>1. done \in Nat
      BY <2>3
    <3>. QED  BY <2>3, <3>1 DEF BookingRow, BookingStatus, Token
  <2>6. bookings' \in [Bookings -> BookingRow]
    BY <2>4, <2>5 DEF TypeInv, TypeOK
  <2>. QED  BY <1>7, <2>2, <2>6 DEF ValidateWrite, TypeInv, TypeOK
<1>8. ASSUME NEW p \in Payments, MarkTransfer(r, p), proc[r].seen \in {"created", "failed"}
      PROVE  payments' \in [Payments -> PaymentRow]
  <2>2. payments[p] \in PaymentRow
    BY DEF TypeInv, TypeOK
  <2>1. [payments[p] EXCEPT !.status = "captured", !.transfer = proc[r].seen] \in PaymentRow
    BY <1>8, <2>2 DEF PaymentRow, TxStatus
  <2>. QED  BY <1>8, <2>1 DEF MarkTransfer, TypeInv, TypeOK
<1>9. CASE ValidateTx(r)
  <2>1. proc[r].p \in Payments /\ proc[r].seen \in {"created", "failed"}
    BY <1>0, <1>9 DEF ValidateTx, Named, ValPC
  <2>2. proc[r].q # None => Named(r, [proc[r] EXCEPT !.pc = "val_offer_tx"])
    BY <1>0, <1>9 DEF ValidateTx, Local, Named, OldPC, ValPC, CronPC, HookPC
  <2>3. proc' \in [Procs -> Local] /\ \A y \in Procs : Named(y, proc'[y])
    BY <1>0, <1>9, <2>2, GotoType, ReturnType DEF ValidateTx, PC
  <2>. QED  BY <1>8, <1>9, <2>1, <2>3 DEF ValidateTx, TypeInv, TypeOK
<1>10. CASE ValidateOfferTx(r)
  <2>1. proc[r].q \in Payments /\ proc[r].seen \in {"created", "failed"}
    BY <1>0, <1>10 DEF ValidateOfferTx, Named
  <2>. QED  BY <1>0, <1>8, <1>10, <2>1, ReturnType DEF ValidateOfferTx, TypeInv, TypeOK
<1>. QED
  BY <1>1, <1>2, <1>4, <1>5, <1>6, <1>7, <1>9, <1>10
    DEF Validate, ValidateCaptures, ValidateTxs

\* The expiry job keeps the types.
LEMMA CronType == ASSUME TypeInv, ExpiryJob PROVE TypeInv'
<1> USE DEF At
<1>0. Cron \in Procs \ Hooks /\ proc[Cron] \in Local /\ Named(Cron, proc[Cron])
  BY ProcsDisjoint DEF Procs, TypeInv, TypeOK
<1>1. CASE CronSelect
  BY <1>1 DEF CronSelect, ExpiredHolds, TypeInv, TypeOK, BookingRow
<1>2. CASE CronPick
  <2>1. PICK job \in due :
          /\ due' = due \ {job}
          /\ proc' = [proc EXCEPT ![Cron] =
               [Idle EXCEPT !.pc = "cron_settle", !.b = job[1], !.p = job[2],
                  !.seen = IF payments[job[2]].intent = "succeeded" THEN "charged" ELSE "hold"]]
    BY <1>2 DEF CronPick
  <2>2. job[1] \in Bookings /\ job[2] \in Payments
    BY <2>1 DEF TypeInv, TypeOK
  <2> DEFINE l == [Idle EXCEPT !.pc = "cron_settle", !.b = job[1], !.p = job[2],
                     !.seen = IF payments[job[2]].intent = "succeeded" THEN "charged" ELSE "hold"]
  <2>3. l \in Local
    BY <2>2, SizesAreCounts DEF Idle, Local, PC
  <2>4. Named(Cron, l)
    BY <1>0, <2>2 DEF Idle, Named, OldPC, ValPC, CronPC, HookPC
  <2>. QED  BY <1>0, <1>2, <2>1, <2>3, <2>4, ProcType DEF CronPick, TypeInv, TypeOK
<1>3. CASE CronSettle
  <2>1. Named(Cron, [proc[Cron] EXCEPT !.pc = "cron_mark"])
    BY <1>0, <1>3 DEF CronSettle, Local, Named, OldPC, ValPC, CronPC, HookPC
  <2>2. Goto(Cron, "cron_mark") \/ Return(Cron)
    BY <1>3 DEF CronSettle
  <2>3. proc' \in [Procs -> Local] /\ \A y \in Procs : Named(y, proc'[y])
    BY <1>0, <2>1, <2>2, GotoType, ReturnType DEF PC
  <2>4. proc[Cron].p \in Payments
    BY <1>0, <1>3 DEF CronSettle, Named, CronPC
  <2>5. payments' \in [Payments -> PaymentRow] /\ events' \subseteq Event
    <3>1. CASE payments' = [payments EXCEPT ![proc[Cron].p].refunded = TRUE] /\ events' = events
      <4>1. [payments[proc[Cron].p] EXCEPT !.refunded = TRUE] \in PaymentRow
        <5>1. payments[proc[Cron].p] \in PaymentRow
          BY <2>4 DEF TypeInv, TypeOK
        <5>. QED  BY <5>1 DEF PaymentRow
      <4>. QED  BY <3>1, <4>1 DEF TypeInv, TypeOK
    <3>2. CASE CancelIntent(proc[Cron].p)
      BY <2>4, <3>2, CancelIntentType DEF TypeInv, TypeOK
    <3>3. CASE UNCHANGED <<payments, events>>
      BY <3>3 DEF TypeInv, TypeOK
    <3>. QED  BY <1>3, <3>1, <3>2, <3>3 DEF CronSettle
  <2>. QED  BY <1>3, <2>3, <2>5 DEF CronSettle, TypeInv, TypeOK
<1>4. CASE CronMark
  <2>1. Named(Cron, [proc[Cron] EXCEPT !.pc = "cron_void"])
    BY <1>0, <1>4 DEF CronMark, Local, Named, OldPC, ValPC, CronPC, HookPC
  <2>2. proc' \in [Procs -> Local] /\ \A y \in Procs : Named(y, proc'[y])
    BY <1>0, <1>4, <2>1, GotoType DEF CronMark, PC
  <2>3. payments' \in [Payments -> PaymentRow]
    BY <1>4, SetTxType DEF CronMark, TypeInv, TypeOK, TxStatus
  <2>. QED  BY <1>4, <2>2, <2>3 DEF CronMark, TypeInv, TypeOK
<1>5. CASE CronVoid
  BY <1>0, <1>5, ReturnType, VoidType DEF CronVoid, TypeInv, TypeOK
<1>. QED
  BY <1>1, <1>2, <1>3, <1>4, <1>5 DEF ExpiryJob

\* The card, Stripe and the calendar keep the types.
LEMMA EnvironmentType == ASSUME TypeInv, Environment PROVE TypeInv'
<1>1. ASSUME NEW p \in Payments, Authorize(p) PROVE TypeInv'
  BY <1>1 DEF Authorize, TypeInv, TypeOK, PaymentRow, IntentStatus, Event, EventsOf, EventKind
<1>2. ASSUME NEW p \in Payments, DeclineOrChallenge(p) PROVE TypeInv'
  BY <1>2 DEF DeclineOrChallenge, TypeInv, TypeOK, Event, EventsOf, EventKind
<1>3. ASSUME NEW p \in Payments, HoldLapses(p) PROVE TypeInv'
  BY <1>3, CancelIntentType DEF HoldLapses, TypeInv, TypeOK
<1>4. ASSUME NEW b \in Bookings, TokenExpires(b) PROVE TypeInv'
  BY ZenonT(60), <1>4 DEF TokenExpires, TypeInv, TypeOK, BookingRow, Token
<1>. QED
  BY <1>1, <1>2, <1>3, <1>4 DEF Environment

\* So do an edit of a booking, by the coach or the admin, and a handler that stops.
LEMMA EditType == ASSUME TypeInv, ByHand PROVE TypeInv'
<1>1. PICK b \in Bookings : \/ \E status \in Edits : EditStatus(b, status)
                           \/ \E s \in Slots : EditDate(b, s)
  BY DEF ByHand
<1>2. ASSUME NEW status \in Edits, EditStatus(b, status) PROVE TypeInv'
  <2>1. [bookings[b] EXCEPT !.status = status] \in BookingRow
    BY EditsAreStatuses DEF TypeInv, TypeOK, BookingRow, BookingStatus
  <2>. QED  BY <1>2, <2>1 DEF EditStatus, TypeInv, TypeOK
<1>3. ASSUME NEW s \in Slots, EditDate(b, s) PROVE TypeInv'
  <2>1. [bookings[b] EXCEPT !.slot = s] \in BookingRow
    BY DEF TypeInv, TypeOK, BookingRow
  <2>. QED  BY <1>3, <2>1 DEF EditDate, NoteMove, TypeInv, TypeOK
<1>. QED
  BY <1>1, <1>2, <1>3

\* A handler that throws, or whose process stops, leaves well-typed rows behind.
LEMMA StopType ==
  ASSUME TypeInv,
         \/ \E r \in Requests : RequestStops(r)
         \/ \E h \in Hooks : HookStops(h)
         \/ CronStops
  PROVE  TypeInv'
<1>1. ASSUME NEW r \in Requests, RequestStops(r) PROVE TypeInv'
  BY <1>1, ReturnType DEF RequestStops, Procs, TypeInv, TypeOK
<1>2. ASSUME NEW h \in Hooks, HookStops(h) PROVE TypeInv'
  <2>1. h \in Procs
    BY DEF Procs
  <2>2. EventsOf(proc[h].p, proc[h].seen) \in Event
    BY <1>2, <2>1 DEF HookStops, TypeInv, Named, Event, EventsOf
  <2>3. events' \subseteq Event
    BY <1>2, <2>2 DEF HookStops, TypeInv, TypeOK
  <2>. QED  BY <1>2, <2>1, <2>3, ReturnType DEF HookStops, TypeInv, TypeOK
<1>3. CASE CronStops
  BY <1>3, ReturnType DEF CronStops, Procs, TypeInv, TypeOK
<1>. QED
  BY <1>1, <1>2, <1>3

-----------------------------------------------------------------------------
\* No step of any handler breaks TypeInv.
LEMMA TypeStep == ASSUME TypeInv, [Next]_vars PROVE TypeInv'
<1>1. CASE UNCHANGED vars
  BY <1>1 DEF vars, TypeInv, TypeOK
<1>. QED
  BY <1>1, BookType, CancelType, ValidateType, HookType, CronType, EnvironmentType, EditType,
     StopType
  DEF Next

\* The initial state is well typed.
LEMMA TypeInit == ASSUME Init PROVE TypeInv
  BY NoBookingType, NoPaymentType, IdleType DEF Init, TypeInv, TypeOK

\* Every row, intent and handler keeps its type in every behaviour.
THEOREM TypeInvariant == Spec => []TypeInv
<1>. QED
  BY TypeInit, TypeStep, PTL DEF Spec

\* TypeOK holds in every behaviour of the handlers, the webhook and the job.
THEOREM TypeCorrect == Spec => []TypeOK
<1>1. TypeInv => TypeOK
  BY DEF TypeInv
<1>. QED
  BY <1>1, TypeInvariant, PTL

-----------------------------------------------------------------------------
(* total_completed_session and COMPLETED follow the transfers to the       *)
(* coach, in every interleaving and with every fault: what                 *)
(* validateBookingToken writes after the transfer is computed from the     *)
(* booking as it was read several awaits earlier, and is never more than   *)
(* the transfers made by then.                                             *)

\* A validation that has not transferred yet, and one that has.
BeforeTransfer == {"val_check", "val_capture", "val_capture_offer", "val_transfer"}

\* The count a validation carries in its locals is backed by transfers of its booking.
CarriedCount(l) ==
    /\ l.pc \in BeforeTransfer \cup {"val_write"} => l.done <= hist.transfers[l.b]
    /\ l.pc = "val_write" /\ l.seen = "created" => l.done + 1 <= hist.transfers[l.b]

PayoutInv ==
    /\ NoSessionWithoutPayout
    /\ CompletedMeansPaid
    /\ \A x \in Procs : CarriedCount(proc[x])

\* What a step that is no part of a validation does to these rows and locals.
NoPayout ==
    /\ hist'.transfers = hist.transfers /\ hist.edited \subseteq hist'.edited
    /\ \A b \in Bookings : bookings'[b].done \in {0, bookings[b].done}
    /\ \A b \in Bookings :
          bookings'[b].status = "COMPLETED" => bookings[b].status = "COMPLETED" \/ b \in hist'.edited
    /\ \A x \in Procs : proc'[x] = proc[x] \/ proc'[x].pc \notin BeforeTransfer \cup {"val_write"}

-----------------------------------------------------------------------------
\* Such a step preserves the invariant.
LEMMA NoPayoutKeeps == ASSUME TypeInv, TypeInv', PayoutInv, NoPayout PROVE PayoutInv'
<1>1. NoSessionWithoutPayout'
  <2>1. SUFFICES ASSUME NEW b \in Bookings PROVE bookings'[b].done <= hist'.transfers[b]
    BY DEF NoSessionWithoutPayout
  <2>2. hist.transfers[b] \in Nat /\ hist'.transfers[b] = hist.transfers[b]
    BY DEF NoPayout, TypeInv, TypeOK
  <2>. QED  BY <2>2 DEF NoPayout, PayoutInv, NoSessionWithoutPayout
<1>2. CompletedMeansPaid'
  BY DEF NoPayout, PayoutInv, CompletedMeansPaid
<1>3. ASSUME NEW x \in Procs PROVE CarriedCount(proc[x])'
  <2>1. CASE proc'[x] = proc[x]
    BY <2>1 DEF NoPayout, PayoutInv, CarriedCount
  <2>2. CASE proc'[x].pc \notin BeforeTransfer \cup {"val_write"}
    BY <2>2 DEF CarriedCount
  <2>. QED  BY <2>1, <2>2 DEF NoPayout
<1>. QED
  BY <1>1, <1>2, <1>3 DEF PayoutInv

\* Giving handler x other locals, or ending it, touches no other handler's.
LEMMA ProcFrame ==
  ASSUME TypeInv, NEW x \in Procs, NEW l, l.pc \notin BeforeTransfer \cup {"val_write"},
         proc' = [proc EXCEPT ![x] = l]
  PROVE  \A y \in Procs : proc'[y] = proc[y] \/ proc'[y].pc \notin BeforeTransfer \cup {"val_write"}
  BY DEF TypeInv, TypeOK

\* The same for a handler that ends,
LEMMA ReturnFrame ==
  ASSUME TypeInv, NEW x \in Procs, Return(x)
  PROVE  \A y \in Procs : proc'[y] = proc[y] \/ proc'[y].pc \notin BeforeTransfer \cup {"val_write"}
  BY ProcFrame DEF Return, Idle, BeforeTransfer

\* and for one that goes on to its next await.
LEMMA GotoFrame ==
  ASSUME TypeInv, NEW x \in Procs, NEW pc, Goto(x, pc), pc \notin BeforeTransfer \cup {"val_write"}
  PROVE  \A y \in Procs : proc'[y] = proc[y] \/ proc'[y].pc \notin BeforeTransfer \cup {"val_write"}
<1>1. [proc[x] EXCEPT !.pc = pc].pc = pc
  BY DEF TypeInv, TypeOK, Local
<1>. QED
  BY <1>1, ProcFrame DEF Goto

\* bookAppointment pays nothing: a count it writes is 0.
LEMMA BookPaysNothing == ASSUME TypeInv, NEW r \in Requests, Book(r) PROVE NoPayout
<1> USE DEF At, BeforeTransfer
<1>0. r \in Procs /\ proc[r] \in Local
  BY DEF Procs, TypeInv, TypeOK
<1>1. ASSUME NEW s \in Slots, NEW n \in Sizes, BookRead(r, s, n) PROVE NoPayout
  <2>1. PICK b \in Bookings \cup {None} : proc' = [proc EXCEPT ![r] =
          [Idle EXCEPT !.pc = "book_write", !.slot = s, !.b = b, !.n = n]]
    BY <1>1 DEF BookRead
  <2>. QED  BY <1>0, <1>1, <2>1, ProcFrame DEF BookRead, NoPayout, Idle
<1>2. CASE BookCreate(r)
  <2>1. PICK b \in Bookings :
          /\ bookings' = [bookings EXCEPT ![b] = [NoBooking EXCEPT !.slot = proc[r].slot,
                                                   !.status = "PENDING", !.n = proc[r].n]]
          /\ proc' = [proc EXCEPT ![r] = [@ EXCEPT !.pc = "book_pay", !.b = b]]
    BY <1>2 DEF BookCreate
  <2>2. \A y \in Procs : proc'[y] = proc[y] \/ proc'[y].pc \notin BeforeTransfer \cup {"val_write"}
    BY <1>0, <2>1, ProcFrame DEF Local
  <2>. QED  BY <1>2, <2>1, <2>2 DEF BookCreate, NoPayout, NoBooking, TypeInv, TypeOK
<1>3. CASE BookUpdate(r)
  <2>1. PICK pc \in {"book_pay", "book_read_old"} :
          proc' = [proc EXCEPT ![r] = [@ EXCEPT !.q = bookings[proc[r].b].tx, !.pc = pc]]
    BY <1>3 DEF BookUpdate
  <2>2. \A y \in Procs : proc'[y] = proc[y] \/ proc'[y].pc \notin BeforeTransfer \cup {"val_write"}
    BY <1>0, <2>1, ProcFrame DEF Local
  <2>. QED  BY <1>3, <2>2 DEF BookUpdate, NoPayout, TypeInv, TypeOK, BookingRow
<1>4. CASE BookReadOld(r)
  BY <1>0, <1>4, GotoFrame DEF BookReadOld, NoPayout
<1>5. CASE BookCancelOld(r)
  BY <1>0, <1>5, GotoFrame DEF BookCancelOld, NoPayout
<1>6. CASE BookMarkOld(r)
  BY <1>0, <1>6, GotoFrame DEF BookMarkOld, NoPayout
<1>7. CASE BookPay(r)
  <2>1. PICK p \in Payments : proc' = [proc EXCEPT ![r] = [@ EXCEPT !.pc = "book_link", !.p = p]]
    BY <1>7 DEF BookPay
  <2>2. \A y \in Procs : proc'[y] = proc[y] \/ proc'[y].pc \notin BeforeTransfer \cup {"val_write"}
    BY <1>0, <2>1, ProcFrame DEF Local
  <2>. QED  BY <1>7, <2>2 DEF BookPay, NoPayout
<1>8. CASE BookLink(r)
  BY <1>0, <1>8, ReturnFrame DEF BookLink, NoPayout, TypeInv, TypeOK, BookingRow
<1>. QED
  BY <1>1, <1>2, <1>3, <1>4, <1>5, <1>6, <1>7, <1>8 DEF Book

\* Neither does the webhook.
LEMMA HookPaysNothing == ASSUME TypeInv, NEW h \in Hooks, Hook(h) PROVE NoPayout
<1> USE DEF At, BeforeTransfer
<1>0. h \in Procs /\ proc[h] \in Local
  BY DEF Procs, TypeInv, TypeOK
<1>1. ASSUME NEW p \in Payments, HookCapturable(h, p) PROVE NoPayout
  <2>1. PICK b \in LinkedTo(p), pc \in {"hook_authorized", "hook_confirm"} : proc' = [proc EXCEPT ![h] =
          [Idle EXCEPT !.p = p, !.b = b, !.seen = "capturable", !.pc = pc]]
    BY <1>1 DEF HookCapturable
  <2>. QED  BY <1>0, <1>1, <2>1, ProcFrame DEF HookCapturable, NoPayout, Idle
<1>2. ASSUME NEW p, NEW kind, NEW status, NEW next \in {"idle", "hook_captured", "hook_find"},
             HookUpdateTx(h, p, kind, status, next)
      PROVE  NoPayout
  BY <1>0, <1>2, ProcFrame DEF HookUpdateTx, NoPayout, Idle
<1>3. ASSUME NEW p \in Payments,
             HookSucceeded(h, p) \/ HookFailed(h, p) \/ HookCanceled(h, p) \/ HookRequiresAction(h, p)
      PROVE  NoPayout
  BY <1>2, <1>3 DEF HookSucceeded, HookFailed, HookCanceled, HookRequiresAction
<1>4. CASE HookConfirm(h)
  BY <1>0, <1>4, GotoFrame DEF HookConfirm, NoPayout, TypeInv, TypeOK, BookingRow
<1>5. CASE HookAuthorized(h)
  BY <1>0, <1>5, ReturnFrame DEF HookAuthorized, NoPayout
<1>6. CASE HookCaptured(h)
  BY <1>0, <1>6, ReturnFrame DEF HookCaptured, NoPayout
<1>7. CASE HookFind(h)
  <2>1. \/ Return(h)
        \/ \E b \in LinkedTo(proc[h].p) :
              proc' = [proc EXCEPT ![h] = [@ EXCEPT !.pc = "hook_void", !.b = b]]
    BY <1>7 DEF HookFind
  <2>3. \A b : [proc[h] EXCEPT !.pc = "hook_void", !.b = b].pc = "hook_void"
    BY <1>0 DEF Local
  <2>2. \A y \in Procs : proc'[y] = proc[y] \/ proc'[y].pc \notin BeforeTransfer \cup {"val_write"}
    BY <1>0, <2>1, <2>3, ReturnFrame, ProcFrame
  <2>. QED  BY <1>7, <2>2 DEF HookFind, NoPayout
<1>8. CASE HookVoid(h)
  BY <1>0, <1>8, ReturnFrame DEF HookVoid, Void, NoPayout, TypeInv, TypeOK, BookingRow
<1>. QED
  BY <1>1, <1>3, <1>4, <1>5, <1>6, <1>7, <1>8 DEF Hook, HookBegin, HookContinue

\* Nor do cancelBooking,
LEMMA CancelPaysNothing == ASSUME TypeInv, NEW r \in Requests, Cancel(r) PROVE NoPayout
<1> USE DEF At, BeforeTransfer
<1>0. r \in Procs /\ proc[r] \in Local
  BY DEF Procs, TypeInv, TypeOK
<1>1. ASSUME NEW b \in Bookings, CancelRead(r, b) PROVE NoPayout
  BY <1>0, <1>1, ProcFrame DEF CancelRead, NoPayout, Idle
<1>2. CASE CancelWrite(r)
  BY SMTT(30), <1>0, <1>2, GotoFrame, ReturnFrame DEF CancelWrite, NoPayout, TypeInv, TypeOK, BookingRow
<1>3. CASE CancelReadTx(r)
  BY <1>0, <1>3, GotoFrame, ReturnFrame DEF CancelReadTx, NoPayout
<1>4. CASE CancelRelease(r)
  BY <1>0, <1>4, GotoFrame, ReturnFrame DEF CancelRelease, NoPayout
<1>5. CASE CancelMark(r)
  BY <1>0, <1>5, ReturnFrame DEF CancelMark, NoPayout
<1>. QED
  BY <1>1, <1>2, <1>3, <1>4, <1>5 DEF Cancel

\* the expiry job,
LEMMA CronPaysNothing == ASSUME TypeInv, ExpiryJob PROVE NoPayout
<1> USE DEF At, BeforeTransfer
<1>0. Cron \in Procs /\ proc[Cron] \in Local
  BY DEF Procs, TypeInv, TypeOK
<1>1. CASE CronSelect
  BY <1>1 DEF CronSelect, NoPayout
<1>2. CASE CronPick
  <2>1. PICK job \in due, seen \in {"charged", "hold"} : proc' = [proc EXCEPT ![Cron] =
          [Idle EXCEPT !.pc = "cron_settle", !.b = job[1], !.p = job[2], !.seen = seen]]
    BY <1>2 DEF CronPick
  <2>. QED  BY <1>0, <1>2, <2>1, ProcFrame DEF CronPick, NoPayout, Idle
<1>3. CASE CronSettle
  BY <1>0, <1>3, GotoFrame, ReturnFrame DEF CronSettle, NoPayout
<1>4. CASE CronMark
  BY <1>0, <1>4, GotoFrame DEF CronMark, NoPayout
<1>5. CASE CronVoid
  BY <1>0, <1>5, ReturnFrame DEF CronVoid, Void, NoPayout, TypeInv, TypeOK, BookingRow
<1>. QED
  BY <1>1, <1>2, <1>3, <1>4, <1>5 DEF ExpiryJob

\* the card, the calendar, an edit, or a handler that stops.
LEMMA OthersPayNothing ==
  ASSUME TypeInv,
         \/ Environment
         \/ ByHand
         \/ \E r \in Requests : RequestStops(r)
         \/ \E h \in Hooks : HookStops(h)
         \/ CronStops
  PROVE  NoPayout
<1>1. CASE Environment
  BY SMTT(30), <1>1 DEF Environment, Authorize, DeclineOrChallenge, HoldLapses, TokenExpires, NoPayout,
              TypeInv, TypeOK, BookingRow
<1>2. ASSUME NEW b \in Bookings, NEW status \in Edits, EditStatus(b, status) PROVE NoPayout
  BY <1>2 DEF EditStatus, NoPayout, TypeInv, TypeOK, BookingRow
<1>3. ASSUME NEW b \in Bookings, NEW s \in Slots, EditDate(b, s) PROVE NoPayout
  BY <1>3 DEF EditDate, NoteMove, NoPayout, TypeInv, TypeOK, BookingRow
<1>4. ASSUME NEW x \in Procs, Return(x), UNCHANGED <<bookings, hist>> PROVE NoPayout
  BY <1>4, ReturnFrame DEF NoPayout
<1>. QED
  BY <1>1, <1>2, <1>3, <1>4 DEF ByHand, RequestStops, HookStops, CronStops, Procs

-----------------------------------------------------------------------------
\* validateBookingToken counts a session only after its transfer.
LEMMA ValidateCounts ==
  ASSUME TypeInv, TypeInv', PayoutInv, NEW r \in Requests, Validate(r) PROVE PayoutInv'
<1> USE DEF At
<1>0. /\ r \in Procs /\ proc[r] \in Local /\ Named(r, proc[r])
      /\ proc \in [Procs -> Local] /\ CarriedCount(proc[r])
      /\ hist.transfers \in [Bookings -> Nat]
  BY DEF Procs, TypeInv, TypeOK, PayoutInv
<1>1. \A x \in Procs \ {r} : CarriedCount(proc[x])
  BY DEF PayoutInv
<1>2. ASSUME UNCHANGED bookings, hist'.transfers = hist.transfers, hist'.edited = hist.edited,
             \A x \in Procs \ {r} : proc'[x] = proc[x], CarriedCount(proc[r])'
      PROVE  PayoutInv'
  BY <1>1, <1>2 DEF PayoutInv, NoSessionWithoutPayout, CompletedMeansPaid, CarriedCount
<1>3. ASSUME NEW pc \in BeforeTransfer, Goto(r, pc) \/ Return(r),
             proc[r].pc \in BeforeTransfer,
             UNCHANGED bookings, hist'.transfers = hist.transfers, hist'.edited = hist.edited
      PROVE  PayoutInv'
  <2>1. \A x \in Procs \ {r} : proc'[x] = proc[x]
    BY <1>0, <1>3 DEF Goto, Return
  <2>2. CASE Return(r)
    BY <1>0, <1>2, <1>3, <2>1, <2>2 DEF Return, Idle, CarriedCount, BeforeTransfer
  <2>3. CASE Goto(r, pc)
    <3>1. /\ proc'[r].pc = pc /\ proc'[r].done = proc[r].done /\ proc'[r].b = proc[r].b
      BY <1>0, <2>3 DEF Goto, Local
    <3>2. CarriedCount(proc[r])'
      BY <1>0, <1>3, <3>1 DEF CarriedCount, BeforeTransfer
    <3>. QED  BY <1>2, <1>3, <2>1, <3>2
  <2>. QED  BY <1>3, <2>2, <2>3
<1>4. ASSUME NEW b \in Bookings, ValidateRead(r, b) PROVE PayoutInv'
  <2>1. PICK seen : proc' = [proc EXCEPT ![r] =
          [Idle EXCEPT !.pc = "val_check", !.b = b, !.p = bookings[b].tx,
             !.q = bookings[b].offerTx, !.n = bookings[b].n, !.done = bookings[b].done,
             !.seen = seen]]
    BY <1>4 DEF ValidateRead
  <2>2. /\ proc'[r].pc = "val_check" /\ proc'[r].b = b /\ proc'[r].done = bookings[b].done
        /\ \A x \in Procs \ {r} : proc'[x] = proc[x]
    BY <1>0, <2>1 DEF Idle
  <2>3. CarriedCount(proc[r])'
    BY <1>4, <2>2 DEF ValidateRead, CarriedCount, PayoutInv, NoSessionWithoutPayout
  <2>. QED  BY <1>2, <1>4, <2>2, <2>3 DEF ValidateRead
<1>5. CASE ValidateCheck(r)
  <2>1. hist'.transfers = hist.transfers /\ hist'.edited = hist.edited
    BY <1>5 DEF ValidateCheck, TypeInv, TypeOK
  <2>. QED  BY <1>3, <1>5, <2>1 DEF ValidateCheck, BeforeTransfer
<1>6. CASE ValidateCapture(r)
  BY <1>3, <1>6 DEF ValidateCapture, Capture, BeforeTransfer
<1>7. CASE ValidateCaptureOffer(r)
  BY <1>3, <1>7 DEF ValidateCaptureOffer, Capture, BeforeTransfer
<1>8. CASE ValidateTransfer(r)
  <2>1. proc[r].b \in Bookings /\ proc[r].done \in Nat /\ proc[r].done <= hist.transfers[proc[r].b]
    BY <1>0, <1>8 DEF ValidateTransfer, Named, ValPC, Local, CarriedCount, BeforeTransfer
  <2>2. PICK seen \in {"created", "failed"} :
          /\ proc' = [proc EXCEPT ![r] = [@ EXCEPT !.pc = "val_write", !.seen = seen]]
          /\ hist' = IF seen = "created"
                     THEN [hist EXCEPT !.transfers[proc[r].b] = @ + 1] ELSE hist
    BY <1>8 DEF ValidateTransfer
  <2>3. /\ proc'[r].pc = "val_write" /\ proc'[r].b = proc[r].b /\ proc'[r].done = proc[r].done
        /\ proc'[r].seen = seen
        /\ \A x \in Procs \ {r} : proc'[x] = proc[x]
    BY <1>0, <2>2 DEF Local
  <2>4. /\ \A b \in Bookings : hist'.transfers[b] \in Nat /\ hist.transfers[b] <= hist'.transfers[b]
        /\ seen = "created" => hist'.transfers[proc[r].b] = hist.transfers[proc[r].b] + 1
        /\ hist'.edited = hist.edited
    BY <1>0, <2>1, <2>2 DEF TypeInv, TypeOK
  <2>5. CarriedCount(proc[r])'
    BY <1>0, <2>1, <2>3, <2>4 DEF CarriedCount, BeforeTransfer
  <2>6. ASSUME NEW x \in Procs \ {r} PROVE CarriedCount(proc[x])'
    <3>1. proc'[x] = proc[x] /\ CarriedCount(proc[x]) /\ proc[x] \in Local /\ Named(x, proc[x])
      BY <1>1, <2>3, <2>6 DEF TypeInv, TypeOK
    <3>2. CASE proc[x].pc \in BeforeTransfer \cup {"val_write"}
      <4>1. proc[x].b \in Bookings /\ proc[x].done \in Nat
        BY <3>1, <3>2 DEF Named, ValPC, Local, BeforeTransfer
      <4>. QED  BY <1>0, <2>4, <3>1, <4>1 DEF CarriedCount
    <3>. QED  BY <3>1, <3>2 DEF CarriedCount
  <2>7. NoSessionWithoutPayout'
    <3>1. \A b \in Bookings : bookings[b].done \in Nat
      BY DEF TypeInv, TypeOK, BookingRow
    <3>. QED  BY <1>0, <1>8, <2>4, <3>1 DEF ValidateTransfer, PayoutInv, NoSessionWithoutPayout
  <2>8. CompletedMeansPaid'
    BY <1>0, <1>8, <2>4 DEF ValidateTransfer, PayoutInv, CompletedMeansPaid
  <2>. QED  BY <2>5, <2>6, <2>7, <2>8 DEF PayoutInv
<1>9. CASE ValidateWrite(r)
  <2>1. /\ proc[r].b \in Bookings /\ proc[r].done \in Nat /\ proc[r].seen \in {"created", "failed"}
        /\ proc[r].done <= hist.transfers[proc[r].b]
        /\ proc[r].seen = "created" => proc[r].done + 1 <= hist.transfers[proc[r].b]
    BY <1>0, <1>9 DEF ValidateWrite, Named, ValPC, Local, CarriedCount
  <2>2. PICK status \in {"COMPLETED", "CONFIRMED"}, token \in {"live", "null"},
             done \in {proc[r].done, proc[r].done + 1} :
          /\ bookings' = [bookings EXCEPT ![proc[r].b] =
                             [@ EXCEPT !.status = status, !.token = token, !.done = done]]
          /\ done = IF proc[r].seen = "created" THEN proc[r].done + 1 ELSE proc[r].done
          /\ status = "COMPLETED" => proc[r].seen = "created"
    BY <1>9 DEF ValidateWrite
  <2>3. /\ bookings'[proc[r].b].done = done /\ bookings'[proc[r].b].status = status
        /\ \A b \in Bookings \ {proc[r].b} : bookings'[b] = bookings[b]
    BY <2>1, <2>2 DEF TypeInv, TypeOK, BookingRow
  <2>4. hist' = hist /\ Goto(r, "val_tx")
    BY <1>9 DEF ValidateWrite
  <2>5. NoSessionWithoutPayout'
    BY <1>0, <2>1, <2>2, <2>3, <2>4 DEF PayoutInv, NoSessionWithoutPayout
  <2>6. CompletedMeansPaid'
    BY <1>0, <2>1, <2>2, <2>3, <2>4 DEF PayoutInv, CompletedMeansPaid
  <2>7. ASSUME NEW x \in Procs PROVE CarriedCount(proc[x])'
    <3>1. proc'[x] = proc[x] \/ proc'[x].pc \notin BeforeTransfer \cup {"val_write"}
      BY <1>0, <2>4, <2>7, GotoFrame DEF BeforeTransfer
    <3>. QED  BY <2>4, <3>1 DEF PayoutInv, CarriedCount
  <2>. QED  BY <2>5, <2>6, <2>7 DEF PayoutInv
<1>10. CASE ValidateTx(r) \/ ValidateOfferTx(r)
  <2>1. NoPayout
    BY <1>0, <1>10, GotoFrame, ReturnFrame DEF ValidateTx, ValidateOfferTx, NoPayout, BeforeTransfer
  <2>. QED  BY <2>1, NoPayoutKeeps
<1>. QED
  BY <1>4, <1>5, <1>6, <1>7, <1>8, <1>9, <1>10
    DEF Validate, ValidateCaptures, ValidateTxs

-----------------------------------------------------------------------------
\* The invariant holds in every behaviour.
THEOREM PayoutInvariant == Spec => [](TypeInv /\ PayoutInv)
<1>1. Init => TypeInv /\ PayoutInv
  <2>. SUFFICES ASSUME Init PROVE TypeInv /\ PayoutInv
    OBVIOUS
  <2>1. TypeInv
    BY TypeInit
  <2>2. PayoutInv
    <3>1. \A b \in Bookings : bookings[b].done = 0 /\ bookings[b].status = "ABSENT"
      BY DEF Init, NoBooking
    <3>2. \A b \in Bookings : hist.transfers[b] = 0
      BY DEF Init
    <3>3. \A x \in Procs : proc[x].pc = "idle"
      BY DEF Init, Idle
    <3>. QED
      BY <3>1, <3>2, <3>3
      DEF PayoutInv, NoSessionWithoutPayout, CompletedMeansPaid, CarriedCount, BeforeTransfer
  <2>. QED  BY <2>1, <2>2
<1>2. TypeInv /\ PayoutInv /\ [Next]_vars => (TypeInv /\ PayoutInv)'
  <2>. SUFFICES ASSUME TypeInv, PayoutInv, [Next]_vars PROVE (TypeInv /\ PayoutInv)'
    OBVIOUS
  <2>1. TypeInv'
    BY TypeStep
  <2>2. CASE UNCHANGED vars
    <3>1. NoPayout
      BY <2>2 DEF vars, NoPayout
    <3>. QED  BY <2>1, <3>1, NoPayoutKeeps
  <2>3. ASSUME NEW r \in Requests, Validate(r) PROVE PayoutInv'
    BY <2>1, <2>3, ValidateCounts
  <2>4. CASE NoPayout
    BY <2>1, <2>4, NoPayoutKeeps
  <2>. QED
    BY <2>1, <2>2, <2>3, <2>4, BookPaysNothing, CancelPaysNothing, HookPaysNothing,
       CronPaysNothing, OthersPayNothing
    DEF Next
<1>. QED
  BY <1>1, <1>2, PTL DEF Spec

\* total_completed_session never exceeds the transfers made for the booking.
THEOREM SessionsArePaid == Spec => []NoSessionWithoutPayout
<1>1. PayoutInv => NoSessionWithoutPayout
  BY DEF PayoutInv
<1>. QED
  BY <1>1, PayoutInvariant, PTL

\* A booking nobody edited is COMPLETED only after a transfer.
THEOREM CompletedIsPaid == Spec => []CompletedMeansPaid
<1>1. PayoutInv => CompletedMeansPaid
  BY DEF PayoutInv
<1>. QED
  BY <1>1, PayoutInvariant, PTL
=============================================================================
