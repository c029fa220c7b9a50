----------------------------- MODULE OfferProofs -----------------------------
(***************************************************************************)
(* Theorems about CustomOffers, for every value of its constants.  What    *)
(* LedgerProofs shows of bookings and payments alone stays true while      *)
(* offers are sent, answered and paid on the same tables; and an offer is  *)
(* charged, accepted and declined only as its payment allows.              *)
(***************************************************************************)
EXTENDS CustomOffers, LedgerProofs

-----------------------------------------------------------------------------
(* Which locals a handler of an offer has set at each await                *)

HookActPC == {"capturable_read", "capturable_accept", "capturable_link", "capturable_tx"}
               \cup PaidPC

\* The awaits at which a handler holds an offer, one with its booking, a payment.
OfferUsers == {"accept_free", "accept_apply", "accept_pay", "accept_mark", "accept_link",
               "decline_write", "capturable_read", "capturable_accept", "capturable_link",
               "paid_accept", "paid_apply"}
TermsUsers == {"accept_pay", "accept_mark", "accept_link", "capturable_accept", "capturable_link"}
PaymentUsers == HookActPC \cup {"accept_mark", "accept_link"}

ActNamed(x, l, rows) ==
    /\ x \in OfferHooks => l.pc \in HookActPC \cup {"idle"}
    /\ l.pc \in OfferUsers => l.o \in Offers /\ rows[l.o].status # "ABSENT"
    /\ l.pc \in TermsUsers => l.b = rows[l.o].booking
    /\ l.pc = "send_create" => l.b \in Bookings
    /\ l.pc \in PaymentUsers => l.p \in Payments

\* A row that exists is about a booking; one that does not has no payment.
OffersNamed ==
    \A o \in Offers : IF offers[o].status = "ABSENT" THEN offers[o].tx = None
                                                     ELSE offers[o].booking \in Bookings

OfferTypeInv ==
    /\ TypeInv /\ OfferTypeOK /\ OffersNamed
    /\ \A x \in OfferProcs : ActNamed(x, act[x], offers)

\* A row stays, and stays about its booking.
OffersKept ==
    /\ offers' \in [Offers -> OfferRow] /\ OffersNamed'
    /\ \A o \in Offers : offers[o].status # "ABSENT" =>
         offers'[o].status # "ABSENT" /\ offers'[o].booking = offers[o].booking

-----------------------------------------------------------------------------
(* Typing of the building blocks                                           *)

\* A step that leaves the table of offers keeps the rows,
LEMMA SameOffers == ASSUME OfferTypeInv, UNCHANGED offers PROVE OffersKept
  BY DEF OfferTypeInv, OfferTypeOK, OffersKept, OffersNamed

\* and so does one that writes a row about the same booking.
LEMMA WriteOffer ==
  ASSUME OfferTypeInv, NEW o \in Offers, NEW row \in OfferRow, row.status # "ABSENT",
         row.booking \in Bookings,
         offers[o].status # "ABSENT" => row.booking = offers[o].booking,
         offers' = [offers EXCEPT ![o] = row]
  PROVE  OffersKept
  BY DEF OfferTypeInv, OfferTypeOK, OffersKept, OffersNamed

\* A step that gives one handler locals of the right shape keeps all of them so.
LEMMA ActType ==
  ASSUME OfferTypeInv, OffersKept, NEW x \in OfferProcs, NEW l \in OfferLocal,
         ActNamed(x, l, offers'), act' = [act EXCEPT ![x] = l]
  PROVE  act' \in [OfferProcs -> OfferLocal] /\ \A y \in OfferProcs : ActNamed(y, act'[y], offers')
<1>1. act' \in [OfferProcs -> OfferLocal]
  BY DEF OfferTypeInv, OfferTypeOK
<1>2. ASSUME NEW y \in OfferProcs \ {x} PROVE ActNamed(y, act'[y], offers')
  <2>1. act'[y] = act[y] /\ ActNamed(y, act[y], offers)
    BY DEF OfferTypeInv, OfferTypeOK
  <2>2. act[y].pc \in TermsUsers => act[y].pc \in OfferUsers
    BY DEF TermsUsers, OfferUsers
  <2>. QED  BY <2>1, <2>2 DEF ActNamed, OffersKept
<1>3. act'[x] = l
  BY DEF OfferTypeInv, OfferTypeOK
<1>. QED
  BY <1>1, <1>2, <1>3

\* The locals of a handler that is not running.
LEMMA OfferIdleType == OfferIdle \in OfferLocal
  BY DEF OfferIdle, OfferLocal, OfferPC

\* Ending a handler,
LEMMA FinishType ==
  ASSUME OfferTypeInv, OffersKept, NEW x \in OfferProcs, Finish(x)
  PROVE  act' \in [OfferProcs -> OfferLocal] /\ \A y \in OfferProcs : ActNamed(y, act'[y], offers')
<1>1. ActNamed(x, OfferIdle, offers')
  BY DEF ActNamed, OfferIdle, HookActPC, PaidPC, OfferUsers, TermsUsers, PaymentUsers
<1>. QED
  BY <1>1, OfferIdleType, ActType DEF Finish

\* or letting it go on to an await whose locals are set.
LEMMA AdvanceType ==
  ASSUME OfferTypeInv, OffersKept, NEW x \in OfferProcs, NEW pc \in OfferPC, Advance(x, pc),
         x \in OfferHooks => pc \in HookActPC,
         pc \in OfferUsers => act[x].pc \in OfferUsers,
         pc \in TermsUsers => act[x].pc \in TermsUsers,
         pc # "send_create",
         pc \in PaymentUsers => act[x].pc \in PaymentUsers
  PROVE  act' \in [OfferProcs -> OfferLocal] /\ \A y \in OfferProcs : ActNamed(y, act'[y], offers')
<1> DEFINE l == [act[x] EXCEPT !.pc = pc]
<1>1. act[x] \in OfferLocal /\ ActNamed(x, act[x], offers)
  BY DEF OfferTypeInv, OfferTypeOK
<1>2. l \in OfferLocal
  BY <1>1, ZenonT(60) DEF OfferLocal
<1>3. l.pc = pc /\ l.o = act[x].o /\ l.b = act[x].b /\ l.p = act[x].p
  BY <1>1 DEF OfferLocal
<1>4. act' = [act EXCEPT ![x] = l]
  BY DEF Advance
<1> HIDE DEF l
<1>5. act[x].pc \in TermsUsers => act[x].pc \in OfferUsers
  BY DEF TermsUsers, OfferUsers
<1>6. ActNamed(x, l, offers')
  BY <1>1, <1>3, <1>5 DEF ActNamed, OffersKept
<1>. QED
  BY <1>2, <1>4, <1>6, ActType

\* These are the parts of the invariant.
LEMMA OfferParts ==
  ASSUME TypeInv', OffersKept, act' \in [OfferProcs -> OfferLocal],
         \A y \in OfferProcs : ActNamed(y, act'[y], offers')
  PROVE  OfferTypeInv'
  BY DEF OfferTypeInv, OfferTypeOK, OffersKept, TypeInv

\* Writing one column of a booking or of a transaction keeps the tables' types.
LEMMA SlotType ==
  ASSUME TypeInv, NEW b, NEW s \in Slots \cup {None}, bookings' = [bookings EXCEPT ![b].slot = s]
  PROVE  bookings' \in [Bookings -> BookingRow]
  BY ZenonT(60) DEF TypeInv, TypeOK, BookingRow

\* Noting a move keeps the history's type and what it holds already.
LEMMA NoteMoveType ==
  ASSUME TypeInv, NEW b \in Bookings, NEW s, NoteMove(b, s)
  PROVE  /\ hist' \in [transfers : [Bookings -> Nat], uses : [Bookings -> Nat],
                        edited : SUBSET Bookings, moved : SUBSET Bookings]
         /\ hist.moved \subseteq hist'.moved
         /\ bookings[b].slot = s \/ b \in hist'.moved
  BY DEF NoteMove, TypeInv, TypeOK

\* Handing out a client secret keeps the type of the payments.
LEMMA SecretType ==
  ASSUME TypeInv, NEW p \in Payments, payments' = [payments EXCEPT ![p].secret = TRUE]
  PROVE  payments' \in [Payments -> PaymentRow]
<1>1. [payments[p] EXCEPT !.secret = TRUE] \in PaymentRow
  BY DEF TypeInv, TypeOK, PaymentRow
<1>. QED
  BY <1>1 DEF TypeInv, TypeOK

-----------------------------------------------------------------------------
(* Type correctness, one lemma per handler                                 *)

\* sendCustomOffer writes a row about the booking it read.
LEMMA SendType == ASSUME OfferTypeInv, NEW x \in OfferRequests, Send(x) PROVE OfferTypeInv'
<1> USE DEF Acting
<1>0. /\ x \in OfferProcs \ OfferHooks /\ act[x] \in OfferLocal /\ ActNamed(x, act[x], offers)
      /\ TypeInv
  BY OfferProcsDisjoint DEF OfferProcs, OfferTypeInv, OfferTypeOK
<1>1. UNCHANGED vars
  BY DEF Send, SendRead, SendCreate
<1>2. TypeInv'
  BY <1>0, <1>1 DEF vars, TypeInv, TypeOK
<1>3. ASSUME NEW b \in Bookings, SendRead(x, b) PROVE OfferTypeInv'
  <2> DEFINE l == [OfferIdle EXCEPT !.pc = "send_create", !.b = b, !.p = bookings[b].tx]
  <2>1. bookings[b].tx \in Payments \cup {None}
    BY <1>0 DEF TypeInv, TypeOK, BookingRow
  <2>2. l \in OfferLocal /\ l.pc = "send_create" /\ l.b = b
    BY <2>1 DEF OfferIdle, OfferLocal, OfferPC
  <2>3. act' = [act EXCEPT ![x] = l] /\ UNCHANGED offers
    BY <1>3 DEF SendRead, Begin
  <2> HIDE DEF l
  <2>4. ActNamed(x, l, offers')
    BY <1>0, <2>2 DEF ActNamed, HookActPC, PaidPC, OfferUsers, TermsUsers, PaymentUsers
  <2>. QED  BY <1>0, <1>2, <2>2, <2>3, <2>4, SameOffers, ActType, OfferParts
<1>4. ASSUME NEW total \in Totals, NEW s \in Slots, SendCreate(x, total, s) PROVE OfferTypeInv'
  <2>1. act[x].b \in Bookings
    BY <1>0, <1>4 DEF SendCreate, ActNamed
  <2>2. act[x].p \in Payments => payments[act[x].p].amount \in Nat
    BY <1>0 DEF TypeInv, TypeOK, PaymentRow
  <2>3. act[x].p \in Payments \cup {None} /\ total \in Nat
    BY <1>0, TotalsAreAmounts DEF OfferLocal
  <2>4. PICK o \in Offers, paid \in Nat :
          /\ offers[o].status = "ABSENT"
          /\ offers' = [offers EXCEPT ![o] =
                [status |-> "PENDING", booking |-> act[x].b, slot |-> s, total |-> total,
                 paid |-> paid, due |-> DueOf(total, paid), tx |-> None]]
    BY <1>4, <2>2, <2>3 DEF SendCreate
  <2> DEFINE row == [status |-> "PENDING", booking |-> act[x].b, slot |-> s, total |-> total,
                     paid |-> paid, due |-> DueOf(total, paid), tx |-> None]
  <2>5. DueOf(total, paid) \in Nat
    BY <2>3 DEF DueOf
  <2>6. row \in OfferRow /\ row.status = "PENDING" /\ row.booking = act[x].b
    BY <2>1, <2>3, <2>5 DEF OfferRow, OfferStatus
  <2>7. offers' = [offers EXCEPT ![o] = row]
    BY <2>4
  <2> HIDE DEF row
  <2>8. OffersKept
    BY <2>1, <2>4, <2>6, <2>7, WriteOffer
  <2>. QED  BY <1>0, <1>2, <1>4, <2>8, FinishType, OfferParts DEF SendCreate
<1>. QED
  BY <1>3, <1>4 DEF Send

\* acceptCustomOffer keeps the types of all four tables.
LEMMA AcceptType == ASSUME OfferTypeInv, NEW x \in OfferRequests, Accept(x) PROVE OfferTypeInv'
<1> USE DEF Acting
<1> USE DEF OfferUsers, TermsUsers, PaymentUsers, HookActPC, PaidPC
<1>0. /\ x \in OfferProcs \ OfferHooks /\ act[x] \in OfferLocal /\ ActNamed(x, act[x], offers)
      /\ TypeInv
  BY OfferProcsDisjoint DEF OfferProcs, OfferTypeInv, OfferTypeOK
<1>1. ASSUME UNCHANGED vars PROVE TypeInv'
  BY <1>0, <1>1 DEF vars, TypeInv, TypeOK
<1>2. act[x].pc \in OfferUsers => /\ act[x].o \in Offers /\ offers[act[x].o] \in OfferRow
                                  /\ offers[act[x].o].status # "ABSENT"
                                  /\ offers[act[x].o].booking \in Bookings
                                  /\ offers[act[x].o].slot \in Slots \cup {None}
                                  /\ offers[act[x].o].due \in Nat
  BY <1>0 DEF ActNamed, OfferTypeInv, OfferTypeOK, OffersNamed, OfferRow
<1>3. ASSUME NEW o \in Offers, AcceptRead(x, o) PROVE OfferTypeInv'
  <2>1. PICK pc \in {"accept_free", "accept_pay"} :
          act' = [act EXCEPT ![x] = [OfferIdle EXCEPT !.o = o, !.b = offers[o].booking, !.pc = pc]]
    BY <1>3 DEF AcceptRead, Begin
  <2> DEFINE l == [OfferIdle EXCEPT !.o = o, !.b = offers[o].booking, !.pc = pc]
  <2>2. offers[o].booking \in Bookings \cup {None} /\ offers[o].status # "ABSENT"
    BY <1>3 DEF AcceptRead, OfferTypeInv, OfferTypeOK, OfferRow
  <2>3. l \in OfferLocal /\ l.pc = pc /\ l.o = o /\ l.b = offers[o].booking
    BY <2>2 DEF OfferIdle, OfferLocal, OfferPC
  <2>4. act' = [act EXCEPT ![x] = l] /\ UNCHANGED <<vars, offers>>
    BY <1>3, <2>1 DEF AcceptRead
  <2> HIDE DEF l
  <2>5. ActNamed(x, l, offers')
    BY <1>0, <2>2, <2>3, <2>4 DEF ActNamed
  <2>. QED  BY <1>0, <1>1, <2>3, <2>4, <2>5, SameOffers, ActType, OfferParts
<1>4. CASE AcceptFree(x)
  <2> DEFINE row == [offers[act[x].o] EXCEPT !.status = "ACCEPTED", !.due = 0]
  <2>1. row \in OfferRow /\ row.status = "ACCEPTED" /\ row.booking = offers[act[x].o].booking
    BY <1>2, <1>4 DEF AcceptFree, OfferRow, OfferStatus
  <2>2. offers' = [offers EXCEPT ![act[x].o] = row]
    BY <1>4 DEF AcceptFree
  <2> HIDE DEF row
  <2>3. OffersKept
    BY <1>2, <1>4, <2>1, <2>2, WriteOffer DEF AcceptFree
  <2>4. Advance(x, "accept_apply") /\ "accept_apply" \in OfferPC /\ TypeInv'
    BY <1>1, <1>4 DEF AcceptFree, OfferPC
  <2>. QED  BY <1>0, <1>4, <2>3, <2>4, AdvanceType, OfferParts DEF AcceptFree
<1>5. CASE AcceptApply(x)
  <2>1. bookings' \in [Bookings -> BookingRow]
    BY <1>0, <1>2, <1>5, SlotType DEF AcceptApply, Apply
  <2>3. offers[act[x].o].booking \in Bookings
    BY <1>2, <1>5 DEF AcceptApply
  <2>2. TypeInv'
    BY <1>0, <1>5, <2>1, <2>3, NoteMoveType DEF AcceptApply, Apply, TypeInv, TypeOK
  <2>. QED  BY <1>0, <1>5, <2>2, SameOffers, FinishType, OfferParts DEF AcceptApply
<1>6. CASE AcceptPay(x)
  <2>1. PICK p \in Payments :
          /\ payments' = [payments EXCEPT ![p] =
                [NoPayment EXCEPT !.type = "custom_offer", !.booking = act[x].b,
                   !.amount = offers[act[x].o].due, !.status = "pending", !.intent = "open"]]
          /\ act' = [act EXCEPT ![x] = [@ EXCEPT !.pc = "accept_mark", !.p = p]]
    BY <1>6 DEF AcceptPay
  <2>2. act[x].b \in Bookings
    BY <1>0, <1>2, <1>6 DEF AcceptPay, ActNamed
  <2>3. [NoPayment EXCEPT !.type = "custom_offer", !.booking = act[x].b,
           !.amount = offers[act[x].o].due, !.status = "pending", !.intent = "open"] \in PaymentRow
    BY <1>2, <1>6, <2>2, NoPaymentType DEF AcceptPay, NoPayment, PaymentRow, TxStatus, IntentStatus
  <2>4. payments' \in [Payments -> PaymentRow]
    BY <1>0, <2>1, <2>3 DEF TypeInv, TypeOK
  <2>5. TypeInv' /\ UNCHANGED offers
    BY <1>0, <1>6, <2>4 DEF AcceptPay, TypeInv, TypeOK
  <2> DEFINE l == [act[x] EXCEPT !.pc = "accept_mark", !.p = p]
  <2>6. l \in OfferLocal
    BY <1>0, ZenonT(60) DEF OfferLocal, OfferPC
  <2>7. l.pc = "accept_mark" /\ l.o = act[x].o /\ l.b = act[x].b /\ l.p = p
    BY <1>0 DEF OfferLocal
  <2>8. act' = [act EXCEPT ![x] = l]
    BY <2>1
  <2> HIDE DEF l
  <2>9. ActNamed(x, l, offers')
    BY <1>0, <1>6, <2>5, <2>7 DEF AcceptPay, ActNamed
  <2>. QED  BY <1>0, <2>5, <2>6, <2>8, <2>9, SameOffers, ActType, OfferParts
<1>7. CASE AcceptMark(x)
  <2> DEFINE row == [offers[act[x].o] EXCEPT !.status = "PAYMENT_PENDING", !.tx = act[x].p]
  <2>0. act[x].p \in Payments
    BY <1>0, <1>7 DEF AcceptMark, ActNamed
  <2>1. row \in OfferRow /\ row.status = "PAYMENT_PENDING" /\ row.booking = offers[act[x].o].booking
    BY <1>2, <1>7, <2>0 DEF AcceptMark, OfferRow, OfferStatus
  <2>2. offers' = [offers EXCEPT ![act[x].o] = row]
    BY <1>7 DEF AcceptMark
  <2> HIDE DEF row
  <2>3. OffersKept
    BY <1>2, <1>7, <2>1, <2>2, WriteOffer DEF AcceptMark
  <2>4. Advance(x, "accept_link") /\ "accept_link" \in OfferPC /\ TypeInv'
    BY <1>1, <1>7 DEF AcceptMark, OfferPC
  <2>. QED  BY <1>0, <1>7, <2>3, <2>4, AdvanceType, OfferParts DEF AcceptMark
<1>8. CASE AcceptLink(x)
  <2>1. act[x].b \in Bookings /\ act[x].p \in Payments
    BY <1>0, <1>2, <1>8 DEF AcceptLink, ActNamed
  <2>2. [bookings[act[x].b] EXCEPT !.slot = offers[act[x].o].slot, !.offerTx = act[x].p] \in BookingRow
    BY <1>0, <1>2, <1>8, <2>1, ZenonT(60) DEF AcceptLink, TypeInv, TypeOK, BookingRow
  <2>3. bookings' \in [Bookings -> BookingRow]
    BY <1>0, <1>8, <2>2 DEF AcceptLink, TypeInv, TypeOK
  <2>4. payments' \in [Payments -> PaymentRow]
    BY <1>0, <1>8, <2>1, SecretType DEF AcceptLink
  <2>5. TypeInv'
    BY <1>0, <1>8, <2>1, <2>3, <2>4, NoteMoveType DEF AcceptLink, TypeInv, TypeOK
  <2>. QED  BY <1>0, <1>8, <2>5, SameOffers, FinishType, OfferParts DEF AcceptLink
<1>. QED
  BY <1>3, <1>4, <1>5, <1>6, <1>7, <1>8 DEF Accept

\* So does declineCustomOffer.
LEMMA DeclineType == ASSUME OfferTypeInv, NEW x \in OfferRequests, Decline(x) PROVE OfferTypeInv'
<1> USE DEF Acting
<1>0. /\ x \in OfferProcs \ OfferHooks /\ act[x] \in OfferLocal /\ ActNamed(x, act[x], offers)
      /\ TypeInv
  BY OfferProcsDisjoint DEF OfferProcs, OfferTypeInv, OfferTypeOK
<1>1. UNCHANGED vars
  BY DEF Decline, DeclineRead, DeclineWrite
<1>2. TypeInv'
  BY <1>0, <1>1 DEF vars, TypeInv, TypeOK
<1>3. ASSUME NEW o \in Offers, DeclineRead(x, o) PROVE OfferTypeInv'
  <2> DEFINE l == [OfferIdle EXCEPT !.pc = "decline_write", !.o = o]
  <2>1. l \in OfferLocal /\ l.pc = "decline_write" /\ l.o = o
    BY DEF OfferIdle, OfferLocal, OfferPC
  <2>2. act' = [act EXCEPT ![x] = l] /\ UNCHANGED offers /\ offers[o].status # "ABSENT"
    BY <1>3 DEF DeclineRead, Begin
  <2> HIDE DEF l
  <2>3. ActNamed(x, l, offers')
    BY <1>0, <2>1, <2>2 DEF ActNamed, HookActPC, PaidPC, OfferUsers, TermsUsers, PaymentUsers
  <2>. QED  BY <1>0, <1>2, <2>1, <2>2, <2>3, SameOffers, ActType, OfferParts
<1>4. CASE DeclineWrite(x)
  <2> DEFINE row == [offers[act[x].o] EXCEPT !.status = "DECLINED"]
  <2>1. /\ act[x].o \in Offers /\ offers[act[x].o] \in OfferRow
        /\ offers[act[x].o].status # "ABSENT" /\ offers[act[x].o].booking \in Bookings
    BY <1>0, <1>4 DEF DeclineWrite, ActNamed, OfferUsers, OfferTypeInv, OfferTypeOK, OffersNamed
  <2>2. row \in OfferRow /\ row.status = "DECLINED" /\ row.booking = offers[act[x].o].booking
    BY <2>1 DEF OfferRow, OfferStatus
  <2>3. offers' = [offers EXCEPT ![act[x].o] = row]
    BY <1>4 DEF DeclineWrite
  <2> HIDE DEF row
  <2>4. OffersKept
    BY <2>1, <2>2, <2>3, WriteOffer
  <2>. QED  BY <1>0, <1>2, <1>4, <2>4, FinishType, OfferParts DEF DeclineWrite
<1>. QED
  BY <1>3, <1>4 DEF Decline

\* The custom_offer branches of the webhook.
LEMMA OfferHookType == ASSUME OfferTypeInv, NEW x \in OfferHooks, OfferHook(x) PROVE OfferTypeInv'
<1> USE DEF Acting
<1> USE DEF OfferUsers, TermsUsers, PaymentUsers, HookActPC, PaidPC
<1>0. x \in OfferProcs /\ act[x] \in OfferLocal /\ ActNamed(x, act[x], offers) /\ TypeInv
  BY DEF OfferProcs, OfferTypeInv, OfferTypeOK
<1>1. ASSUME UNCHANGED vars PROVE TypeInv'
  BY <1>0, <1>1 DEF vars, TypeInv, TypeOK
<1>2. act[x].pc \in OfferUsers => /\ act[x].o \in Offers /\ offers[act[x].o] \in OfferRow
                                  /\ offers[act[x].o].status # "ABSENT"
                                  /\ offers[act[x].o].booking \in Bookings
                                  /\ offers[act[x].o].slot \in Slots \cup {None}
  BY <1>0 DEF ActNamed, OfferTypeInv, OfferTypeOK, OffersNamed, OfferRow
<1>3. act[x].pc \in HookActPC => act[x].p \in Payments
  BY <1>0 DEF ActNamed
<1>4. ASSUME NEW p \in Payments, NEW o \in OffersOf(p), o # None
      PROVE  o \in Offers /\ offers[o].status # "ABSENT"
  BY <1>4, NoneIsNoKey DEF OffersOf, OfferTypeInv, OffersNamed
<1>5. ASSUME NEW p \in Payments, CapturableFind(x, p) PROVE OfferTypeInv'
  <2>1. PICK o \in OffersOf(p), pc \in {"capturable_tx", "capturable_read"} :
          /\ pc = "capturable_read" => o # None
          /\ act' = [act EXCEPT ![x] = [OfferIdle EXCEPT !.p = p, !.o = o, !.pc = pc]]
    BY <1>5 DEF CapturableFind, Begin
  <2> DEFINE l == [OfferIdle EXCEPT !.p = p, !.o = o, !.pc = pc]
  <2>2. o \in Offers \cup {None}
    BY <1>4
  <2>3. l \in OfferLocal /\ l.pc = pc /\ l.o = o /\ l.p = p
    BY <2>2 DEF OfferIdle, OfferLocal, OfferPC
  <2>4. act' = [act EXCEPT ![x] = l] /\ UNCHANGED offers
    BY <1>5, <2>1 DEF CapturableFind
  <2> HIDE DEF l
  <2>5. ActNamed(x, l, offers')
    BY <1>4, <2>1, <2>3, <2>4 DEF ActNamed
  <2>6. TypeInv'
    BY <1>0, <1>5 DEF CapturableFind, OfferDeliver, TypeInv, TypeOK
  <2>. QED  BY <1>0, <2>3, <2>4, <2>5, <2>6, SameOffers, ActType, OfferParts
<1>6. CASE CapturableRead(x)
  <2>1. PICK confirmed \in BOOLEAN : act' = [act EXCEPT ![x] =
          [@ EXCEPT !.pc = "capturable_accept", !.b = offers[act[x].o].booking, !.confirmed = confirmed]]
    BY <1>6 DEF CapturableRead
  <2> DEFINE l == [act[x] EXCEPT !.pc = "capturable_accept", !.b = offers[act[x].o].booking,
                                 !.confirmed = confirmed]
  <2>2. offers[act[x].o].booking \in Bookings
    BY <1>2, <1>6 DEF CapturableRead
  <2>3. l \in OfferLocal
    BY <1>0, <2>2, ZenonT(60) DEF OfferLocal, OfferPC
  <2>4. l.pc = "capturable_accept" /\ l.o = act[x].o /\ l.p = act[x].p /\ l.b = offers[act[x].o].booking
    BY <1>0 DEF OfferLocal
  <2>5. act' = [act EXCEPT ![x] = l] /\ UNCHANGED <<vars, offers>>
    BY <1>6, <2>1 DEF CapturableRead
  <2> HIDE DEF l
  <2>6. ActNamed(x, l, offers')
    BY <1>0, <1>6, <2>4, <2>5 DEF CapturableRead, ActNamed
  <2>. QED  BY <1>0, <1>1, <2>3, <2>5, <2>6, SameOffers, ActType, OfferParts
<1>7. CASE CapturableAccept(x)
  <2> DEFINE row == [offers[act[x].o] EXCEPT !.status = "ACCEPTED"]
  <2>1. row \in OfferRow /\ row.status = "ACCEPTED" /\ row.booking = offers[act[x].o].booking
    BY <1>2, <1>7 DEF CapturableAccept, OfferRow, OfferStatus
  <2>2. offers' = [offers EXCEPT ![act[x].o] = row]
    BY <1>7 DEF CapturableAccept
  <2> HIDE DEF row
  <2>3. OffersKept
    BY <1>2, <1>7, <2>1, <2>2, WriteOffer DEF CapturableAccept
  <2>4. Advance(x, "capturable_link") /\ "capturable_link" \in OfferPC /\ TypeInv'
    BY <1>1, <1>7 DEF CapturableAccept, OfferPC
  <2>. QED  BY <1>0, <1>7, <2>3, <2>4, AdvanceType, OfferParts DEF CapturableAccept
<1>8. CASE CapturableLink(x)
  <2>1. act[x].p \in Payments /\ act[x].b \in Bookings /\ bookings[act[x].b] \in BookingRow
    BY <1>0, <1>2, <1>3, <1>8 DEF CapturableLink, ActNamed, TypeInv, TypeOK
  <2>2. [bookings[act[x].b] EXCEPT !.offerTx = act[x].p] \in BookingRow
    BY <2>1 DEF BookingRow
  <2>3. [bookings[act[x].b] EXCEPT !.slot = offers[act[x].o].slot, !.status = "CONFIRMED",
                                   !.token = "live", !.offerTx = act[x].p] \in BookingRow
    BY <1>2, <1>8, <2>1, ZenonT(60) DEF CapturableLink, BookingRow, BookingStatus, Token
  <2>4. bookings' \in [Bookings -> BookingRow]
    BY <1>0, <1>8, <2>2, <2>3 DEF CapturableLink, TypeInv, TypeOK
  <2>5. TypeInv'
    BY <1>0, <1>8, <2>1, <2>4, NoteMoveType DEF CapturableLink, TypeInv, TypeOK
  <2>6. Advance(x, "capturable_tx") /\ "capturable_tx" \in OfferPC
    BY <1>8 DEF CapturableLink, OfferPC
  <2>. QED  BY <1>0, <1>8, <2>5, <2>6, SameOffers, AdvanceType, OfferParts DEF CapturableLink
<1>9. CASE CapturableTx(x)
  <2>1. payments' \in [Payments -> PaymentRow]
    BY <1>0, <1>9, SetTxType DEF CapturableTx, TypeInv, TypeOK, TxStatus
  <2>2. TypeInv'
    BY <1>0, <1>9, <2>1 DEF CapturableTx, TypeInv, TypeOK
  <2>. QED  BY <1>0, <1>9, <2>2, SameOffers, FinishType, OfferParts DEF CapturableTx
<1>10. ASSUME NEW p \in Payments, PaidUpdateTx(x, p) PROVE OfferTypeInv'
  <2> DEFINE l == [OfferIdle EXCEPT !.pc = "paid_find", !.p = p]
  <2>1. l \in OfferLocal /\ l.pc = "paid_find" /\ l.p = p
    BY DEF OfferIdle, OfferLocal, OfferPC
  <2>2. act' = [act EXCEPT ![x] = l] /\ UNCHANGED offers
    BY <1>10 DEF PaidUpdateTx, Begin
  <2> HIDE DEF l
  <2>3. ActNamed(x, l, offers')
    BY <2>1 DEF ActNamed
  <2>4. payments' \in [Payments -> PaymentRow]
    BY <1>0, <1>10, SetTxType DEF PaidUpdateTx, TypeInv, TypeOK, TxStatus
  <2>5. TypeInv'
    BY <1>0, <1>10, <2>4 DEF PaidUpdateTx, OfferDeliver, TypeInv, TypeOK
  <2>. QED  BY <1>0, <2>1, <2>2, <2>3, <2>5, SameOffers, ActType, OfferParts
<1>11. CASE PaidFind(x)
  <2>1. UNCHANGED <<vars, offers>>
    BY <1>11 DEF PaidFind
  <2>2. CASE Finish(x)
    BY <1>0, <1>1, <2>1, <2>2, SameOffers, FinishType, OfferParts
  <2>3. ASSUME NEW o \in OffersOf(act[x].p), o # None, act' = [act EXCEPT ![x] =
                  [@ EXCEPT !.pc = "paid_accept", !.o = o, !.paid = offers[o].paid]]
        PROVE  OfferTypeInv'
    <3> DEFINE l == [act[x] EXCEPT !.pc = "paid_accept", !.o = o, !.paid = offers[o].paid]
    <3>1. act[x].p \in Payments
      BY <1>3, <1>11 DEF PaidFind
    <3>2. o \in Offers /\ offers[o].status # "ABSENT" /\ offers[o].paid \in Nat
      BY <1>4, <2>3, <3>1 DEF OfferTypeInv, OfferTypeOK, OfferRow
    <3>3. l \in OfferLocal
      BY <1>0, <3>2, ZenonT(60) DEF OfferLocal, OfferPC
    <3>4. l.pc = "paid_accept" /\ l.o = o /\ l.p = act[x].p
      BY <1>0 DEF OfferLocal
    <3>5. act' = [act EXCEPT ![x] = l]
      BY <2>3
    <3> HIDE DEF l
    <3>6. ActNamed(x, l, offers')
      BY <2>1, <3>1, <3>2, <3>4 DEF ActNamed
    <3>. QED  BY <1>0, <1>1, <2>1, <3>3, <3>5, <3>6, SameOffers, ActType, OfferParts
  <2>. QED  BY <1>11, <2>2, <2>3 DEF PaidFind
<1>12. CASE PaidAccept(x)
  <2> DEFINE row == [offers[act[x].o] EXCEPT !.status = "ACCEPTED", !.due = 0,
                        !.paid = act[x].paid + payments[act[x].p].amount]
  <2>1. act[x].paid \in Nat /\ payments[act[x].p].amount \in Nat
    BY <1>0, <1>3, <1>12 DEF PaidAccept, OfferLocal, TypeInv, TypeOK, PaymentRow
  <2>2. act[x].paid + payments[act[x].p].amount \in Nat
    BY <2>1
  <2>3. row \in OfferRow
    BY <1>2, <1>12, <2>2, ZenonT(60) DEF PaidAccept, OfferRow, OfferStatus
  <2>4. row.status = "ACCEPTED" /\ row.booking = offers[act[x].o].booking
    BY <1>2, <1>12 DEF PaidAccept, OfferRow
  <2>5. offers' = [offers EXCEPT ![act[x].o] = row]
    BY <1>12 DEF PaidAccept
  <2> HIDE DEF row
  <2>6. OffersKept
    BY <1>2, <1>12, <2>3, <2>4, <2>5, WriteOffer DEF PaidAccept
  <2>7. Advance(x, "paid_apply") /\ "paid_apply" \in OfferPC /\ TypeInv'
    BY <1>1, <1>12 DEF PaidAccept, OfferPC
  <2>. QED  BY <1>0, <1>12, <2>6, <2>7, AdvanceType, OfferParts DEF PaidAccept
<1>13. CASE PaidApply(x)
  <2>1. bookings' \in [Bookings -> BookingRow]
    BY <1>0, <1>2, <1>13, SlotType DEF PaidApply, Apply
  <2>3. offers[act[x].o].booking \in Bookings
    BY <1>2, <1>13 DEF PaidApply
  <2>2. TypeInv'
    BY <1>0, <1>13, <2>1, <2>3, NoteMoveType DEF PaidApply, Apply, TypeInv, TypeOK
  <2>. QED  BY <1>0, <1>13, <2>2, SameOffers, FinishType, OfferParts DEF PaidApply
<1>. QED
  BY <1>5, <1>6, <1>7, <1>8, <1>9, <1>10, <1>11, <1>12, <1>13 DEF OfferHook

\* A stopped webhook's event is delivered again: it names the payment it was about.
LEMMA OfferStopsType == ASSUME OfferTypeInv, NEW x \in OfferProcs, OfferStops(x) PROVE OfferTypeInv'
<1>1. x \in OfferHooks => act[x].p \in Payments
  BY DEF OfferStops, OfferTypeInv, ActNamed, PaymentUsers
<1>2. events' \subseteq Event
  BY <1>1 DEF OfferStops, OfferTypeInv, TypeInv, TypeOK, Event, EventsOf, EventKind
<1>3. TypeInv'
  BY <1>2 DEF OfferStops, OfferTypeInv, TypeInv, TypeOK
<1>. QED
  BY <1>3, SameOffers, FinishType, OfferParts DEF OfferStops

\* Every step keeps the types.
LEMMA OfferTypeStep == ASSUME OfferTypeInv, [OfferNext]_allVars PROVE OfferTypeInv'
<1>1. ASSUME [Next]_vars, UNCHANGED offerVars PROVE OfferTypeInv'
  <2>1. TypeInv /\ TypeInv'
    BY <1>1, TypeStep DEF OfferTypeInv
  <2>. QED  BY <1>1, <2>1 DEF offerVars, OfferTypeInv, OfferTypeOK, TypeInv, OffersNamed
<1>. QED
  BY <1>1, SendType, AcceptType, DeclineType, OfferHookType, OfferStopsType
  DEF OfferNext, allVars, offerVars

\* No offer and no handler exists at first.
LEMMA OfferTypeInit == ASSUME OfferInit PROVE OfferTypeInv
<1>1. TypeInv
  BY TypeInit DEF OfferInit
<1>2. NoOffer \in OfferRow /\ NoOffer.status = "ABSENT" /\ NoOffer.tx = None
  BY DEF NoOffer, OfferRow, OfferStatus
<1>3. \A x \in OfferProcs : ActNamed(x, OfferIdle, offers)
  BY DEF ActNamed, OfferIdle, HookActPC, PaidPC, OfferUsers, TermsUsers, PaymentUsers
<1>. QED
  BY <1>1, <1>2, <1>3, OfferIdleType DEF OfferInit, OfferTypeInv, OfferTypeOK, TypeInv, OffersNamed

\* Every row, and every local of a handler that uses it, keeps its type, whatever the
\* handlers of offers and those of bookings do to each other's rows.
THEOREM OfferTypes == OfferSpec => []OfferTypeOK
<1>1. OfferTypeInv => OfferTypeOK
  BY DEF OfferTypeInv
<1>. QED
  BY <1>1, OfferTypeInit, OfferTypeStep, PTL DEF OfferSpec

-----------------------------------------------------------------------------
(* What the handlers of offers do to the transactions: the ledger's        *)
(* invariant, the abstract escrow and the owners of the rows all survive.  *)

OfferStep ==
    \/ \E x \in OfferRequests : Send(x) \/ Accept(x) \/ Decline(x)
    \/ \E x \in OfferHooks : OfferHook(x)
    \/ \E x \in OfferProcs : OfferStops(x)

\* The four ways in which they write a transaction row.
NewOfferRow(p) ==
    /\ payments[p].status = "none"
    /\ \E row : /\ payments' = [payments EXCEPT ![p] = row]
                /\ row.type = "custom_offer" /\ row.status = "pending" /\ row.intent = "open"
                /\ row.paid = 0 /\ row.refunded = FALSE /\ row.transfer = "none"

OfferWrites(p) ==
    \/ SetTx(p, "authorized")
    \/ SetTx(p, "succeeded") /\ EventsOf(p, "succeeded") \in events
    \/ NewOfferRow(p)
    \/ payments' = [payments EXCEPT ![p].secret = TRUE]

\* A step of these handlers writes one row in one of these ways, or none, and no
\* handler of a booking moves.
LEMMA OfferMoney ==
  ASSUME OfferTypeInv, OfferStep
  PROVE  /\ UNCHANGED <<proc, due>>
         /\ UNCHANGED payments \/ \E p \in Payments : OfferWrites(p)
<1> USE DEF Acting
<1>0. \A x \in OfferProcs : ActNamed(x, act[x], offers)
  BY DEF OfferTypeInv
<1>1. ASSUME NEW x \in OfferRequests, Send(x) \/ Decline(x)
      PROVE  UNCHANGED <<payments, proc, due>>
  BY <1>1 DEF Send, SendRead, SendCreate, Decline, DeclineRead, DeclineWrite, vars
<1>2. ASSUME NEW x \in OfferRequests, Accept(x)
      PROVE  /\ UNCHANGED <<proc, due>>
             /\ UNCHANGED payments \/ \E p \in Payments : OfferWrites(p)
  <2>1. CASE AcceptPay(x)
    <3>1. PICK p \in Payments : payments[p].status = "none" /\
            payments' = [payments EXCEPT ![p] =
                [NoPayment EXCEPT !.type = "custom_offer", !.booking = act[x].b,
                   !.amount = offers[act[x].o].due, !.status = "pending", !.intent = "open"]]
      BY <2>1 DEF AcceptPay
    <3> DEFINE row == [NoPayment EXCEPT !.type = "custom_offer", !.booking = act[x].b,
                         !.amount = offers[act[x].o].due, !.status = "pending", !.intent = "open"]
    <3>2. /\ row.type = "custom_offer" /\ row.status = "pending" /\ row.intent = "open"
          /\ row.paid = 0 /\ row.refunded = FALSE /\ row.transfer = "none"
      BY DEF NoPayment
    <3> HIDE DEF row
    <3>3. NewOfferRow(p)
      BY <3>1, <3>2 DEF NewOfferRow, row
    <3>. QED  BY <2>1, <3>3 DEF AcceptPay, OfferWrites
  <2>2. CASE AcceptLink(x)
    <3>1. act[x].p \in Payments
      BY <1>0, <2>2 DEF AcceptLink, ActNamed, PaymentUsers, OfferProcs
    <3>. QED  BY <2>2, <3>1 DEF AcceptLink, OfferWrites
  <2>. QED  BY <1>2, <2>1, <2>2 DEF Accept, AcceptRead, AcceptFree, AcceptApply, AcceptMark, vars
<1>3. ASSUME NEW x \in OfferHooks, OfferHook(x)
      PROVE  /\ UNCHANGED <<proc, due>>
             /\ UNCHANGED payments \/ \E p \in Payments : OfferWrites(p)
  <2>1. CASE CapturableTx(x)
    <3>1. act[x].p \in Payments
      BY <1>0, <2>1 DEF CapturableTx, ActNamed, PaymentUsers, HookActPC, OfferProcs
    <3>. QED  BY <2>1, <3>1 DEF CapturableTx, OfferWrites
  <2>2. ASSUME NEW p \in Payments, PaidUpdateTx(x, p)
        PROVE  UNCHANGED <<proc, due>> /\ OfferWrites(p)
    BY <2>2 DEF PaidUpdateTx, OfferDeliver, OfferWrites
  <2>. QED  BY <1>3, <2>1, <2>2 DEF OfferHook, CapturableFind, CapturableRead, CapturableAccept,
              CapturableLink, PaidFind, PaidAccept, PaidApply, vars
<1>4. ASSUME NEW x \in OfferProcs, OfferStops(x) PROVE UNCHANGED <<payments, proc, due>>
  BY <1>4 DEF OfferStops
<1>. QED
  BY <1>1, <1>2, <1>3, <1>4 DEF OfferStep

\* So rows stay true and keep their owners, money moves as the abstract specification
\* allows, and nothing is charged.
LEMMA OfferRows ==
  ASSUME OfferTypeInv, LedgerInv, OfferStep
  PROVE  RowsKept /\ EscrowStep /\ RowsOnward /\ NoneCharged
<1>0. TypeInv
  BY DEF OfferTypeInv
<1>1. CASE UNCHANGED payments
  BY <1>1, SameRows, EscrowUnchanged, OnwardSame DEF NoneCharged
<1>2. ASSUME NEW p \in Payments, SetTx(p, "authorized")
      PROVE  RowsKept /\ EscrowStep /\ RowsOnward /\ NoneCharged
  BY <1>0, <1>2, SetTxRows, EscrowSetTx, OnwardSetTx, NoneChargedBy DEF TxStatus
<1>3. ASSUME NEW p \in Payments, SetTx(p, "succeeded"), EventsOf(p, "succeeded") \in events
      PROVE  RowsKept /\ EscrowStep /\ RowsOnward /\ NoneCharged
  <2>1. payments[p].intent = "succeeded"
    BY <1>3 DEF LedgerInv, Told, Final, EventsOf
  <2>. QED  BY <1>0, <1>3, <2>1, SetTxRows, EscrowSetTx, OnwardSetTx, NoneChargedBy DEF TxStatus
<1>4. ASSUME NEW p \in Payments, NewOfferRow(p)
      PROVE  RowsKept /\ EscrowStep /\ RowsOnward /\ NoneCharged
  <2>1. PICK row : /\ payments' = [payments EXCEPT ![p] = row]
                   /\ row.status = "pending" /\ row.intent = "open"
                   /\ row.paid = 0 /\ row.refunded = FALSE
    BY <1>4 DEF NewOfferRow
  <2>. QED  BY <1>0, <1>4, <2>1, NewRow, EscrowOpens, OnwardNew, NoneChargedBy DEF NewOfferRow
<1>5. ASSUME NEW p \in Payments, payments' = [payments EXCEPT ![p].secret = TRUE]
      PROVE  RowsKept /\ EscrowStep /\ RowsOnward /\ NoneCharged
  <2>1. /\ \A o \in Payments \ {p} : payments'[o] = payments[o]
        /\ payments'[p].status = payments[p].status /\ payments'[p].intent = payments[p].intent
        /\ payments'[p].paid = payments[p].paid /\ payments'[p].refunded = payments[p].refunded
        /\ payments'[p].type = payments[p].type /\ payments'[p].booking = payments[p].booking
        /\ payments'[p].amount = payments[p].amount
    BY <1>0, <1>5 DEF TypeInv, TypeOK, PaymentRow
  <2>2. RowsKept
    BY <1>0, <2>1, PlainRow
  <2>. QED  BY <1>0, <1>5, <2>1, <2>2, EscrowSecret DEF RowsOnward, NoneCharged
<1>. QED
  BY <1>1, <1>2, <1>3, <1>4, <1>5, OfferMoney DEF OfferWrites

\* After the webhook has marked an offer's payment "succeeded" it has succeeded.
PaidInv ==
    \A x \in OfferProcs : act[x].pc \in PaidPC => payments[act[x].p].intent = "succeeded"

OfferLedgerInv == LedgerInv /\ PaidInv

\* The event a webhook about an offer handles.
ActKind(pc) == IF pc \in PaidPC THEN "succeeded" ELSE "capturable"

\* Before a succeeded payment is counted in the offer's paid_amount.
Counting == {"paid_find", "paid_accept"}

\* The event leaves the queue, unless Stripe repeats it, for this webhook alone.
Took(x, e) ==
    /\ e \in events /\ (~Redeliver => e \notin events')
    /\ \A y \in OfferProcs \ {x} : act'[y] = act[y]

\* A webhook starts with its event from Stripe's queue, and goes on with its payment.
LEMMA HookActs ==
  ASSUME OfferTypeInv, OfferStep, NEW x \in OfferProcs, act'[x].pc \in HookActPC
  PROVE  \/ /\ act[x].pc \in HookActPC /\ act'[x].p = act[x].p
            /\ ActKind(act'[x].pc) = ActKind(act[x].pc)
            /\ act'[x].pc \in Counting => act[x].pc \in Counting
         \/ Took(x, EventsOf(act'[x].p, ActKind(act'[x].pc)))
<1> USE DEF Acting
<1>0. act \in [OfferProcs -> OfferLocal]
  BY DEF OfferTypeInv, OfferTypeOK
<1> DEFINE Goal == \/ /\ act[x].pc \in HookActPC /\ act'[x].p = act[x].p
                      /\ ActKind(act'[x].pc) = ActKind(act[x].pc)
                      /\ act'[x].pc \in Counting => act[x].pc \in Counting
                   \/ Took(x, EventsOf(act'[x].p, ActKind(act'[x].pc)))
<1>1. ASSUME NEW y \in OfferProcs, NEW l, act' = [act EXCEPT ![y] = l], l.pc \notin HookActPC PROVE Goal
  BY <1>0, <1>1
<1>2. ASSUME NEW y \in OfferProcs, NEW pc, Advance(y, pc), pc \notin Counting,
             \/ pc \notin HookActPC
             \/ act[y].pc \in HookActPC /\ (pc \in PaidPC <=> act[y].pc \in PaidPC)
      PROVE  Goal
  BY <1>0, <1>2 DEF Advance, OfferLocal, ActKind
<1>3. OfferIdle.pc \notin HookActPC
  BY DEF OfferIdle, HookActPC, PaidPC
<1>4. ASSUME NEW y \in OfferProcs, Finish(y) PROVE Goal
  BY <1>1, <1>3, <1>4 DEF Finish
<1>5. ASSUME NEW y \in OfferRequests, Send(y) \/ Accept(y) \/ Decline(y) PROVE Goal
  <2>0. y \in OfferProcs
    BY DEF OfferProcs
  <2>1. ASSUME NEW b \in Bookings, SendRead(y, b) PROVE Goal
    <3> DEFINE l == [OfferIdle EXCEPT !.pc = "send_create", !.b = b, !.p = bookings[b].tx]
    <3>1. l.pc \notin HookActPC /\ act' = [act EXCEPT ![y] = l]
      BY <2>1 DEF SendRead, Begin, OfferIdle, HookActPC, PaidPC
    <3> HIDE DEF l
    <3>. QED  BY <1>1, <2>0, <3>1
  <2>2. ASSUME NEW o \in Offers, AcceptRead(y, o) PROVE Goal
    <3>1. PICK pc \in {"accept_free", "accept_pay"} :
            act' = [act EXCEPT ![y] = [OfferIdle EXCEPT !.o = o, !.b = offers[o].booking, !.pc = pc]]
      BY <2>2 DEF AcceptRead, Begin
    <3> DEFINE l == [OfferIdle EXCEPT !.o = o, !.b = offers[o].booking, !.pc = pc]
    <3>2. l.pc \notin HookActPC /\ act' = [act EXCEPT ![y] = l]
      BY <3>1 DEF OfferIdle, HookActPC, PaidPC
    <3> HIDE DEF l
    <3>. QED  BY <1>1, <2>0, <3>2
  <2>3. CASE AcceptPay(y)
    <3>1. PICK p \in Payments : act' = [act EXCEPT ![y] = [@ EXCEPT !.pc = "accept_mark", !.p = p]]
      BY <2>3 DEF AcceptPay
    <3> DEFINE l == [act[y] EXCEPT !.pc = "accept_mark", !.p = p]
    <3>2. l.pc \notin HookActPC /\ act' = [act EXCEPT ![y] = l]
      BY <1>0, <2>0, <3>1 DEF OfferLocal, HookActPC, PaidPC
    <3> HIDE DEF l
    <3>. QED  BY <1>1, <2>0, <3>2
  <2>4. ASSUME NEW o \in Offers, DeclineRead(y, o) PROVE Goal
    <3> DEFINE l == [OfferIdle EXCEPT !.pc = "decline_write", !.o = o]
    <3>1. l.pc \notin HookActPC /\ act' = [act EXCEPT ![y] = l]
      BY <2>4 DEF DeclineRead, Begin, OfferIdle, HookActPC, PaidPC
    <3> HIDE DEF l
    <3>. QED  BY <1>1, <2>0, <3>1
  <2>5. {"accept_apply", "accept_link"} \cap (HookActPC \cup Counting) = {}
    BY DEF HookActPC, PaidPC, Counting
  <2>. QED  BY <1>2, <1>4, <1>5, <2>0, <2>1, <2>2, <2>3, <2>4, <2>5 DEF Send, SendCreate, Accept,
              AcceptFree, AcceptApply, AcceptMark, AcceptLink, Decline, DeclineWrite
<1>6. ASSUME NEW y \in OfferHooks, OfferHook(y) PROVE Goal
  <2>0. y \in OfferProcs
    BY DEF OfferProcs
  <2>1. ASSUME NEW p \in Payments, CapturableFind(y, p) PROVE Goal
    <3>1. PICK o \in OffersOf(p), pc \in {"capturable_tx", "capturable_read"} :
            act' = [act EXCEPT ![y] = [OfferIdle EXCEPT !.p = p, !.o = o, !.pc = pc]]
      BY <2>1 DEF CapturableFind, Begin
    <3>2. /\ act'[y].p = p /\ ActKind(act'[y].pc) = "capturable"
          /\ \A z \in OfferProcs \ {y} : act'[z] = act[z]
      BY <1>0, <2>0, <3>1 DEF OfferIdle, ActKind, PaidPC
    <3>3. Took(y, EventsOf(p, "capturable"))
      BY <2>1, <3>2 DEF CapturableFind, OfferDeliver, Took
    <3>. QED  BY <3>2, <3>3
  <2>2. CASE CapturableRead(y)
    <3>1. PICK b, confirmed : act' = [act EXCEPT ![y] =
            [@ EXCEPT !.pc = "capturable_accept", !.b = b, !.confirmed = confirmed]]
      BY <2>2 DEF CapturableRead
    <3>2. /\ act'[y].p = act[y].p /\ ActKind(act'[y].pc) = "capturable" /\ act'[y].pc \notin Counting
          /\ \A z \in OfferProcs \ {y} : act'[z] = act[z]
      BY <1>0, <2>0, <3>1 DEF OfferLocal, ActKind, PaidPC, Counting
    <3>3. act[y].pc \in HookActPC /\ ActKind(act[y].pc) = "capturable"
      BY <2>2 DEF CapturableRead, HookActPC, ActKind, PaidPC
    <3>. QED  BY <3>2, <3>3
  <2>3. ASSUME NEW p \in Payments, PaidUpdateTx(y, p) PROVE Goal
    <3>1. act'[y].p = p /\ ActKind(act'[y].pc) = "succeeded"
      BY <1>0, <2>0, <2>3 DEF PaidUpdateTx, Begin, OfferIdle, ActKind, PaidPC
    <3>2. \A z \in OfferProcs \ {y} : act'[z] = act[z]
      BY <1>0, <2>3 DEF PaidUpdateTx, Begin
    <3>3. Took(y, EventsOf(p, "succeeded"))
      BY <2>3, <3>2 DEF PaidUpdateTx, OfferDeliver, Took
    <3>. QED  BY <3>1, <3>2, <3>3
  <2>4. CASE PaidFind(y)
    <3>1. ASSUME NEW o, NEW paid, act' = [act EXCEPT ![y] =
                    [@ EXCEPT !.pc = "paid_accept", !.o = o, !.paid = paid]]
          PROVE  Goal
      <4>1. /\ act'[y].p = act[y].p /\ ActKind(act'[y].pc) = "succeeded"
            /\ \A z \in OfferProcs \ {y} : act'[z] = act[z]
        BY <1>0, <2>0, <3>1 DEF OfferLocal, ActKind, PaidPC
      <4>2. act[y].pc \in HookActPC \cap Counting /\ ActKind(act[y].pc) = "succeeded"
        BY <2>4 DEF PaidFind, HookActPC, ActKind, PaidPC, Counting
      <4>. QED  BY <4>1, <4>2
    <3>. QED  BY <1>4, <2>0, <2>4, <3>1 DEF PaidFind
  <2>5. /\ {"capturable_link", "capturable_tx"} \cap PaidPC = {}
        /\ {"capturable_accept", "capturable_link"} \cap PaidPC = {}
        /\ {"capturable_accept", "capturable_link", "paid_accept"} \subseteq HookActPC
        /\ {"paid_accept", "paid_apply"} \subseteq PaidPC
        /\ {"capturable_accept", "capturable_link", "capturable_tx", "paid_apply"} \cap Counting = {}
    BY DEF PaidPC, HookActPC, Counting
  <2>. QED  BY <1>2, <1>4, <1>6, <2>0, <2>1, <2>2, <2>3, <2>4, <2>5 DEF OfferHook, CapturableAccept,
              CapturableLink, CapturableTx, PaidAccept, PaidApply
<1>7. ASSUME NEW y \in OfferProcs, OfferStops(y) PROVE Goal
  BY <1>4, <1>7 DEF OfferStops
<1>. QED
  BY <1>5, <1>6, <1>7 DEF OfferStep

\* So the awaits after the payment was marked are reached with the event of its success.
LEMMA PaidActs ==
  ASSUME OfferTypeInv, OfferStep, NEW x \in OfferProcs, act'[x].pc \in PaidPC
  PROVE  \/ act[x].pc \in PaidPC /\ act'[x].p = act[x].p
         \/ EventsOf(act'[x].p, "succeeded") \in events
<1>1. act'[x].pc \in HookActPC /\ ActKind(act'[x].pc) = "succeeded"
  BY DEF HookActPC, ActKind
<1>2. ActKind(act[x].pc) = "succeeded" => act[x].pc \in PaidPC
  BY DEF ActKind
<1>. QED
  BY <1>1, <1>2, HookActs DEF Took

\* Events come from Stripe's queue; only a stopped webhook puts its own back.
LEMMA OfferEvents ==
  ASSUME OfferTypeInv, OfferStep, NEW e \in events', e \notin events
  PROVE  \E x \in OfferHooks :
           /\ act[x].pc \in HookActPC
           /\ e = EventsOf(act[x].p, ActKind(act[x].pc))
<1>1. ASSUME NEW x \in OfferRequests, Send(x) \/ Accept(x) \/ Decline(x) PROVE UNCHANGED events
  BY <1>1 DEF Send, SendRead, SendCreate, Accept, AcceptRead, AcceptFree, AcceptApply, AcceptPay,
       AcceptMark, AcceptLink, Decline, DeclineRead, DeclineWrite, vars
<1>2. ASSUME NEW x \in OfferHooks, OfferHook(x) PROVE events' \subseteq events
  BY <1>2 DEF OfferHook, CapturableFind, PaidUpdateTx, OfferDeliver, CapturableRead,
       CapturableAccept, CapturableLink, CapturableTx, PaidFind, PaidAccept, PaidApply, vars
<1>3. PICK x \in OfferProcs : OfferStops(x)
  BY <1>1, <1>2 DEF OfferStep
<1>4. x \in OfferHooks /\ act[x].pc # "idle"
  BY <1>3 DEF OfferStops
<1>5. act[x].pc \in HookActPC
  BY <1>4 DEF OfferTypeInv, ActNamed
<1>. QED
  BY <1>3, <1>4, <1>5 DEF OfferStops, ActKind

\* The invariant of the ledger survives the steps of these handlers, and that of the
\* paid awaits every step.
LEMMA OfferLedgerNext ==
  ASSUME OfferTypeInv, OfferLedgerInv, [OfferNext]_allVars
  PROVE  OfferLedgerInv' /\ EscrowStep /\ RowsOnward
<1>0. TypeInv /\ LedgerInv /\ PaidInv
  BY DEF OfferTypeInv, OfferLedgerInv
<1>1. \A x \in OfferProcs : act[x].pc \in PaidPC => act[x].p \in Payments
  BY DEF OfferTypeInv, ActNamed, PaymentUsers, HookActPC
<1>2. CASE [Next]_vars /\ UNCHANGED offerVars
  <2>1. LedgerInv' /\ EscrowStep /\ RowsOnward
    BY <1>0, <1>2, LedgerNext, EscrowNext, OnwardNext
  <2>2. PaidInv'
    BY <1>0, <1>1, <1>2, <2>1, EscrowOnward DEF PaidInv, offerVars, Final
  <2>. QED  BY <2>1, <2>2 DEF OfferLedgerInv
<1>3. CASE OfferStep
  <2>1. RowsKept /\ EscrowStep /\ RowsOnward
    BY <1>0, <1>3, OfferRows
  <2>2. \A e \in events' : e \in events \/ Told(e.kind, e.p)'
    <3>1. SUFFICES ASSUME NEW e \in events', e \notin events PROVE Told(e.kind, e.p)'
      OBVIOUS
    <3>2. PICK x \in OfferHooks : act[x].pc \in HookActPC /\ e = EventsOf(act[x].p, ActKind(act[x].pc))
      BY <1>3, <3>1, OfferEvents
    <3>3. CASE act[x].pc \in PaidPC
      <4>1. x \in OfferProcs
        BY DEF OfferProcs
      <4>2. payments'[act[x].p].intent = "succeeded"
        BY <1>0, <1>1, <3>3, <4>1, <2>1, EscrowOnward DEF PaidInv, Final
      <4>. QED  BY <3>2, <3>3, <4>2 DEF EventsOf, Told, ActKind
    <3>. QED  BY <3>2, <3>3 DEF EventsOf, Told, Final, ActKind
  <2>3. Cron \in Procs /\ UNCHANGED proc
    BY <1>3, OfferMoney DEF Procs
  <2>4. LedgerInv'
    BY <1>0, <2>1, <2>2, <2>3, StepKeeps
  <2>5. ASSUME NEW x \in OfferProcs, act'[x].pc \in PaidPC
        PROVE  payments'[act'[x].p].intent = "succeeded"
    <3>1. CASE act[x].pc \in PaidPC /\ act'[x].p = act[x].p
      BY <1>0, <1>1, <2>1, <3>1, EscrowOnward DEF PaidInv, Final
    <3>2. CASE EventsOf(act'[x].p, "succeeded") \in events
      <4>1. PICK p \in Payments : p = act'[x].p
        BY <1>0, <3>2 DEF TypeInv, TypeOK, Event, EventsOf
      <4>2. payments[p].intent = "succeeded"
        BY <1>0, <3>2, <4>1 DEF LedgerInv, Told, Final, EventsOf
      <4>. QED  BY <2>1, <4>1, <4>2, EscrowOnward DEF Final
    <3>. QED  BY <1>3, <2>5, <3>1, <3>2, PaidActs
  <2>. QED  BY <2>1, <2>4, <2>5 DEF OfferLedgerInv, PaidInv
<1>4. [OfferNext]_allVars => OfferStep \/ ([Next]_vars /\ UNCHANGED offerVars)
  BY DEF OfferNext, OfferStep, allVars, offerVars
<1>. QED
  BY <1>2, <1>3, <1>4

\* The invariant holds in every behaviour, with offers as without.
LEMMA OfferLedgerInvariant == OfferSpec => [](OfferTypeInv /\ OfferLedgerInv)
<1>1. OfferInit => OfferTypeInv /\ OfferLedgerInv
  <2>. SUFFICES ASSUME OfferInit PROVE OfferTypeInv /\ OfferLedgerInv
    OBVIOUS
  <2>1. \A x \in OfferProcs : act[x].pc \notin PaidPC
    BY DEF OfferInit, OfferIdle, PaidPC
  <2>. QED  BY <2>1, OfferTypeInit, LedgerStarts DEF OfferInit, OfferLedgerInv, PaidInv
<1>2. OfferTypeInv /\ OfferLedgerInv /\ [OfferNext]_allVars => (OfferTypeInv /\ OfferLedgerInv)'
  BY OfferTypeStep, OfferLedgerNext
<1>. QED
  BY <1>1, <1>2, PTL DEF OfferSpec

\* With offers too, only captured payments are paid out or refunded, and the final
\* statuses of transaction rows are facts at Stripe.
THEOREM OffersKeepTheLedger == OfferSpec => [](TransfersBacked /\ LedgerTellsTruth)
<1>1. OfferLedgerInv => TransfersBacked /\ LedgerTellsTruth
  BY DEF OfferLedgerInv, LedgerInv, RowTrue, TransfersBacked, LedgerTellsTruth
<1>. QED
  BY <1>1, OfferLedgerInvariant, PTL

\* The handlers of offers and of bookings together move money as Escrow says: the
\* composition implements the same abstract specification.
THEOREM OffersImplementEscrow == OfferSpec => ImplementsEscrow
<1>1. OfferInit => EscrowOfPayments!Init
  BY EscrowStarts DEF OfferInit
<1>2. OfferTypeInv /\ OfferLedgerInv /\ [OfferNext]_allVars => EscrowStep
  BY OfferLedgerNext
<1>. QED
  BY <1>1, <1>2, OfferLedgerInvariant, PTL
  DEF OfferSpec, ImplementsEscrow, EscrowOfPayments!Spec, EscrowStep

-----------------------------------------------------------------------------
(* An offer names the transaction made for its booking, and so does the    *)
(* booking that links it: an offer's payment is captured with its own      *)
(* booking's.                                                              *)

OfferHolders == {"accept_mark", "accept_link", "capturable_read", "capturable_accept",
                 "capturable_link"}

\* What a handler will link to an offer or to its booking.
OfferHolding(l) ==
    l.pc \in OfferHolders => Own(l.p, "custom_offer", offers[l.o].booking)

OfferLinkInv ==
    /\ LinkInv
    /\ \A o \in Offers : OwnOrNone(offers[o].tx, "custom_offer", offers[o].booking)
    /\ \A x \in OfferProcs : OfferHolding(act[x])

\* What was made for an offer's booking before a step is so after it.
LEMMA OfferOwnKept ==
  ASSUME OfferTypeInv, OffersKept, RowsOnward, NEW o \in Offers, offers[o].status # "ABSENT",
         NEW p \in Payments, Own(p, "custom_offer", offers[o].booking)
  PROVE  Own(p, "custom_offer", offers[o].booking)'
  BY DEF OffersKept, RowsOnward, Own

\* A step of one handler keeps the links when those it writes, and those it holds
\* afterwards, are its offer's.
LEMMA OfferStepLinks ==
  ASSUME OfferTypeInv, OfferLinkInv, OffersKept, RowsOnward, UNCHANGED proc,
         NEW x \in OfferProcs, \A y \in OfferProcs \ {x} : act'[y] = act[y],
         OfferHolding(act[x])',
         \A o \in Offers : \/ offers'[o].tx = offers[o].tx
                           \/ OwnOrNone(offers[o].tx, "custom_offer", offers[o].booking)',
         \A b \in Bookings : /\ bookings'[b].tx = bookings[b].tx
                             /\ \/ bookings'[b].offerTx = bookings[b].offerTx
                                \/ OwnOrNone(bookings[b].offerTx, "custom_offer", b)'
  PROVE  OfferLinkInv'
<1>1. LinkInv'
  <2>1. Cron \in Procs /\ TypeInv /\ LinkInv
    BY DEF Procs, OfferTypeInv, OfferLinkInv
  <2>. QED  BY <2>1, StepLinks
<1>2. ASSUME NEW o \in Offers
      PROVE  OwnOrNone(offers[o].tx, "custom_offer", offers[o].booking)'
  <2>1. CASE offers'[o].tx = offers[o].tx /\ offers[o].tx # None
    <3>1. offers[o].status # "ABSENT" /\ offers[o].tx \in Payments
      BY <2>1 DEF OfferTypeInv, OfferTypeOK, OfferRow, OffersNamed
    <3>2. Own(offers[o].tx, "custom_offer", offers[o].booking)
      BY <2>1 DEF OfferLinkInv, OwnOrNone
    <3>3. offers'[o].booking = offers[o].booking
      BY <3>1 DEF OffersKept
    <3>. QED  BY <2>1, <3>1, <3>2, <3>3 DEF RowsOnward, Own, OwnOrNone
  <2>2. CASE offers'[o].tx = None
    BY <2>2 DEF OwnOrNone
  <2>. QED  BY <2>1, <2>2
<1>3. ASSUME NEW y \in OfferProcs \ {x} PROVE OfferHolding(act[y])'
  <2>1. act'[y] = act[y] /\ OfferHolding(act[y])
    BY DEF OfferLinkInv
  <2>2. CASE act[y].pc \in OfferHolders
    <3>1. /\ act[y].o \in Offers /\ offers[act[y].o].status # "ABSENT" /\ act[y].p \in Payments
      BY <2>2 DEF OfferHolders, OfferTypeInv, ActNamed, OfferUsers, PaymentUsers, HookActPC
    <3>2. offers'[act[y].o].booking = offers[act[y].o].booking
      BY <3>1 DEF OffersKept
    <3>. QED  BY <2>1, <2>2, <3>1, <3>2 DEF OfferHolding, RowsOnward, Own
  <2>. QED  BY <2>1, <2>2 DEF OfferHolding
<1>. QED
  BY <1>1, <1>2, <1>3 DEF OfferLinkInv

\* Steps of the table of offers, seen as a whole, keep the rows.
LEMMA OffersKeptNext == ASSUME OfferTypeInv, [OfferNext]_allVars PROVE OffersKept
<1>0. OfferTypeInv'
  BY OfferTypeStep
<1>1. CASE UNCHANGED offers
  BY <1>1, SameOffers
<1>2. ASSUME NEW o, o \in Offers => offers[o].status # "ABSENT", NEW row, row.status # "ABSENT",
             o \in Offers => row.booking = offers[o].booking, offers' = [offers EXCEPT ![o] = row]
      PROVE  OffersKept
  BY <1>0, <1>2 DEF OfferTypeInv, OfferTypeOK, OffersKept
<1>3. ASSUME NEW x \in OfferProcs, act[x].pc \in OfferUsers,
             NEW row, offers' = [offers EXCEPT ![act[x].o] = row], row.status # "ABSENT",
             row.booking = offers[act[x].o].booking
      PROVE  OffersKept
  BY <1>2, <1>3 DEF OfferTypeInv, ActNamed
<1>4. \A x \in OfferProcs : act[x].pc \in OfferUsers => offers[act[x].o] \in OfferRow
  BY DEF OfferTypeInv, OfferTypeOK, ActNamed
<1>5. ASSUME NEW x \in OfferProcs, act[x].pc \in OfferUsers,
             \/ AcceptFree(x) \/ AcceptMark(x) \/ DeclineWrite(x) \/ CapturableAccept(x)
             \/ PaidAccept(x)
      PROVE  OffersKept
  <2>1. CASE AcceptFree(x)
    <3> DEFINE row == [offers[act[x].o] EXCEPT !.status = "ACCEPTED", !.due = 0]
    <3>1. row.status # "ABSENT" /\ row.booking = offers[act[x].o].booking
      BY <1>4, <1>5 DEF OfferRow
    <3>2. offers' = [offers EXCEPT ![act[x].o] = row]
      BY <2>1 DEF AcceptFree
    <3> HIDE DEF row
    <3>. QED  BY <1>3, <1>5, <3>1, <3>2
  <2>2. CASE AcceptMark(x)
    <3> DEFINE row == [offers[act[x].o] EXCEPT !.status = "PAYMENT_PENDING", !.tx = act[x].p]
    <3>1. row.status # "ABSENT" /\ row.booking = offers[act[x].o].booking
      BY <1>4, <1>5 DEF OfferRow
    <3>2. offers' = [offers EXCEPT ![act[x].o] = row]
      BY <2>2 DEF AcceptMark
    <3> HIDE DEF row
    <3>. QED  BY <1>3, <1>5, <3>1, <3>2
  <2>3. CASE DeclineWrite(x)
    <3> DEFINE row == [offers[act[x].o] EXCEPT !.status = "DECLINED"]
    <3>1. row.status # "ABSENT" /\ row.booking = offers[act[x].o].booking
      BY <1>4, <1>5 DEF OfferRow
    <3>2. offers' = [offers EXCEPT ![act[x].o] = row]
      BY <2>3 DEF DeclineWrite
    <3> HIDE DEF row
    <3>. QED  BY <1>3, <1>5, <3>1, <3>2
  <2>4. CASE CapturableAccept(x)
    <3> DEFINE row == [offers[act[x].o] EXCEPT !.status = "ACCEPTED"]
    <3>1. row.status # "ABSENT" /\ row.booking = offers[act[x].o].booking
      BY <1>4, <1>5 DEF OfferRow
    <3>2. offers' = [offers EXCEPT ![act[x].o] = row]
      BY <2>4 DEF CapturableAccept
    <3> HIDE DEF row
    <3>. QED  BY <1>3, <1>5, <3>1, <3>2
  <2>5. CASE PaidAccept(x)
    <3> DEFINE row == [offers[act[x].o] EXCEPT !.status = "ACCEPTED", !.due = 0,
                                   !.paid = act[x].paid + payments[act[x].p].amount]
    <3>1. row.status # "ABSENT" /\ row.booking = offers[act[x].o].booking
      BY <1>4, <1>5 DEF OfferRow
    <3>2. offers' = [offers EXCEPT ![act[x].o] = row]
      BY <2>5 DEF PaidAccept
    <3> HIDE DEF row
    <3>. QED  BY <1>3, <1>5, <3>1, <3>2
  <2>. QED  BY <1>5, <2>1, <2>2, <2>3, <2>4, <2>5
<1>6. ASSUME NEW x \in OfferRequests, Send(x) PROVE OffersKept
  <2>1. ASSUME NEW o \in Offers, offers[o].status = "ABSENT", NEW row,
               offers' = [offers EXCEPT ![o] = row]
        PROVE  OffersKept
    BY <1>0, <2>1 DEF OfferTypeInv, OfferTypeOK, OffersKept
  <2>. QED  BY <1>1, <1>6, <2>1 DEF Send, SendRead, SendCreate
<1>. QED
  BY <1>1, <1>5, <1>6 DEF OfferNext, Accept, AcceptRead, AcceptFree, AcceptApply, AcceptPay, AcceptMark,
     AcceptLink, Decline, DeclineRead, DeclineWrite, OfferHook, CapturableFind, CapturableRead,
     CapturableAccept, CapturableLink, CapturableTx, PaidUpdateTx, PaidFind, PaidAccept, PaidApply,
     OfferStops, allVars, offerVars, Acting, OfferUsers, OfferProcs

\* The steps of a request about an offer,
LEMMA AnswerLinks ==
  ASSUME OfferTypeInv, OfferLinkInv, OffersKept, RowsOnward, NEW x \in OfferRequests,
         Send(x) \/ Accept(x) \/ Decline(x)
  PROVE  OfferLinkInv'
<1> USE DEF Acting
<1>0. /\ x \in OfferProcs /\ act \in [OfferProcs -> OfferLocal] /\ ActNamed(x, act[x], offers)
      /\ OfferHolding(act[x]) /\ TypeInv
      /\ offers \in [Offers -> OfferRow]
  BY DEF OfferProcs, OfferTypeInv, OfferTypeOK, OfferLinkInv
<1>1. act[x].pc \in OfferUsers => act[x].o \in Offers /\ offers[act[x].o].status # "ABSENT"
  BY <1>0 DEF ActNamed
<1>2. ASSUME NEW l, act' = [act EXCEPT ![x] = l], UNCHANGED proc, OfferHolding(act[x])',
             \A o \in Offers : \/ offers'[o].tx = offers[o].tx
                               \/ OwnOrNone(offers[o].tx, "custom_offer", offers[o].booking)',
             \A b \in Bookings : /\ bookings'[b].tx = bookings[b].tx
                                 /\ \/ bookings'[b].offerTx = bookings[b].offerTx
                                    \/ OwnOrNone(bookings[b].offerTx, "custom_offer", b)'
      PROVE  OfferLinkInv'
  BY <1>0, <1>2, OfferStepLinks
<1>3. ASSUME NEW l, act' = [act EXCEPT ![x] = l], l.pc \notin OfferHolders, UNCHANGED proc,
             \A o \in Offers : offers'[o].tx = offers[o].tx \/ offers'[o].tx = None,
             \A b \in Bookings : bookings'[b].tx = bookings[b].tx /\ bookings'[b].offerTx = bookings[b].offerTx
      PROVE  OfferLinkInv'
  <2>1. act'[x] = l
    BY <1>0, <1>3
  <2>2. OfferHolding(act[x])'
    BY <1>3, <2>1 DEF OfferHolding
  <2>. QED  BY <1>2, <1>3, <2>2 DEF OwnOrNone
<1>4. OfferIdle.pc \notin OfferHolders
  BY DEF OfferIdle, OfferHolders
<1>5. CASE Send(x)
  <2>1. ASSUME NEW b \in Bookings, SendRead(x, b) PROVE OfferLinkInv'
    <3> DEFINE l == [OfferIdle EXCEPT !.pc = "send_create", !.b = b, !.p = bookings[b].tx]
    <3>1. l.pc \notin OfferHolders /\ act' = [act EXCEPT ![x] = l]
      BY <2>1 DEF SendRead, Begin, OfferIdle, OfferHolders
    <3> HIDE DEF l
    <3>. QED  BY <1>3, <2>1, <3>1 DEF SendRead, vars
  <2>2. ASSUME NEW total \in Totals, NEW s \in Slots, SendCreate(x, total, s) PROVE OfferLinkInv'
    <3>1. PICK o \in Offers : \E paid : offers' = [offers EXCEPT ![o] =
             [status |-> "PENDING", booking |-> act[x].b, slot |-> s, total |-> total,
              paid |-> paid, due |-> DueOf(total, paid), tx |-> None]]
      BY <2>2 DEF SendCreate
    <3>2. \A q \in Offers : offers'[q].tx = offers[q].tx \/ offers'[q].tx = None
      BY <1>0, <3>1
    <3>. QED  BY <1>3, <1>4, <2>2, <3>2 DEF SendCreate, Finish, vars
  <2>. QED  BY <1>5, <2>1, <2>2 DEF Send
<1>6. ASSUME NEW o \in Offers, AcceptRead(x, o) PROVE OfferLinkInv'
  <2>1. PICK pc \in {"accept_free", "accept_pay"} :
          act' = [act EXCEPT ![x] = [OfferIdle EXCEPT !.o = o, !.b = offers[o].booking, !.pc = pc]]
    BY <1>6 DEF AcceptRead, Begin
  <2> DEFINE l == [OfferIdle EXCEPT !.o = o, !.b = offers[o].booking, !.pc = pc]
  <2>2. l.pc \notin OfferHolders /\ act' = [act EXCEPT ![x] = l]
    BY <2>1 DEF OfferIdle, OfferHolders
  <2> HIDE DEF l
  <2>. QED  BY <1>3, <1>6, <2>2 DEF AcceptRead, vars
<1>7. CASE AcceptFree(x)
  <2> DEFINE l == [act[x] EXCEPT !.pc = "accept_apply"]
  <2>1. l.pc \notin OfferHolders /\ act' = [act EXCEPT ![x] = l]
    BY <1>0, <1>7 DEF AcceptFree, Advance, OfferLocal, OfferHolders
  <2> HIDE DEF l
  <2>2. \A q \in Offers : offers'[q].tx = offers[q].tx
    BY <1>0, <1>7 DEF AcceptFree, OfferRow
  <2>. QED  BY <1>3, <1>7, <2>1, <2>2 DEF AcceptFree, vars
<1>8. CASE AcceptApply(x)
  <2>1. \A b \in Bookings : bookings'[b].tx = bookings[b].tx /\ bookings'[b].offerTx = bookings[b].offerTx
    BY <1>0, <1>8 DEF AcceptApply, Apply, TypeInv, TypeOK, BookingRow
  <2>. QED  BY <1>3, <1>4, <1>8, <2>1 DEF AcceptApply, Finish
<1>9. CASE AcceptPay(x)
  <2>1. PICK p \in Payments :
          /\ payments' = [payments EXCEPT ![p] =
                [NoPayment EXCEPT !.type = "custom_offer", !.booking = act[x].b,
                   !.amount = offers[act[x].o].due, !.status = "pending", !.intent = "open"]]
          /\ act' = [act EXCEPT ![x] = [@ EXCEPT !.pc = "accept_mark", !.p = p]]
    BY <1>9 DEF AcceptPay
  <2>2. /\ payments'[p].status = "pending" /\ payments'[p].type = "custom_offer"
        /\ payments'[p].booking = act[x].b
    BY <1>0, <2>1 DEF NoPayment, TypeInv, TypeOK
  <2>3. act'[x].p = p /\ act'[x].o = act[x].o
    BY <1>0, <2>1 DEF OfferLocal
  <2>4. act[x].b = offers[act[x].o].booking
    BY <1>0, <1>9 DEF AcceptPay, ActNamed, TermsUsers
  <2>5. OfferHolding(act[x])'
    BY <1>9, <2>2, <2>3, <2>4 DEF AcceptPay, OfferHolding, Own
  <2>. QED  BY <1>2, <1>9, <2>1, <2>5 DEF AcceptPay
<1>10. CASE AcceptMark(x)
  <2>0. /\ act[x].o \in Offers /\ offers[act[x].o].status # "ABSENT" /\ act[x].p \in Payments
        /\ Own(act[x].p, "custom_offer", offers[act[x].o].booking)
    BY <1>0, <1>10 DEF AcceptMark, ActNamed, OfferUsers, PaymentUsers, OfferHolding, OfferHolders
  <2>1. PICK o \in Offers, p \in Payments : o = act[x].o /\ p = act[x].p
    BY <2>0
  <2>2. Own(p, "custom_offer", offers[o].booking)'
    BY <2>0, <2>1, OfferOwnKept
  <2>3. /\ offers'[o].tx = p
        /\ \A q \in Offers \ {o} : offers'[q].tx = offers[q].tx
    BY <1>0, <1>10, <2>1 DEF AcceptMark, OfferRow
  <2>4. act'[x].o = o /\ act'[x].p = p
    BY <1>0, <1>10, <2>1 DEF AcceptMark, Advance, OfferLocal
  <2>5. OfferHolding(act[x])'
    BY <2>2, <2>4 DEF OfferHolding, Own
  <2>6. OwnOrNone(offers[o].tx, "custom_offer", offers[o].booking)'
    BY <2>2, <2>3 DEF OwnOrNone, Own
  <2>. QED  BY <1>2, <1>10, <2>3, <2>5, <2>6 DEF AcceptMark, Advance, vars
<1>11. CASE AcceptLink(x)
  <2>0. /\ act[x].o \in Offers /\ offers[act[x].o].status # "ABSENT" /\ act[x].p \in Payments
        /\ act[x].b = offers[act[x].o].booking
        /\ Own(act[x].p, "custom_offer", offers[act[x].o].booking)
    BY <1>0, <1>11 DEF AcceptLink, ActNamed, OfferUsers, TermsUsers, PaymentUsers, OfferHolding, OfferHolders
  <2>1. PICK o \in Offers, p \in Payments : o = act[x].o /\ p = act[x].p
    BY <2>0
  <2>2. Own(p, "custom_offer", offers[o].booking)' /\ offers'[o].booking = offers[o].booking
    BY <2>0, <2>1, OfferOwnKept DEF OffersKept
  <2>3. \A c \in Bookings : /\ bookings'[c].tx = bookings[c].tx
                            /\ \/ bookings'[c].offerTx = bookings[c].offerTx
                               \/ bookings'[c].offerTx = p /\ c = offers[o].booking
    BY <1>0, <1>11, <2>0, <2>1 DEF AcceptLink, TypeInv, TypeOK, BookingRow
  <2>4. \A c \in Bookings : \/ bookings'[c].offerTx = bookings[c].offerTx
                            \/ OwnOrNone(bookings[c].offerTx, "custom_offer", c)'
    BY <2>2, <2>3 DEF OwnOrNone, Own
  <2>5. OfferHolding(act[x])'
    BY <1>0, <1>4, <1>11 DEF AcceptLink, Finish, OfferHolding
  <2>. QED  BY <1>2, <1>11, <2>3, <2>4, <2>5 DEF AcceptLink, Finish
<1>12. CASE Decline(x)
  <2>1. ASSUME NEW o \in Offers, DeclineRead(x, o) PROVE OfferLinkInv'
    <3> DEFINE l == [OfferIdle EXCEPT !.pc = "decline_write", !.o = o]
    <3>1. l.pc \notin OfferHolders /\ act' = [act EXCEPT ![x] = l]
      BY <2>1 DEF DeclineRead, Begin, OfferIdle, OfferHolders
    <3> HIDE DEF l
    <3>. QED  BY <1>3, <2>1, <3>1 DEF DeclineRead, vars
  <2>2. CASE DeclineWrite(x)
    <3>1. \A q \in Offers : offers'[q].tx = offers[q].tx
      BY <1>0, <2>2 DEF DeclineWrite, OfferRow
    <3>. QED  BY <1>3, <1>4, <2>2, <3>1 DEF DeclineWrite, Finish, vars
  <2>. QED  BY <1>12, <2>1, <2>2 DEF Decline
<1>. QED
  BY <1>5, <1>6, <1>7, <1>8, <1>9, <1>10, <1>11, <1>12 DEF Accept

\* of the webhook about one,
LEMMA OfferHookLinks ==
  ASSUME OfferTypeInv, OfferLinkInv, OffersKept, RowsOnward, NEW x \in OfferHooks, OfferHook(x)
  PROVE  OfferLinkInv'
<1> USE DEF Acting
<1>0. /\ x \in OfferProcs /\ act \in [OfferProcs -> OfferLocal] /\ ActNamed(x, act[x], offers)
      /\ OfferHolding(act[x]) /\ TypeInv
      /\ offers \in [Offers -> OfferRow]
  BY DEF OfferProcs, OfferTypeInv, OfferTypeOK, OfferLinkInv
<1>1. UNCHANGED proc
  BY DEF OfferHook, CapturableFind, CapturableRead, CapturableAccept, CapturableLink, CapturableTx,
         PaidUpdateTx, PaidFind, PaidAccept, PaidApply, vars
<1>2. ASSUME NEW l, act' = [act EXCEPT ![x] = l], OfferHolding(act[x])',
             \A o \in Offers : offers'[o].tx = offers[o].tx,
             \A b \in Bookings : /\ bookings'[b].tx = bookings[b].tx
                                 /\ \/ bookings'[b].offerTx = bookings[b].offerTx
                                    \/ OwnOrNone(bookings[b].offerTx, "custom_offer", b)'
      PROVE  OfferLinkInv'
  BY <1>0, <1>1, <1>2, OfferStepLinks
<1>3. ASSUME NEW l, act' = [act EXCEPT ![x] = l], l.pc \notin OfferHolders,
             \A o \in Offers : offers'[o].tx = offers[o].tx,
             \A b \in Bookings : bookings'[b].tx = bookings[b].tx /\ bookings'[b].offerTx = bookings[b].offerTx
      PROVE  OfferLinkInv'
  <2>1. act'[x] = l
    BY <1>0, <1>3
  <2>. QED  BY <1>2, <1>3, <2>1 DEF OfferHolding
<1>4. OfferIdle.pc \notin OfferHolders
  BY DEF OfferIdle, OfferHolders
<1>5. ASSUME act[x].pc \in OfferHolders, act'[x].o = act[x].o, act'[x].p = act[x].p
      PROVE  OfferHolding(act[x])'
  <2>1. /\ act[x].o \in Offers /\ offers[act[x].o].status # "ABSENT" /\ act[x].p \in Payments
    BY <1>0, <1>5 DEF OfferHolders, ActNamed, OfferUsers, PaymentUsers, HookActPC
  <2>2. offers'[act[x].o].booking = offers[act[x].o].booking
    BY <2>1 DEF OffersKept
  <2>. QED  BY <1>0, <1>5, <2>1, <2>2 DEF OfferHolding, RowsOnward, Own
<1>6. ASSUME NEW p \in Payments, CapturableFind(x, p) PROVE OfferLinkInv'
  <2>1. PICK o \in OffersOf(p), pc \in {"capturable_tx", "capturable_read"} :
          /\ pc = "capturable_read" => o # None
          /\ act' = [act EXCEPT ![x] = [OfferIdle EXCEPT !.p = p, !.o = o, !.pc = pc]]
    BY <1>6 DEF CapturableFind, Begin
  <2>2. act'[x].pc = pc /\ act'[x].o = o /\ act'[x].p = p
    BY <1>0, <2>1 DEF OfferIdle
  <2>3. ASSUME o # None PROVE Own(p, "custom_offer", offers[o].booking)
    <3>1. o \in Offers /\ offers[o].tx = p
      BY <2>1, <2>3 DEF OffersOf
    <3>. QED  BY <3>1, NoneIsNoKey DEF OfferLinkInv, OwnOrNone
  <2>4. UNCHANGED <<bookings, payments, offers>>
    BY <1>6 DEF CapturableFind
  <2>5. OfferHolding(act[x])'
    BY <2>1, <2>2, <2>3, <2>4 DEF OfferHolding, OfferHolders, Own
  <2>. QED  BY <1>2, <2>1, <2>4, <2>5
<1>7. CASE CapturableRead(x)
  <2>1. PICK b, confirmed : act' = [act EXCEPT ![x] =
          [@ EXCEPT !.pc = "capturable_accept", !.b = b, !.confirmed = confirmed]]
    BY <1>7 DEF CapturableRead
  <2>2. act'[x].o = act[x].o /\ act'[x].p = act[x].p
    BY <1>0, <2>1 DEF OfferLocal
  <2>3. OfferHolding(act[x])'
    BY <1>5, <1>7, <2>2 DEF CapturableRead, OfferHolders
  <2>. QED  BY <1>2, <1>7, <2>1, <2>3 DEF CapturableRead, vars
<1>8. CASE CapturableAccept(x)
  <2>1. act'[x].o = act[x].o /\ act'[x].p = act[x].p
    BY <1>0, <1>8 DEF CapturableAccept, Advance, OfferLocal
  <2>2. OfferHolding(act[x])'
    BY <1>5, <1>8, <2>1 DEF CapturableAccept, OfferHolders
  <2>3. \A o \in Offers : offers'[o].tx = offers[o].tx
    BY <1>0, <1>8 DEF CapturableAccept, OfferRow
  <2>. QED  BY <1>2, <1>8, <2>2, <2>3 DEF CapturableAccept, Advance, vars
<1>9. CASE CapturableLink(x)
  <2>0. /\ act[x].o \in Offers /\ offers[act[x].o].status # "ABSENT" /\ act[x].p \in Payments
        /\ act[x].b = offers[act[x].o].booking
        /\ Own(act[x].p, "custom_offer", offers[act[x].o].booking)
    BY <1>0, <1>9 DEF CapturableLink, ActNamed, OfferUsers, TermsUsers, PaymentUsers, HookActPC,
                      OfferHolding, OfferHolders
  <2>1. PICK o \in Offers, p \in Payments : o = act[x].o /\ p = act[x].p
    BY <2>0
  <2>2. Own(p, "custom_offer", offers[o].booking)' /\ offers'[o].booking = offers[o].booking
    BY <2>0, <2>1, OfferOwnKept DEF OffersKept
  <2>3. \A c \in Bookings : /\ bookings'[c].tx = bookings[c].tx
                            /\ \/ bookings'[c].offerTx = bookings[c].offerTx
                               \/ bookings'[c].offerTx = p /\ c = offers[o].booking
    <3>1. PICK b \in Bookings \cup {None} : b = act[x].b
      BY <1>0 DEF OfferLocal
    <3>2. CASE bookings' = [bookings EXCEPT ![b] = [@ EXCEPT !.offerTx = p]]
      BY <1>0, <2>0, <2>1, <3>1, <3>2 DEF TypeInv, TypeOK, BookingRow
    <3>3. CASE bookings' = [bookings EXCEPT ![b] = [@ EXCEPT !.slot = offers[o].slot,
                              !.status = "CONFIRMED", !.token = "live", !.offerTx = p]]
      BY <1>0, <2>0, <2>1, <3>1, <3>3 DEF TypeInv, TypeOK, BookingRow
    <3>. QED  BY <1>9, <2>1, <3>1, <3>2, <3>3 DEF CapturableLink
  <2>4. \A c \in Bookings : \/ bookings'[c].offerTx = bookings[c].offerTx
                            \/ OwnOrNone(bookings[c].offerTx, "custom_offer", c)'
    BY <2>2, <2>3 DEF OwnOrNone, Own
  <2>5. act'[x].pc = "capturable_tx"
    BY <1>0, <1>9 DEF CapturableLink, Advance, OfferLocal
  <2>6. OfferHolding(act[x])'
    BY <2>5 DEF OfferHolding, OfferHolders
  <2>. QED  BY <1>2, <1>9, <2>3, <2>4, <2>6 DEF CapturableLink, Advance
<1>10. CASE CapturableTx(x)
  BY <1>3, <1>4, <1>10 DEF CapturableTx, Finish
<1>11. ASSUME NEW p \in Payments, PaidUpdateTx(x, p) PROVE OfferLinkInv'
  <2> DEFINE l == [OfferIdle EXCEPT !.pc = "paid_find", !.p = p]
  <2>1. l.pc \notin OfferHolders /\ act' = [act EXCEPT ![x] = l]
    BY <1>11 DEF PaidUpdateTx, Begin, OfferIdle, OfferHolders
  <2> HIDE DEF l
  <2>. QED  BY <1>3, <1>11, <2>1 DEF PaidUpdateTx
<1>12. CASE PaidFind(x)
  <2>1. ASSUME NEW o, NEW paid, act' = [act EXCEPT ![x] =
                  [@ EXCEPT !.pc = "paid_accept", !.o = o, !.paid = paid]]
        PROVE  OfferLinkInv'
    <3> DEFINE l == [act[x] EXCEPT !.pc = "paid_accept", !.o = o, !.paid = paid]
    <3>1. l.pc \notin OfferHolders /\ act' = [act EXCEPT ![x] = l]
      BY <1>0, <2>1 DEF OfferLocal, OfferHolders
    <3> HIDE DEF l
    <3>. QED  BY <1>3, <1>12, <3>1 DEF PaidFind, vars
  <2>2. CASE Finish(x)
    BY <1>3, <1>4, <1>12, <2>2 DEF PaidFind, Finish, vars
  <2>. QED  BY <1>12, <2>1, <2>2 DEF PaidFind
<1>13. CASE PaidAccept(x)
  <2> DEFINE l == [act[x] EXCEPT !.pc = "paid_apply"]
  <2>1. l.pc \notin OfferHolders /\ act' = [act EXCEPT ![x] = l]
    BY <1>0, <1>13 DEF PaidAccept, Advance, OfferLocal, OfferHolders
  <2> HIDE DEF l
  <2>2. \A q \in Offers : offers'[q].tx = offers[q].tx
    BY <1>0, <1>13 DEF PaidAccept, OfferRow
  <2>. QED  BY <1>3, <1>13, <2>1, <2>2 DEF PaidAccept, vars
<1>14. CASE PaidApply(x)
  <2>1. \A b \in Bookings : bookings'[b].tx = bookings[b].tx /\ bookings'[b].offerTx = bookings[b].offerTx
    BY <1>0, <1>14 DEF PaidApply, Apply, TypeInv, TypeOK, BookingRow
  <2>. QED  BY <1>3, <1>4, <1>14, <2>1 DEF PaidApply, Finish
<1>. QED
  BY <1>6, <1>7, <1>8, <1>9, <1>10, <1>11, <1>12, <1>13, <1>14 DEF OfferHook

\* and the end of a handler that stops keep the links;
LEMMA OfferStopLinks ==
  ASSUME OfferTypeInv, OfferLinkInv, OffersKept, RowsOnward, NEW x \in OfferProcs, OfferStops(x)
  PROVE  OfferLinkInv'
<1>1. act'[x] = OfferIdle /\ \A y \in OfferProcs \ {x} : act'[y] = act[y]
  BY DEF OfferStops, Finish, OfferTypeInv, OfferTypeOK
<1>2. OfferHolding(act[x])'
  BY <1>1 DEF OfferHolding, OfferIdle, OfferHolders
<1>. QED
  BY <1>1, <1>2, OfferStepLinks DEF OfferStops

\* so does every step.
LEMMA OfferLinkNext ==
  ASSUME OfferTypeInv, OfferLedgerInv, OfferLinkInv, [OfferNext]_allVars PROVE OfferLinkInv'
<1>0. OffersKept /\ RowsOnward /\ TypeInv /\ LinkInv
  BY OffersKeptNext, OfferLedgerNext DEF OfferTypeInv, OfferLinkInv
<1>1. CASE [Next]_vars /\ UNCHANGED offerVars
  <2>1. LinkInv'
    BY <1>0, <1>1, LinkNext
  <2>2. ASSUME NEW o \in Offers PROVE OwnOrNone(offers[o].tx, "custom_offer", offers[o].booking)'
    <3>1. offers[o].tx \in Payments \cup {None}
      BY DEF OfferTypeInv, OfferTypeOK, OfferRow
    <3>. QED  BY <1>0, <1>1, <3>1 DEF OfferLinkInv, offerVars, RowsOnward, Own, OwnOrNone
  <2>3. ASSUME NEW x \in OfferProcs PROVE OfferHolding(act[x])'
    <3>1. act[x].pc \in OfferHolders => act[x].p \in Payments
      BY DEF OfferHolders, OfferTypeInv, ActNamed, PaymentUsers, HookActPC
    <3>. QED  BY <1>0, <1>1, <3>1 DEF OfferLinkInv, OfferHolding, offerVars, RowsOnward, Own
  <2>. QED  BY <2>1, <2>2, <2>3 DEF OfferLinkInv
<1>2. CASE OfferStep
  BY <1>0, <1>2, AnswerLinks, OfferHookLinks, OfferStopLinks DEF OfferStep
<1>3. [OfferNext]_allVars => OfferStep \/ ([Next]_vars /\ UNCHANGED offerVars)
  BY DEF OfferNext, OfferStep, allVars, offerVars
<1>. QED
  BY <1>1, <1>2, <1>3

\* No offer names a transaction at first.
LEMMA OfferLinkStarts == ASSUME OfferInit PROVE OfferLinkInv
<1>1. /\ \A o \in Offers : offers[o].tx = None
      /\ \A x \in OfferProcs : act[x].pc \notin OfferHolders
  BY DEF OfferInit, NoOffer, OfferIdle, OfferHolders
<1>. QED
  BY <1>1, LinkStarts DEF OfferInit, OfferLinkInv, OwnOrNone, OfferHolding

\* The links hold in every behaviour, with offers.
LEMMA OfferLinkInvariant == OfferSpec => []OfferLinkInv
<1>1. OfferInit => OfferLinkInv
  BY OfferLinkStarts
<1>2. OfferTypeInv /\ OfferLedgerInv /\ OfferLinkInv /\ [OfferNext]_allVars => OfferLinkInv'
  BY OfferLinkNext
<1>. QED
  BY <1>1, <1>2, OfferLedgerInvariant, PTL DEF OfferSpec

\* A charged payment of an offer before a step stays charged, for the same booking, and
\* so does that of a booking.
LEMMA ChargeKept ==
  ASSUME TypeInv, LedgerInv, EscrowStep, RowsOnward, NEW p \in Payments,
         payments[p].intent = "succeeded"
  PROVE  /\ payments'[p].intent = "succeeded"
         /\ payments'[p].type = payments[p].type /\ payments'[p].booking = payments[p].booking
<1>1. payments[p].status # "none"
  BY DEF LedgerInv, RowTrue
<1>2. payments'[p].intent = "succeeded"
  BY EscrowOnward DEF Final
<1>. QED
  BY <1>1, <1>2 DEF RowsOnward

\* An offer's payment is captured by a validation that has captured its booking's before.
LEMMA OfferChargeNext ==
  ASSUME OfferTypeInv, OfferLedgerInv, OfferLinkInv, OfferChargedWithBooking, [OfferNext]_allVars
  PROVE  OfferChargedWithBooking'
<1>0. /\ TypeInv /\ LedgerInv /\ LinkInv /\ EscrowStep /\ RowsOnward
  BY OfferLedgerNext DEF OfferTypeInv, OfferLinkInv, OfferLedgerInv
<1>1. SUFFICES ASSUME NEW q \in Payments, payments'[q].type = "custom_offer",
                      payments'[q].intent = "succeeded"
               PROVE  \E p \in Payments : /\ payments'[p].type = "booking"
                                          /\ payments'[p].booking = payments'[q].booking
                                          /\ payments'[p].intent = "succeeded"
  BY DEF OfferChargedWithBooking
<1>2. CASE payments[q].intent = "succeeded"
  <2>1. payments'[q].type = payments[q].type /\ payments'[q].booking = payments[q].booking
    BY <1>0, <1>2, ChargeKept
  <2>2. PICK p \in Payments : /\ payments[p].type = "booking"
                              /\ payments[p].booking = payments[q].booking
                              /\ payments[p].intent = "succeeded"
    BY <1>1, <1>2, <2>1 DEF OfferChargedWithBooking
  <2>. QED  BY <1>0, <2>1, <2>2, ChargeKept
<1>3. CASE payments[q].intent # "succeeded"
  <2>1. [Next]_vars
    <3>1. ~OfferStep
      BY <1>0, <1>1, <1>3, OfferRows DEF NoneCharged
    <3>. QED  BY <3>1 DEF OfferNext, OfferStep, allVars
  <2>2. PICK r \in Requests : Captures(proc[r], q)
    BY <1>0, <1>1, <1>3, <2>1, ChargedByCapture
  <2>3. r \in Procs /\ proc[r].pc \in ValPC
    BY <2>2 DEF Procs, Captures, ValPC
  <2>4. /\ Own(proc[r].p, "booking", proc[r].b) /\ OwnOrNone(proc[r].q, "custom_offer", proc[r].b)
        /\ proc[r].p \in Payments /\ q # None
    BY <1>0, <2>3, NoneIsNoKey DEF LinkInv, Holding, TypeInv, Named
  <2>5. PICK p \in Payments : p = proc[r].p
    BY <2>4
  <2>6. payments'[p].type = "booking" /\ payments'[p].booking = proc[r].b
    BY <1>0, <2>4, <2>5 DEF Own, RowsOnward
  <2>7. proc[r].pc = "val_capture_offer" /\ q = proc[r].q
    BY <1>1, <2>2, <2>4, <2>5, <2>6 DEF Captures
  <2>8. payments[p].intent = "succeeded"
    BY <1>0, <2>3, <2>5, <2>7 DEF LedgerInv, Learnt
  <2>9. payments'[q].booking = proc[r].b
    BY <1>0, <2>4, <2>7 DEF Own, OwnOrNone, RowsOnward
  <2>. QED  BY <1>0, <2>6, <2>8, <2>9, ChargeKept
<1>. QED
  BY <1>2, <1>3

\* Whatever handlers of offers and bookings race or fail, an offer is charged only together
\* with the booking it belongs to.
THEOREM OffersChargeWithBookings == OfferSpec => []OfferChargedWithBooking
<1>1. OfferInit => OfferChargedWithBooking
  BY DEF OfferInit, Init, NoPayment, OfferChargedWithBooking
<1>2. OfferTypeInv /\ OfferLedgerInv /\ OfferLinkInv /\ OfferChargedWithBooking /\ [OfferNext]_allVars
        => OfferChargedWithBooking'
  BY OfferChargeNext
<1>. QED
  BY <1>1, <1>2, OfferLedgerInvariant, OfferLinkInvariant, PTL DEF OfferSpec

\* With offers too a transaction was made for the booking that names it, and no two
\* bookings name the same one.
THEOREM OffersKeepLinks == OfferSpec => []PaymentsLinked
<1>1. OfferLinkInv => PaymentsLinked
  BY LinksAreOwn DEF OfferLinkInv
<1>. QED
  BY <1>1, OfferLinkInvariant, PTL

-----------------------------------------------------------------------------
(* Accepting an offer writes its date over the booking's, and that is the  *)
(* only way in which the handlers of offers touch a date.                  *)

\* A date that an offer changes is noted as moved.
LEMMA OfferMoves ==
  ASSUME OfferTypeInv, OfferStep
  PROVE  /\ hist.moved \subseteq hist'.moved
         /\ \A b \in Bookings : bookings'[b].slot = bookings[b].slot \/ b \in hist'.moved
<1> USE DEF Acting
<1> DEFINE Noted == /\ hist.moved \subseteq hist'.moved
                    /\ \A b \in Bookings : bookings'[b].slot = bookings[b].slot \/ b \in hist'.moved
<1>0. /\ TypeInv /\ bookings \in [Bookings -> BookingRow]
      /\ \A x \in OfferProcs : ActNamed(x, act[x], offers)
      /\ offers \in [Offers -> OfferRow]
  BY DEF OfferTypeInv, OfferTypeOK, TypeInv, TypeOK
<1>1. ASSUME UNCHANGED <<bookings, hist>> PROVE Noted
  BY <1>1
<1>2. ASSUME NEW b \in Bookings, NEW s, NoteMove(b, s), bookings'[b].slot = s,
             \A c \in Bookings \ {b} : bookings'[c] = bookings[c]
      PROVE  Noted
  BY <1>0, <1>2, NoteMoveType
<1>3. ASSUME NEW b \in Bookings, NEW s, NEW p, NoteMove(b, s),
             \/ bookings' = [bookings EXCEPT ![b].slot = s]
             \/ bookings' = [bookings EXCEPT ![b] = [@ EXCEPT !.slot = s, !.offerTx = p]]
             \/ bookings' = [bookings EXCEPT ![b] = [@ EXCEPT !.slot = s, !.status = "CONFIRMED",
                                                            !.token = "live", !.offerTx = p]]
      PROVE  Noted
  <2>1. bookings'[b].slot = s /\ \A c \in Bookings \ {b} : bookings'[c] = bookings[c]
    BY <1>0, <1>3 DEF BookingRow
  <2>. QED  BY <1>2, <1>3, <2>1
<1> HIDE DEF Noted
<1>4. ASSUME NEW x \in OfferProcs, NEW o \in Offers, offers[o].status # "ABSENT", Apply(o) PROVE Noted
  <2>1. offers[o].booking \in Bookings
    BY <1>4 DEF OfferTypeInv, OffersNamed
  <2>. QED  BY <1>3, <1>4, <2>1 DEF Apply
<1>5. ASSUME NEW x \in OfferRequests, Accept(x) PROVE Noted
  <2>0. x \in OfferProcs
    BY DEF OfferProcs
  <2>1. CASE AcceptApply(x)
    <3>1. act[x].o \in Offers /\ offers[act[x].o].status # "ABSENT"
      BY <1>0, <2>0, <2>1 DEF AcceptApply, ActNamed, OfferUsers, TermsUsers
    <3>. QED  BY <1>4, <2>0, <2>1, <3>1 DEF AcceptApply
  <2>2. CASE AcceptLink(x)
    <3>1. act[x].b \in Bookings
      BY <1>0, <2>0, <2>2 DEF AcceptLink, ActNamed, OfferUsers, TermsUsers, OffersNamed, OfferTypeInv
    <3>. QED  BY <1>3, <2>2, <3>1 DEF AcceptLink
  <2>. QED  BY <1>1, <1>5, <2>1, <2>2 DEF Accept, AcceptRead, AcceptFree, AcceptPay, AcceptMark, vars
<1>6. ASSUME NEW x \in OfferHooks, OfferHook(x) PROVE Noted
  <2>0. x \in OfferProcs
    BY DEF OfferProcs
  <2>1. CASE PaidApply(x)
    <3>1. act[x].o \in Offers /\ offers[act[x].o].status # "ABSENT"
      BY <1>0, <2>0, <2>1 DEF PaidApply, ActNamed, OfferUsers, TermsUsers, HookActPC, PaidPC
    <3>. QED  BY <1>4, <2>0, <2>1, <3>1 DEF PaidApply
  <2>2. CASE CapturableLink(x)
    <3>1. act[x].b \in Bookings
      BY <1>0, <2>0, <2>2 DEF CapturableLink, ActNamed, OfferUsers, TermsUsers, OffersNamed, OfferTypeInv
    <3>2. CASE act[x].confirmed
      <4>1. bookings' = [bookings EXCEPT ![act[x].b] = [@ EXCEPT !.offerTx = act[x].p]] /\ hist' = hist
        BY <2>2, <3>2 DEF CapturableLink
      <4>. QED  BY <1>0, <3>1, <4>1 DEF Noted, BookingRow
    <3>3. CASE ~act[x].confirmed
      BY <1>3, <2>2, <3>1, <3>3 DEF CapturableLink
    <3>. QED  BY <3>2, <3>3
  <2>. QED  BY <1>1, <1>6, <2>1, <2>2 DEF OfferHook, CapturableFind, CapturableRead, CapturableAccept,
              CapturableTx, PaidUpdateTx, PaidFind, PaidAccept, vars
<1>7. ASSUME NEW x \in OfferRequests, Send(x) \/ Decline(x) PROVE Noted
  BY <1>1, <1>7 DEF Send, SendRead, SendCreate, Decline, DeclineRead, DeclineWrite, vars
<1>8. ASSUME NEW x \in OfferProcs, OfferStops(x) PROVE Noted
  BY <1>1, <1>8 DEF OfferStops
<1>. QED
  BY <1>5, <1>6, <1>7, <1>8 DEF OfferStep, Noted

\* So what bookAppointment knows of its slot survives the handlers of offers.
LEMMA OfferSlotNext ==
  ASSUME ~Overlap, OfferTypeInv, AloneInv, SlotInv, [OfferNext]_allVars
  PROVE  AloneInv' /\ SlotInv'
<1>0. TypeInv
  BY DEF OfferTypeInv
<1>1. CASE [Next]_vars
  BY <1>0, <1>1, AloneNext, SlotNext
<1>2. CASE OfferStep
  <2>1. UNCHANGED <<proc, due>>
    BY <1>2, OfferMoney
  <2>2. /\ hist.moved \subseteq hist'.moved
        /\ \A b \in Bookings : bookings'[b].slot = bookings[b].slot \/ b \in hist'.moved
    BY <1>2, OfferMoves
  <2>3. AloneInv'
    BY <2>1 DEF AloneInv
  <2>4. OneBookingPerSlot'
    BY <2>2 DEF SlotInv, OneBookingPerSlot
  <2>5. ASSUME NEW x \in Procs, proc'[x].pc = "book_write", NEW c \in Bookings \ {proc'[x].b},
               bookings'[c].slot = proc'[x].slot
        PROVE  c \in hist'.moved \/ proc'[x].b \in hist'.moved
    BY <2>1, <2>2, <2>5 DEF SlotInv
  <2>. QED  BY <2>3, <2>4, <2>5 DEF SlotInv
<1>. QED
  BY <1>1, <1>2 DEF OfferNext, OfferStep, allVars

\* With offers too, as long as one request at a time is answered, two bookings of an
\* athlete are on one date only when the coach or an accepted offer has moved one there.
THEOREM OffersExplainSlots == ASSUME ~Overlap PROVE OfferSpec => []OneBookingPerSlot
<1>1. OfferInit => AloneInv /\ SlotInv
  BY SerialStarts DEF OfferInit, SerialInv
<1>2. OfferTypeInv /\ AloneInv /\ SlotInv /\ [OfferNext]_allVars => AloneInv' /\ SlotInv'
  BY OfferSlotNext
<1>3. SlotInv => OneBookingPerSlot
  BY DEF SlotInv
<1>. QED
  BY <1>1, <1>2, <1>3, OfferTypeInit, OfferTypeStep, PTL DEF OfferSpec

-----------------------------------------------------------------------------
(* Stripe reports a hold only after the card was held, and whoever handles *)
(* such a report can rely on it: the intent is not open again.             *)

Loose == {"none", "open"}

\* Stripe emits what has just happened; a stopped webhook's event comes back.
LEMMA NextEvents ==
  ASSUME TypeInv, [Next]_vars, NEW e \in events', e \notin events
  PROVE  \/ e.kind \notin {"capturable", "succeeded"}
         \/ e.kind = "capturable" /\ payments'[e.p].intent = "held"
         \/ e.kind = "succeeded" /\ payments[e.p].intent = "held"
         \/ Faults /\ \E h \in Hooks : proc[h].pc \in HookPC /\ e = EventsOf(proc[h].p, proc[h].seen)
<1> USE DEF At
<1> DEFINE Goal == \/ e.kind \notin {"capturable", "succeeded"}
                   \/ e.kind = "capturable" /\ payments'[e.p].intent = "held"
                   \/ e.kind = "succeeded" /\ payments[e.p].intent = "held"
                   \/ Faults /\ \E h \in Hooks : /\ proc[h].pc \in HookPC
                                                 /\ e = EventsOf(proc[h].p, proc[h].seen)
<1>1. ASSUME NEW p, CancelIntent(p) PROVE Goal
  BY <1>1 DEF CancelIntent, EventsOf
<1>2. CASE events' \subseteq events
  BY <1>2
<1>3. ASSUME NEW r \in Requests, Book(r) \/ Cancel(r) \/ RequestStops(r) PROVE Goal
  BY <1>1, <1>2, <1>3 DEF Book, BookRead, BookCreate, BookUpdate, BookReadOld, BookCancelOld, BookMarkOld,
       BookPay, BookLink, Cancel, CancelRead, CancelWrite, CancelReadTx, CancelRelease, CancelMark,
       RequestStops
<1>4. ASSUME NEW r \in Requests, Validate(r) PROVE Goal
  <2>1. ASSUME NEW p, NEW next, Capture(r, p, next) PROVE Goal
    BY <1>2, <2>1 DEF Capture, EventsOf
  <2>. QED  BY <1>2, <1>4, <2>1 DEF Validate, ValidateRead, ValidateCheck, ValidateCaptures,
              ValidateCapture, ValidateCaptureOffer, ValidateTransfer, ValidateWrite, ValidateTxs,
              ValidateTx, ValidateOfferTx
<1>5. ASSUME NEW h \in Hooks, Hook(h) PROVE Goal
  BY <1>2, <1>5 DEF Hook, HookBegin, HookContinue, HookCapturable, HookSucceeded, HookFailed,
       HookCanceled, HookRequiresAction, HookUpdateTx, Deliver, HookConfirm, HookAuthorized,
       HookCaptured, HookFind, HookVoid
<1>6. ASSUME NEW h \in Hooks, HookStops(h) PROVE Goal
  <2>1. Faults /\ proc[h].pc \in HookPC /\ e = EventsOf(proc[h].p, proc[h].seen)
    BY <1>6 DEF HookStops, TypeInv, Named, Procs
  <2>. QED  BY <2>1
<1>7. CASE ExpiryJob \/ CronStops
  BY <1>1, <1>2, <1>7 DEF ExpiryJob, CronSelect, CronPick, CronSettle, CronMark, CronVoid, CronStops
<1>8. CASE Environment \/ ByHand
  <2>1. ASSUME NEW p \in Payments, Authorize(p) PROVE Goal
    BY <2>1 DEF Authorize, EventsOf, TypeInv, TypeOK, PaymentRow
  <2>2. ASSUME NEW p \in Payments, DeclineOrChallenge(p) PROVE Goal
    BY <2>2 DEF DeclineOrChallenge, EventsOf
  <2>. QED  BY <1>1, <1>2, <1>8, <2>1, <2>2 DEF Environment, HoldLapses, TokenExpires,
                       ByHand, EditStatus, EditDate
<1>. QED
  BY <1>2, <1>3, <1>4, <1>5, <1>6, <1>7, <1>8 DEF Next, vars

\* A webhook about a booking's payment starts with its event, and goes on with it.
LEMMA NextHooks ==
  ASSUME TypeInv, [Next]_vars, NEW h \in Hooks, proc'[h].pc # "idle"
  PROVE  \/ /\ proc[h].pc # "idle"
            /\ proc'[h].p = proc[h].p /\ proc'[h].seen = proc[h].seen
         \/ EventsOf(proc'[h].p, proc'[h].seen) \in events
<1> USE DEF At
<1>0. /\ proc \in [Procs -> Local] /\ Cron \in Procs \ {h} /\ h \in Procs
      /\ \A r \in Requests : r \in Procs \ {h}
      /\ \A y \in Hooks : y \in Procs
  BY ProcsDisjoint DEF TypeInv, TypeOK, Procs
<1> DEFINE Goal == \/ /\ proc[h].pc # "idle"
                      /\ proc'[h].p = proc[h].p /\ proc'[h].seen = proc[h].seen
                   \/ EventsOf(proc'[h].p, proc'[h].seen) \in events
<1>1. CASE proc'[h] = proc[h]
  BY <1>1
<1>2. ASSUME NEW y \in Procs \ {h}, NEW l, proc' = [proc EXCEPT ![y] = l] PROVE Goal
  BY <1>0, <1>1, <1>2
<1>3. ASSUME NEW r \in Requests, Book(r) \/ Validate(r) PROVE Goal
  BY <1>0, <1>1, <1>3, RequestMoves DEF Moves
<1>4. ASSUME NEW r \in Requests, Cancel(r) \/ RequestStops(r) PROVE Goal
  BY <1>0, <1>1, <1>2, <1>4 DEF Cancel, CancelRead, CancelWrite, CancelReadTx, CancelRelease, CancelMark,
                          RequestStops, Goto, Return
<1>5. ASSUME NEW y \in Hooks, Return(y) PROVE Goal
  BY <1>0, <1>1, <1>5 DEF Return, Idle
<1>6. ASSUME NEW y \in Hooks, Hook(y) PROVE Goal
  <2>1. ASSUME NEW p \in Payments, HookCapturable(y, p) PROVE Goal
    <3>1. EventsOf(p, "capturable") \in events
      BY <2>1 DEF HookCapturable, Deliver
    <3>2. PICK b, pc : proc' = [proc EXCEPT ![y] =
              [Idle EXCEPT !.p = p, !.b = b, !.seen = "capturable", !.pc = pc]]
      BY <2>1 DEF HookCapturable
    <3>. QED  BY <1>0, <1>1, <3>1, <3>2 DEF Idle
  <2>2. ASSUME NEW p \in Payments, NEW kind, NEW status, NEW next, HookUpdateTx(y, p, kind, status, next)
        PROVE  Goal
    <3>1. EventsOf(p, kind) \in events
      BY <2>2 DEF HookUpdateTx, Deliver
    <3>2. \/ Return(y)
          \/ proc' = [proc EXCEPT ![y] = [Idle EXCEPT !.p = p, !.pc = next, !.seen = kind]]
      BY <2>2 DEF HookUpdateTx, Return
    <3>. QED  BY <1>0, <1>1, <1>5, <3>1, <3>2 DEF Idle
  <2>3. ASSUME NEW pc, Goto(y, pc), proc[y].pc # "idle" PROVE Goal
    BY <1>0, <1>1, <2>3 DEF Goto, Local
  <2>4. CASE HookFind(y)
    <3>1. CASE Return(y)
      BY <1>5, <3>1
    <3>2. ASSUME NEW b, proc' = [proc EXCEPT ![y] = [@ EXCEPT !.pc = "hook_void", !.b = b]] PROVE Goal
      <4> DEFINE l == [proc[y] EXCEPT !.pc = "hook_void", !.b = b]
      <4>1. l.p = proc[y].p /\ l.seen = proc[y].seen /\ proc' = [proc EXCEPT ![y] = l]
        BY <1>0, <3>2 DEF Local
      <4> HIDE DEF l
      <4>. QED  BY <1>0, <1>1, <2>4, <4>1 DEF HookFind
    <3>. QED  BY <2>4, <3>1, <3>2 DEF HookFind
  <2>. QED  BY <1>5, <1>6, <2>1, <2>2, <2>3, <2>4 DEF Hook, HookBegin, HookContinue, HookSucceeded,
              HookFailed, HookCanceled, HookRequiresAction, HookConfirm, HookAuthorized, HookCaptured,
              HookVoid
<1>7. CASE ExpiryJob \/ CronStops
  BY <1>0, <1>1, <1>2, <1>7 DEF ExpiryJob, CronSelect, CronPick, CronSettle, CronMark, CronVoid,
                                CronStops, Goto, Return
<1>8. CASE Environment \/ ByHand
  BY <1>1, <1>8 DEF Environment, Authorize, DeclineOrChallenge, HoldLapses, TokenExpires,
                       ByHand, EditStatus, EditDate
<1>. QED
  BY <1>1, <1>3, <1>4, <1>5, <1>6, <1>7, <1>8 DEF Next, HookStops, vars

\* What a report of a hold, waiting or in a webhook's hands, tells.
HeldInv ==
    /\ \A e \in events : e.kind = "capturable" => payments[e.p].intent \notin Loose
    /\ \A h \in Hooks : proc[h].pc # "idle" /\ proc[h].seen = "capturable"
                          => payments[proc[h].p].intent \notin Loose
    /\ \A x \in OfferProcs : act[x].pc \in HookActPC => payments[act[x].p].intent \notin Loose

\* Every step keeps an accepted offer's payment.
LEMMA HeldNext ==
  ASSUME OfferTypeInv, OfferLedgerInv, HeldInv, [OfferNext]_allVars PROVE HeldInv'
<1>0. /\ TypeInv /\ LedgerInv /\ EscrowStep
      /\ \A e \in events : e.p \in Payments
      /\ \A h \in Hooks : proc[h].pc # "idle" => proc[h].p \in Payments
      /\ \A x \in OfferProcs : act[x].pc \in HookActPC => act[x].p \in Payments
  BY OfferLedgerNext DEF OfferTypeInv, OfferLedgerInv, TypeInv, TypeOK, Event, Named, Procs, ActNamed,
                         PaymentUsers
<1>1. \A p \in Payments : payments[p].intent \notin Loose => payments'[p].intent \notin Loose
  BY <1>0, EscrowOnward DEF Loose
<1>2. \A p \in Payments : EventsOf(p, "succeeded") \in events => payments[p].intent \notin Loose
  BY <1>0 DEF LedgerInv, Told, Final, EventsOf, Loose
<1>3. CASE [Next]_vars /\ UNCHANGED offerVars
  <2>1. ASSUME NEW e \in events', e.kind = "capturable" PROVE payments'[e.p].intent \notin Loose
    <3>1. CASE e \in events
      BY <1>0, <1>1, <2>1, <3>1 DEF HeldInv
    <3>2. CASE payments'[e.p].intent = "held"
      BY <3>2 DEF Loose
    <3>3. ASSUME NEW h \in Hooks, proc[h].pc \in HookPC, e = EventsOf(proc[h].p, proc[h].seen)
          PROVE  payments'[e.p].intent \notin Loose
      <4>1. proc[h].pc # "idle" /\ e.p = proc[h].p /\ proc[h].seen = "capturable"
        BY <2>1, <3>3 DEF HookPC, EventsOf
      <4>. QED  BY <1>0, <1>1, <4>1 DEF HeldInv
    <3>. QED  BY <1>0, <1>3, <2>1, <3>1, <3>2, <3>3, NextEvents
  <2>2. ASSUME NEW h \in Hooks, proc'[h].pc # "idle", proc'[h].seen = "capturable"
        PROVE  payments'[proc'[h].p].intent \notin Loose
    <3>1. CASE proc[h].pc # "idle" /\ proc'[h].p = proc[h].p /\ proc'[h].seen = proc[h].seen
      BY <1>0, <1>1, <2>2, <3>1 DEF HeldInv
    <3>2. CASE EventsOf(proc'[h].p, "capturable") \in events
      BY <1>0, <1>1, <3>2 DEF HeldInv, EventsOf
    <3>. QED  BY <1>0, <1>3, <2>2, <3>1, <3>2, NextHooks
  <2>3. ASSUME NEW x \in OfferProcs, act'[x].pc \in HookActPC
        PROVE  payments'[act'[x].p].intent \notin Loose
    BY <1>0, <1>1, <1>3, <2>3 DEF HeldInv, offerVars
  <2>. QED  BY <2>1, <2>2, <2>3 DEF HeldInv
<1>4. CASE OfferStep
  <2>1. ASSUME NEW e \in events', e.kind = "capturable" PROVE payments'[e.p].intent \notin Loose
    <3>1. CASE e \in events
      BY <1>0, <1>1, <2>1, <3>1 DEF HeldInv
    <3>2. ASSUME NEW x \in OfferHooks, act[x].pc \in HookActPC, e = EventsOf(act[x].p, ActKind(act[x].pc))
          PROVE  payments'[e.p].intent \notin Loose
      BY <1>0, <1>1, <3>2 DEF HeldInv, EventsOf, OfferProcs
    <3>. QED  BY <1>4, <3>1, <3>2, OfferEvents
  <2>2. ASSUME NEW x \in OfferProcs, act'[x].pc \in HookActPC
        PROVE  payments'[act'[x].p].intent \notin Loose
    <3>1. CASE act[x].pc \in HookActPC /\ act'[x].p = act[x].p
      BY <1>0, <1>1, <3>1 DEF HeldInv
    <3>2. CASE EventsOf(act'[x].p, ActKind(act'[x].pc)) \in events
      <4>1. act'[x].p \in Payments
        BY <1>0, <3>2 DEF EventsOf
      <4>2. payments[act'[x].p].intent \notin Loose
        BY <1>2, <3>2, <4>1 DEF HeldInv, EventsOf, ActKind
      <4>. QED  BY <1>1, <4>1, <4>2
    <3>. QED  BY <1>4, <2>2, <3>1, <3>2, HookActs DEF Took
  <2>3. UNCHANGED proc
    BY <1>4, OfferMoney
  <2>4. ASSUME NEW h \in Hooks, proc'[h].pc # "idle", proc'[h].seen = "capturable"
        PROVE  payments'[proc'[h].p].intent \notin Loose
    BY <1>0, <1>1, <2>3, <2>4 DEF HeldInv
  <2>. QED  BY <2>1, <2>2, <2>4 DEF HeldInv
<1>5. [OfferNext]_allVars => OfferStep \/ ([Next]_vars /\ UNCHANGED offerVars)
  BY DEF OfferNext, OfferStep, allVars, offerVars
<1>. QED
  BY <1>3, <1>4, <1>5

-----------------------------------------------------------------------------
(* One answer at a time: without it an offer could be declined between the *)
(* athlete's acceptance of it and the offer's status change, or accepted   *)
(* by the webhook of a payment another answer has replaced.                *)

OneAnswer == ~Overlap \/ \A x, y \in OfferRequests : x = y

\* The awaits at which an answer relies on the offer being open, and those at which a
\* webhook relies on the offer naming its payment.
Deciding == {"accept_free", "accept_pay", "accept_mark", "decline_write"}
Tied == {"capturable_read", "capturable_accept", "capturable_link", "paid_accept", "paid_apply"}

AnswerInv ==
    /\ \A x, y \in OfferRequests : act[x].pc # "idle" /\ act[y].pc # "idle" => x = y
    /\ \A o \in Offers : offers[o].status \in {"ABSENT", "PENDING", "DECLINED"} => offers[o].tx = None
    /\ \A x \in OfferProcs : act[x].pc \in Deciding => offers[act[x].o].status = "PENDING"
    /\ \A x \in OfferProcs : act[x].pc \in Tied => offers[act[x].o].tx = act[x].p
    /\ AcceptedOffersHeld

\* What handler x may do to offer o.
MayWrite(x, o) ==
    /\ offers[o].status = "PENDING" => x \in OfferRequests
    /\ offers[o].tx # None => offers'[o].tx = offers[o].tx
    /\ offers'[o].status \in {"ABSENT", "PENDING", "DECLINED"} => offers'[o].tx = None
    /\ offers'[o].status = "ACCEPTED" /\ offers'[o].tx # None
         => payments'[offers'[o].tx].intent \notin Loose

\* A step of one handler keeps the invariant when it writes only what it may and goes on
\* to awaits whose reliance is justified.
LEMMA AnswerStep ==
  ASSUME OneAnswer, OfferTypeInv, AnswerInv, EscrowStep, NEW x \in OfferProcs, NEW l,
         act' = [act EXCEPT ![x] = l], act[x].pc # "idle" \/ MayAct(x),
         \A o \in Offers : offers'[o] = offers[o] \/ MayWrite(x, o),
         l.pc \in Deciding => offers'[l.o].status = "PENDING",
         l.pc \in Tied => offers'[l.o].tx = l.p
  PROVE  AnswerInv'
<1>0. act'[x] = l /\ \A y \in OfferProcs \ {x} : act'[y] = act[y]
  BY DEF OfferTypeInv, OfferTypeOK
<1>1. x \in OfferRequests => \A y \in OfferRequests \ {x} : act[y].pc = "idle"
  BY DEF OneAnswer, MayAct, Quiet, AnswerInv, OfferProcs
<1>2. ASSUME NEW y, NEW z, y \in OfferRequests, z \in OfferRequests,
             act'[y].pc # "idle", act'[z].pc # "idle"
      PROVE  y = z
  BY <1>0, <1>1, <1>2 DEF AnswerInv, OfferProcs
<1>3. ASSUME NEW o \in Offers, offers'[o].status \in {"ABSENT", "PENDING", "DECLINED"}
      PROVE  offers'[o].tx = None
  BY <1>3 DEF AnswerInv, MayWrite
<1>4. ASSUME NEW y \in OfferProcs, act'[y].pc \in Deciding
      PROVE  offers'[act'[y].o].status = "PENDING"
  <2>1. CASE y = x
    BY <1>0, <1>4, <2>1
  <2>2. CASE y # x
    <3>1. act'[y] = act[y] /\ ActNamed(y, act[y], offers)
      BY <1>0, <2>2 DEF OfferTypeInv
    <3>2. act[y].o \in Offers /\ offers[act[y].o].status = "PENDING"
      BY <1>4, <3>1 DEF AnswerInv, ActNamed, OfferUsers, Deciding
    <3>3. y \in OfferRequests /\ act[y].pc # "idle"
      BY <1>4, <3>1 DEF ActNamed, HookActPC, PaidPC, Deciding, OfferProcs
    <3>4. x \notin OfferRequests
      BY <1>1, <2>2, <3>3
    <3>. QED  BY <3>1, <3>2, <3>4 DEF MayWrite
  <2>. QED  BY <2>1, <2>2
<1>5. ASSUME NEW y \in OfferProcs, act'[y].pc \in Tied
      PROVE  offers'[act'[y].o].tx = act'[y].p
  <2>1. CASE y = x
    BY <1>0, <1>5, <2>1
  <2>2. CASE y # x
    <3>1. act'[y] = act[y] /\ ActNamed(y, act[y], offers)
      BY <1>0, <2>2 DEF OfferTypeInv
    <3>2. act[y].o \in Offers /\ act[y].p \in Payments /\ offers[act[y].o].tx = act[y].p
      BY <1>5, <3>1 DEF AnswerInv, ActNamed, OfferUsers, PaymentUsers, HookActPC, PaidPC, Tied
    <3>. QED  BY <3>1, <3>2, NoneIsNoKey DEF MayWrite
  <2>. QED  BY <2>1, <2>2
<1>6. ASSUME NEW o \in Offers, offers'[o].status = "ACCEPTED", offers'[o].tx # None
      PROVE  payments'[offers'[o].tx].intent \notin Loose
  <2>1. CASE offers'[o] = offers[o]
    <3>1. offers[o].tx \in Payments
      BY <1>6, <2>1 DEF OfferTypeInv, OfferTypeOK, OfferRow
    <3>. QED  BY <1>6, <2>1, <3>1, EscrowOnward DEF AnswerInv, AcceptedOffersHeld, Loose
  <2>2. CASE MayWrite(x, o)
    BY <1>6, <2>2 DEF MayWrite
  <2>. QED  BY <2>1, <2>2
<1>. QED
  BY <1>2, <1>3, <1>4, <1>5, <1>6 DEF AnswerInv, AcceptedOffersHeld, Loose

\* What a request in progress relies on.
LEMMA AnswerLocals ==
  ASSUME OfferTypeInv, AnswerInv, NEW x \in OfferProcs
  PROVE  /\ act[x] \in OfferLocal /\ offers \in [Offers -> OfferRow]
         /\ act[x].pc \in Deciding => act[x].o \in Offers /\ offers[act[x].o].status = "PENDING"
         /\ act[x].pc \in Tied => /\ act[x].o \in Offers /\ act[x].p \in Payments
                                  /\ offers[act[x].o].tx = act[x].p
  BY DEF OfferTypeInv, OfferTypeOK, AnswerInv, ActNamed, OfferUsers, PaymentUsers, HookActPC, PaidPC,
         Deciding, Tied

\* The steps of the requests about offers,
LEMMA AnswerRequests ==
  ASSUME OneAnswer, OfferTypeInv, AnswerInv, EscrowStep, NEW x \in OfferRequests,
         Send(x) \/ Accept(x) \/ Decline(x)
  PROVE  AnswerInv'
<1> USE DEF Acting
<1>0. /\ x \in OfferProcs /\ act[x] \in OfferLocal /\ offers \in [Offers -> OfferRow]
      /\ act[x].pc \in Deciding => act[x].o \in Offers /\ offers[act[x].o].status = "PENDING"
      /\ \A o \in Offers : offers[o].status \in {"ABSENT", "PENDING"} => offers[o].tx = None
  BY AnswerLocals DEF OfferProcs, AnswerInv
<1>1. ASSUME NEW l, act' = [act EXCEPT ![x] = l], l.pc \notin Tied,
             act[x].pc # "idle" \/ MayAct(x), UNCHANGED offers,
             l.pc \in Deciding => offers[l.o].status = "PENDING"
      PROVE  AnswerInv'
  BY <1>0, <1>1, AnswerStep
<1>2. ASSUME NEW l, act' = [act EXCEPT ![x] = l], l.pc \notin Tied \cup Deciding, act[x].pc # "idle",
             NEW o \in Offers, NEW row, offers' = [offers EXCEPT ![o] = row],
             offers[o].tx = None, row.status \in {"PENDING", "ACCEPTED", "DECLINED"} => row.tx = None,
             row.status # "ABSENT"
      PROVE  AnswerInv'
  <2>1. offers'[o] = row /\ \A q \in Offers \ {o} : offers'[q] = offers[q]
    BY <1>0, <1>2
  <2>2. MayWrite(x, o)
    BY <1>2, <2>1 DEF MayWrite
  <2>. QED  BY <1>0, <1>2, <2>1, <2>2, AnswerStep
<1>3. OfferIdle.pc \notin Tied \cup Deciding
  BY DEF OfferIdle, Tied, Deciding
<1>4. ASSUME NEW b \in Bookings, SendRead(x, b) PROVE AnswerInv'
  <2> DEFINE l == [OfferIdle EXCEPT !.pc = "send_create", !.b = b, !.p = bookings[b].tx]
  <2>1. act' = [act EXCEPT ![x] = l] /\ l.pc \notin Tied \cup Deciding
    BY <1>4 DEF SendRead, Begin, OfferIdle, Tied, Deciding
  <2> HIDE DEF l
  <2>. QED  BY <1>1, <1>4, <2>1 DEF SendRead
<1>5. ASSUME NEW total \in Totals, NEW s \in Slots, SendCreate(x, total, s) PROVE AnswerInv'
  <2>1. PICK o \in Offers :
          /\ offers[o].status = "ABSENT"
          /\ \E paid : offers' = [offers EXCEPT ![o] =
                [status |-> "PENDING", booking |-> act[x].b, slot |-> s, total |-> total,
                 paid |-> paid, due |-> DueOf(total, paid), tx |-> None]]
    BY <1>5 DEF SendCreate
  <2>2. PICK paid : offers' = [offers EXCEPT ![o] =
                [status |-> "PENDING", booking |-> act[x].b, slot |-> s, total |-> total,
                 paid |-> paid, due |-> DueOf(total, paid), tx |-> None]]
    BY <2>1
  <2> DEFINE row == [status |-> "PENDING", booking |-> act[x].b, slot |-> s, total |-> total,
                     paid |-> paid, due |-> DueOf(total, paid), tx |-> None]
  <2>3. offers' = [offers EXCEPT ![o] = row] /\ row.tx = None /\ row.status = "PENDING"
    BY <2>2
  <2> HIDE DEF row
  <2>. QED  BY <1>0, <1>2, <1>3, <1>5, <2>1, <2>3 DEF SendCreate, Finish
<1>6. ASSUME NEW o \in Offers, AcceptRead(x, o) PROVE AnswerInv'
  <2>1. PICK pc \in {"accept_free", "accept_pay"} :
          act' = [act EXCEPT ![x] = [OfferIdle EXCEPT !.o = o, !.b = offers[o].booking, !.pc = pc]]
    BY <1>6 DEF AcceptRead, Begin
  <2> DEFINE l == [OfferIdle EXCEPT !.o = o, !.b = offers[o].booking, !.pc = pc]
  <2>2. act' = [act EXCEPT ![x] = l] /\ l.pc \notin Tied /\ l.o = o
    BY <2>1 DEF OfferIdle, Tied
  <2> HIDE DEF l
  <2>. QED  BY <1>1, <1>6, <2>2 DEF AcceptRead
<1>7. CASE AcceptFree(x)
  <2> DEFINE l == [act[x] EXCEPT !.pc = "accept_apply"]
             row == [offers[act[x].o] EXCEPT !.status = "ACCEPTED", !.due = 0]
  <2>1. act' = [act EXCEPT ![x] = l] /\ l.pc \notin Tied \cup Deciding
    BY <1>0, <1>7 DEF AcceptFree, Advance, OfferLocal, Tied, Deciding
  <2>2. /\ act[x].o \in Offers /\ offers[act[x].o].status = "PENDING" /\ act[x].pc # "idle"
    BY <1>0, <1>7 DEF AcceptFree, Deciding
  <2>3. offers' = [offers EXCEPT ![act[x].o] = row] /\ row.tx = None /\ row.status = "ACCEPTED"
    BY <1>0, <1>7, <2>2 DEF AcceptFree, OfferRow
  <2> HIDE DEF l, row
  <2>. QED  BY <1>0, <1>2, <2>1, <2>2, <2>3
<1>8. CASE AcceptApply(x)
  BY <1>1, <1>3, <1>8 DEF AcceptApply, Finish
<1>9. CASE AcceptPay(x)
  <2>1. PICK p \in Payments : act' = [act EXCEPT ![x] = [@ EXCEPT !.pc = "accept_mark", !.p = p]]
    BY <1>9 DEF AcceptPay
  <2> DEFINE l == [act[x] EXCEPT !.pc = "accept_mark", !.p = p]
  <2>2. act' = [act EXCEPT ![x] = l] /\ l.pc \notin Tied /\ l.o = act[x].o
    BY <1>0, <2>1 DEF OfferLocal, Tied
  <2>3. act[x].pc \in Deciding /\ act[x].pc # "idle"
    BY <1>9 DEF AcceptPay, Deciding
  <2> HIDE DEF l
  <2>. QED  BY <1>0, <1>1, <1>9, <2>2, <2>3 DEF AcceptPay
<1>10. CASE AcceptMark(x)
  <2> DEFINE l == [act[x] EXCEPT !.pc = "accept_link"]
             row == [offers[act[x].o] EXCEPT !.status = "PAYMENT_PENDING", !.tx = act[x].p]
  <2>1. act' = [act EXCEPT ![x] = l] /\ l.pc \notin Tied \cup Deciding
    BY <1>0, <1>10 DEF AcceptMark, Advance, OfferLocal, Tied, Deciding
  <2>2. /\ act[x].o \in Offers /\ offers[act[x].o].status = "PENDING" /\ act[x].pc # "idle"
    BY <1>0, <1>10 DEF AcceptMark, Deciding
  <2>3. offers' = [offers EXCEPT ![act[x].o] = row] /\ row.status = "PAYMENT_PENDING"
    BY <1>0, <1>10, <2>2 DEF AcceptMark, OfferRow
  <2> HIDE DEF l, row
  <2>. QED  BY <1>0, <1>2, <2>1, <2>2, <2>3
<1>11. CASE AcceptLink(x)
  BY <1>1, <1>3, <1>11 DEF AcceptLink, Finish
<1>12. ASSUME NEW o \in Offers, DeclineRead(x, o) PROVE AnswerInv'
  <2> DEFINE l == [OfferIdle EXCEPT !.pc = "decline_write", !.o = o]
  <2>1. act' = [act EXCEPT ![x] = l] /\ l.pc \notin Tied /\ l.o = o
    BY <1>12 DEF DeclineRead, Begin, OfferIdle, Tied
  <2> HIDE DEF l
  <2>. QED  BY <1>1, <1>12, <2>1 DEF DeclineRead
<1>13. CASE DeclineWrite(x)
  <2> DEFINE row == [offers[act[x].o] EXCEPT !.status = "DECLINED"]
  <2>1. /\ act[x].o \in Offers /\ offers[act[x].o].status = "PENDING" /\ act[x].pc # "idle"
    BY <1>0, <1>13 DEF DeclineWrite, Deciding
  <2>2. offers' = [offers EXCEPT ![act[x].o] = row] /\ row.tx = None /\ row.status = "DECLINED"
    BY <1>0, <1>13, <2>1 DEF DeclineWrite, OfferRow
  <2> HIDE DEF row
  <2>. QED  BY <1>0, <1>2, <1>3, <1>13, <2>1, <2>2 DEF DeclineWrite, Finish
<1>. QED
  BY <1>4, <1>5, <1>6, <1>7, <1>8, <1>9, <1>10, <1>11, <1>12, <1>13 DEF Send, Accept, Decline

\* and those of the webhook about offers.
LEMMA AnswerHooks ==
  ASSUME OneAnswer, OfferTypeInv, OfferLedgerInv, AnswerInv, HeldInv, EscrowStep,
         NEW x \in OfferHooks, OfferHook(x)
  PROVE  AnswerInv'
<1> USE DEF Acting
<1>0. /\ x \in OfferProcs /\ act[x] \in OfferLocal /\ offers \in [Offers -> OfferRow]
      /\ act[x].pc \in Tied => /\ act[x].o \in Offers /\ act[x].p \in Payments
                               /\ offers[act[x].o].tx = act[x].p
  BY AnswerLocals DEF OfferProcs
<1>1. ASSUME NEW l, act' = [act EXCEPT ![x] = l], l.pc \notin Deciding,
             act[x].pc # "idle" \/ MayAct(x), UNCHANGED offers,
             l.pc \in Tied => offers[l.o].tx = l.p
      PROVE  AnswerInv'
  BY <1>0, <1>1, AnswerStep
<1>2. ASSUME act[x].pc \in Tied, NEW l, act' = [act EXCEPT ![x] = l], l.pc \notin Deciding,
             l.o = act[x].o, l.p = act[x].p,
             NEW row, offers' = [offers EXCEPT ![act[x].o] = row],
             row.tx = offers[act[x].o].tx, row.status = "ACCEPTED"
      PROVE  AnswerInv'
  <2>1. /\ offers'[act[x].o] = row /\ \A q \in Offers \ {act[x].o} : offers'[q] = offers[q]
        /\ act[x].pc # "idle" /\ act[x].p # None
    BY <1>0, <1>2, NoneIsNoKey DEF Tied
  <2>2. payments'[act[x].p].intent \notin Loose
    <3>1. payments[act[x].p].intent \notin Loose
      BY <1>0, <1>2 DEF HeldInv, Tied, HookActPC, PaidPC
    <3>. QED  BY <1>0, <1>2, <3>1, EscrowOnward DEF Loose
  <2>3. offers[act[x].o].status # "PENDING"
    BY <1>0, <1>2, <2>1 DEF AnswerInv
  <2>4. MayWrite(x, act[x].o)
    BY <1>0, <1>2, <2>1, <2>2, <2>3 DEF MayWrite
  <2>. QED  BY <1>0, <1>2, <2>1, <2>4, AnswerStep
<1>3. OfferIdle.pc \notin Tied \cup Deciding
  BY DEF OfferIdle, Tied, Deciding
<1>4. ASSUME Finish(x), act[x].pc # "idle", UNCHANGED offers PROVE AnswerInv'
  BY <1>1, <1>3, <1>4 DEF Finish
<1>5. ASSUME NEW p \in Payments, CapturableFind(x, p) PROVE AnswerInv'
  <2>1. PICK o \in OffersOf(p), pc \in {"capturable_tx", "capturable_read"} :
          /\ pc = "capturable_read" => o # None
          /\ act' = [act EXCEPT ![x] = [OfferIdle EXCEPT !.p = p, !.o = o, !.pc = pc]]
    BY <1>5 DEF CapturableFind, Begin
  <2> DEFINE l == [OfferIdle EXCEPT !.p = p, !.o = o, !.pc = pc]
  <2>2. act' = [act EXCEPT ![x] = l] /\ l.pc = pc /\ l.o = o /\ l.p = p
    BY <2>1 DEF OfferIdle
  <2>3. l.pc \notin Deciding /\ (l.pc \in Tied => o # None)
    BY <2>1, <2>2 DEF Deciding, Tied
  <2>4. o # None => offers[o].tx = p
    BY <2>1 DEF OffersOf
  <2> HIDE DEF l
  <2>. QED  BY <1>1, <1>5, <2>2, <2>3, <2>4 DEF CapturableFind, OfferDeliver
<1>6. CASE CapturableRead(x)
  <2>1. PICK b, confirmed : act' = [act EXCEPT ![x] =
          [@ EXCEPT !.pc = "capturable_accept", !.b = b, !.confirmed = confirmed]]
    BY <1>6 DEF CapturableRead
  <2> DEFINE l == [act[x] EXCEPT !.pc = "capturable_accept", !.b = b, !.confirmed = confirmed]
  <2>2. act' = [act EXCEPT ![x] = l] /\ l.pc = "capturable_accept" /\ l.o = act[x].o /\ l.p = act[x].p
    BY <1>0, <2>1 DEF OfferLocal
  <2>3. act[x].pc \in Tied /\ l.pc \notin Deciding /\ act[x].pc # "idle"
    BY <1>6, <2>2 DEF CapturableRead, Tied, Deciding
  <2> HIDE DEF l
  <2>. QED  BY <1>0, <1>1, <1>6, <2>2, <2>3 DEF CapturableRead
<1>7. CASE CapturableAccept(x)
  <2> DEFINE l == [act[x] EXCEPT !.pc = "capturable_link"]
             row == [offers[act[x].o] EXCEPT !.status = "ACCEPTED"]
  <2>1. /\ act' = [act EXCEPT ![x] = l] /\ l.pc = "capturable_link" /\ l.o = act[x].o /\ l.p = act[x].p
    BY <1>0, <1>7 DEF CapturableAccept, Advance, OfferLocal
  <2>2. act[x].pc \in Tied /\ l.pc \notin Deciding
    BY <1>7, <2>1 DEF CapturableAccept, Tied, Deciding
  <2>3. /\ offers' = [offers EXCEPT ![act[x].o] = row]
        /\ row.tx = offers[act[x].o].tx /\ row.status = "ACCEPTED"
    BY <1>0, <1>7, <2>2 DEF CapturableAccept, OfferRow
  <2> HIDE DEF l, row
  <2>. QED  BY <1>2, <2>1, <2>2, <2>3
<1>8. CASE CapturableLink(x)
  <2> DEFINE l == [act[x] EXCEPT !.pc = "capturable_tx"]
  <2>1. act' = [act EXCEPT ![x] = l] /\ l.pc \notin Tied \cup Deciding
    BY <1>0, <1>8 DEF CapturableLink, Advance, OfferLocal, Tied, Deciding
  <2> HIDE DEF l
  <2>. QED  BY <1>1, <1>8, <2>1 DEF CapturableLink
<1>9. CASE CapturableTx(x)
  BY <1>4, <1>9 DEF CapturableTx
<1>10. ASSUME NEW p \in Payments, PaidUpdateTx(x, p) PROVE AnswerInv'
  <2> DEFINE l == [OfferIdle EXCEPT !.pc = "paid_find", !.p = p]
  <2>1. act' = [act EXCEPT ![x] = l] /\ l.pc \notin Tied \cup Deciding
    BY <1>10 DEF PaidUpdateTx, Begin, OfferIdle, Tied, Deciding
  <2> HIDE DEF l
  <2>. QED  BY <1>1, <1>10, <2>1 DEF PaidUpdateTx, OfferDeliver
<1>11. CASE PaidFind(x)
  <2>1. CASE Finish(x)
    BY <1>4, <1>11, <2>1 DEF PaidFind
  <2>2. ASSUME NEW o \in OffersOf(act[x].p), o # None, NEW paid,
               act' = [act EXCEPT ![x] = [@ EXCEPT !.pc = "paid_accept", !.o = o, !.paid = paid]]
        PROVE  AnswerInv'
    <3> DEFINE l == [act[x] EXCEPT !.pc = "paid_accept", !.o = o, !.paid = paid]
    <3>1. /\ act' = [act EXCEPT ![x] = l] /\ l.pc = "paid_accept" /\ l.o = o /\ l.p = act[x].p
      BY <1>0, <2>2 DEF OfferLocal
    <3>2. l.pc \notin Deciding /\ offers[o].tx = act[x].p
      BY <2>2, <3>1 DEF OffersOf, Deciding
    <3> HIDE DEF l
    <3>. QED  BY <1>1, <1>11, <3>1, <3>2 DEF PaidFind
  <2>. QED  BY <1>11, <2>1, <2>2 DEF PaidFind
<1>12. CASE PaidAccept(x)
  <2> DEFINE l == [act[x] EXCEPT !.pc = "paid_apply"]
             row == [offers[act[x].o] EXCEPT !.status = "ACCEPTED", !.due = 0,
                                !.paid = act[x].paid + payments[act[x].p].amount]
  <2>1. /\ act' = [act EXCEPT ![x] = l] /\ l.pc = "paid_apply" /\ l.o = act[x].o /\ l.p = act[x].p
    BY <1>0, <1>12 DEF PaidAccept, Advance, OfferLocal
  <2>2. act[x].pc \in Tied /\ l.pc \notin Deciding
    BY <1>12, <2>1 DEF PaidAccept, Tied, Deciding
  <2>3. /\ offers' = [offers EXCEPT ![act[x].o] = row]
        /\ row.tx = offers[act[x].o].tx /\ row.status = "ACCEPTED"
    BY <1>0, <1>12, <2>2 DEF PaidAccept, OfferRow
  <2> HIDE DEF l, row
  <2>. QED  BY <1>2, <2>1, <2>2, <2>3
<1>13. CASE PaidApply(x)
  BY <1>4, <1>13 DEF PaidApply
<1>. QED
  BY <1>5, <1>6, <1>7, <1>8, <1>9, <1>10, <1>11, <1>12, <1>13 DEF OfferHook

\* So one answer at a time keeps an offer's status and payment in step.
LEMMA AnswerNext ==
  ASSUME OneAnswer, OfferTypeInv, OfferLedgerInv, HeldInv, AnswerInv, [OfferNext]_allVars
  PROVE  AnswerInv'
<1>0. EscrowStep
  BY OfferLedgerNext
<1>1. CASE UNCHANGED offerVars
  <2>1. \A o \in Offers : offers[o].tx \in Payments \cup {None}
    BY DEF OfferTypeInv, OfferTypeOK, OfferRow
  <2>. QED  BY <1>0, <1>1, <2>1, EscrowOnward DEF offerVars, AnswerInv, AcceptedOffersHeld
<1>2. ASSUME NEW x \in OfferProcs, OfferStops(x) PROVE AnswerInv'
  <2>1. OfferIdle.pc \notin Tied \cup Deciding
    BY DEF OfferIdle, Tied, Deciding
  <2>. QED  BY <1>0, <1>2, <2>1, AnswerStep DEF OfferStops, Finish
<1>. QED
  BY <1>0, <1>1, <1>2, AnswerRequests, AnswerHooks DEF OfferNext, allVars, offerVars

\* Before the first offer nothing is answered.
LEMMA AnswerStarts == ASSUME OfferInit PROVE HeldInv /\ AnswerInv
<1>1. /\ \A o \in Offers : offers[o].tx = None
      /\ \A x \in OfferProcs : act[x].pc = "idle"
      /\ \A h \in Hooks : proc[h].pc = "idle"
      /\ events = {}
  BY DEF OfferInit, Init, NoOffer, OfferIdle, Idle, Procs
<1>. QED
  BY <1>1 DEF HeldInv, AnswerInv, AcceptedOffersHeld, HookActPC, PaidPC, Deciding, Tied, OfferProcs

\* With one answer at a time, what the answers know holds in every behaviour.
LEMMA AnswerInvariant == ASSUME OneAnswer PROVE OfferSpec => [](HeldInv /\ AnswerInv)
<1>1. OfferInit => HeldInv /\ AnswerInv
  BY AnswerStarts
<1>2. OfferTypeInv /\ OfferLedgerInv /\ HeldInv /\ AnswerInv /\ [OfferNext]_allVars
        => (HeldInv /\ AnswerInv)'
  BY HeldNext, AnswerNext
<1>. QED
  BY <1>1, <1>2, OfferLedgerInvariant, PTL DEF OfferSpec

\* As long as a chat answers one request about offers at a time, an offer that left
\* something to pay is ACCEPTED only once the athlete's card was held for it, whatever
\* events Stripe repeats or reorders and wherever a handler stops.
THEOREM AcceptedMeansHeld == ASSUME OneAnswer PROVE OfferSpec => []AcceptedOffersHeld
<1>1. AnswerInv => AcceptedOffersHeld
  BY DEF AnswerInv
<1>. QED
  BY <1>1, AnswerInvariant, PTL

\* Under the same assumption a declined offer is never charged: it names no payment.
THEOREM DeclinedIsNotCharged == ASSUME OneAnswer PROVE OfferSpec => []DeclinedNeverCharged
<1>1. AnswerInv => DeclinedNeverCharged
  BY DEF AnswerInv, DeclinedNeverCharged
<1>. QED
  BY <1>1, AnswerInvariant, PTL

-----------------------------------------------------------------------------
(* The figures of an offer: as long as each event is delivered and handled *)
(* once, a payment is counted in paid_amount once.                         *)

\* The event of a success is in the queue or with one webhook, never with both.
OnceInv ==
    \A x \in OfferProcs : act[x].pc \in Counting =>
        /\ EventsOf(act[x].p, "succeeded") \notin events
        /\ \A y \in OfferProcs : act[y].pc \in Counting /\ act[y].p = act[x].p => x = y

\* Without faults handlers of offers only take events.
LEMMA OfferTakes ==
  ASSUME ~Faults, OfferStep PROVE events' \subseteq events
<1>1. ASSUME NEW x \in OfferRequests, Send(x) \/ Accept(x) \/ Decline(x) PROVE UNCHANGED events
  BY <1>1 DEF Send, SendRead, SendCreate, Accept, AcceptRead, AcceptFree, AcceptApply, AcceptPay,
       AcceptMark, AcceptLink, Decline, DeclineRead, DeclineWrite, vars
<1>2. ASSUME NEW x \in OfferHooks, OfferHook(x) PROVE events' \subseteq events
  BY <1>2 DEF OfferHook, CapturableFind, PaidUpdateTx, OfferDeliver, CapturableRead,
       CapturableAccept, CapturableLink, CapturableTx, PaidFind, PaidAccept, PaidApply, vars
<1>. QED
  BY <1>1, <1>2 DEF OfferStep, OfferStops

\* How a webhook gets to count a payment.
LEMMA CountingActs ==
  ASSUME OfferTypeInv, OfferStep, NEW x \in OfferProcs, act'[x].pc \in Counting
  PROVE  \/ act[x].pc \in Counting /\ act'[x].p = act[x].p
         \/ Took(x, EventsOf(act'[x].p, "succeeded"))
<1>1. act'[x].pc \in HookActPC /\ ActKind(act'[x].pc) = "succeeded"
  BY DEF Counting, HookActPC, PaidPC, ActKind
<1>. QED
  BY <1>1, HookActs

\* Every step keeps an offer charged once.
LEMMA OnceNext ==
  ASSUME ~Redeliver, ~Faults, OfferTypeInv, OfferLedgerInv, OnceInv, [OfferNext]_allVars
  PROVE  OnceInv'
<1>0. \A x \in OfferProcs : act[x].pc \in Counting =>
         act[x].p \in Payments /\ payments[act[x].p].intent = "succeeded"
  BY DEF OfferTypeInv, ActNamed, PaymentUsers, HookActPC, PaidPC, Counting, OfferLedgerInv, PaidInv
<1>1. CASE [Next]_vars /\ UNCHANGED offerVars
  <2>1. ASSUME NEW x \in OfferProcs, act[x].pc \in Counting, EventsOf(act[x].p, "succeeded") \in events'
        PROVE  FALSE
    <3>1. EventsOf(act[x].p, "succeeded") \notin events
      BY <2>1 DEF OnceInv
    <3>2. /\ EventsOf(act[x].p, "succeeded").kind = "succeeded"
          /\ EventsOf(act[x].p, "succeeded").p = act[x].p
      BY DEF EventsOf
    <3>3. TypeInv
      BY DEF OfferTypeInv
    <3>. QED  BY <1>0, <1>1, <2>1, <3>1, <3>2, <3>3, NextEvents
  <2>. QED  BY <1>1, <2>1 DEF OnceInv, offerVars
<1>2. CASE OfferStep
  <2>0. events' \subseteq events
    BY <1>2, OfferTakes
  <2>1. SUFFICES ASSUME NEW x \in OfferProcs, act'[x].pc \in Counting
                 PROVE  /\ EventsOf(act'[x].p, "succeeded") \notin events'
                        /\ \A y \in OfferProcs :
                             act'[y].pc \in Counting /\ act'[y].p = act'[x].p => x = y
    BY DEF OnceInv
  <2>2. ASSUME NEW y \in OfferProcs, act'[y].pc \in Counting
        PROVE  \/ /\ act[y].pc \in Counting /\ act'[y].p = act[y].p
                  /\ EventsOf(act'[y].p, "succeeded") \notin events
               \/ Took(y, EventsOf(act'[y].p, "succeeded"))
    BY <1>2, <2>2, CountingActs DEF OnceInv
  <2>3. EventsOf(act'[x].p, "succeeded") \notin events'
    BY <2>0, <2>1, <2>2 DEF Took
  <2>4. ASSUME NEW y \in OfferProcs, act'[y].pc \in Counting, act'[y].p = act'[x].p, x # y
        PROVE  FALSE
    <3>1. CASE Took(x, EventsOf(act'[x].p, "succeeded"))
      <4>1. act[y].pc \in Counting /\ act[y].p = act'[x].p
        BY <2>4, <3>1 DEF Took
      <4>. QED  BY <3>1, <4>1 DEF OnceInv, Took
    <3>2. CASE Took(y, EventsOf(act'[y].p, "succeeded"))
      <4>1. act[x].pc \in Counting /\ act[x].p = act'[y].p
        BY <2>1, <2>4, <3>2 DEF Took
      <4>. QED  BY <3>2, <4>1 DEF OnceInv, Took
    <3>3. CASE /\ act[x].pc \in Counting /\ act'[x].p = act[x].p
               /\ act[y].pc \in Counting /\ act'[y].p = act[y].p
      BY <2>4, <3>3 DEF OnceInv
    <3>. QED  BY <2>1, <2>2, <2>4, <3>1, <3>2, <3>3
  <2>. QED  BY <2>3, <2>4
<1>3. [OfferNext]_allVars => OfferStep \/ ([Next]_vars /\ UNCHANGED offerVars)
  BY DEF OfferNext, OfferStep, allVars, offerVars
<1>. QED
  BY <1>1, <1>2, <1>3

\* The success of payment p has not been counted yet.
Uncounted(p) ==
    \/ payments[p].intent # "succeeded"
    \/ EventsOf(p, "succeeded") \in events
    \/ \E x \in OfferProcs : act[x].pc \in Counting /\ act[x].p = p

\* It was not counted before either.
LEMMA UncountedBefore ==
  ASSUME OfferTypeInv, OfferLedgerInv, ~Faults, [OfferNext]_allVars,
         NEW p \in Payments, Uncounted(p)'
  PROVE  Uncounted(p)
<1>0. EscrowStep /\ TypeInv
  BY OfferLedgerNext DEF OfferTypeInv
<1>1. CASE payments'[p].intent # "succeeded"
  BY <1>0, <1>1, EscrowOnward DEF Uncounted, Final
<1>2. CASE EventsOf(p, "succeeded") \in events' /\ EventsOf(p, "succeeded") \notin events
  <2>1. [Next]_vars
    BY <1>2, OfferTakes DEF OfferNext, OfferStep, allVars
  <2>2. EventsOf(p, "succeeded").kind = "succeeded" /\ EventsOf(p, "succeeded").p = p
    BY DEF EventsOf
  <2>3. payments[p].intent = "held"
    BY <1>0, <1>2, <2>1, <2>2, NextEvents
  <2>. QED  BY <2>3 DEF Uncounted
<1>3. ASSUME NEW x \in OfferProcs, act'[x].pc \in Counting, act'[x].p = p PROVE Uncounted(p)
  <2>1. CASE OfferStep
    BY <1>3, <2>1, CountingActs DEF Uncounted, Took
  <2>2. CASE UNCHANGED offerVars
    BY <1>3, <2>2 DEF Uncounted, offerVars
  <2>. QED  BY <2>1, <2>2 DEF OfferNext, OfferStep, allVars, offerVars
<1>. QED
  BY <1>1, <1>2, <1>3 DEF Uncounted

\* The figures of one offer, and what a handler knows of those of its own.
Balanced(o) ==
    /\ offers[o].status # "ABSENT" /\ offers[o].paid + offers[o].due # offers[o].total
         => offers[o].paid > offers[o].total /\ offers[o].due = 0 /\ offers[o].tx = None
    /\ offers[o].tx # None /\ Uncounted(offers[o].tx)
         => offers[o].due = payments[offers[o].tx].amount

Knows(l) ==
    /\ l.pc = "accept_free" => offers[l.o].due = 0
    /\ l.pc = "accept_pay" => offers[l.o].due # 0
    /\ l.pc = "accept_mark" => offers[l.o].due # 0 /\ payments[l.p].amount = offers[l.o].due
    /\ l.pc = "paid_accept" => l.paid = offers[l.o].paid

BalanceInv ==
    /\ \A o \in Offers : Balanced(o)
    /\ \A x \in OfferProcs : Knows(act[x])

\* What handler x may do to the figures of offer o.
MayRefigure(x, o) ==
    /\ offers[o].status = "PENDING" => x \in OfferRequests
    /\ \A y \in OfferProcs \ {x} : act[y].pc = "paid_accept" /\ act[y].o = o
                                     => offers'[o].paid = offers[o].paid
    /\ Balanced(o)'

\* A step of one handler keeps the figures when those it writes balance, and when it
\* knows its offer's.
LEMMA BalanceStep ==
  ASSUME OneAnswer, ~Faults, OfferTypeInv, OfferLedgerInv, OfferLinkInv, AnswerInv, BalanceInv,
         [OfferNext]_allVars, NEW x \in OfferProcs, NEW l,
         act' = [act EXCEPT ![x] = l], act[x].pc # "idle" \/ MayAct(x),
         \A o \in Offers : offers'[o] = offers[o] \/ MayRefigure(x, o),
         Knows(l)'
  PROVE  BalanceInv'
<1>0. /\ act'[x] = l /\ \A y \in OfferProcs \ {x} : act'[y] = act[y]
      /\ RowsOnward
  BY OfferLedgerNext DEF OfferTypeInv, OfferTypeOK
<1>1. x \in OfferRequests => \A y \in OfferRequests \ {x} : act[y].pc = "idle"
  BY DEF OneAnswer, MayAct, Quiet, AnswerInv, OfferProcs
<1>2. ASSUME NEW o \in Offers PROVE Balanced(o)'
  <2>1. CASE offers'[o] = offers[o]
    <3>1. Balanced(o)
      BY DEF BalanceInv
    <3>2. ASSUME offers[o].tx # None, Uncounted(offers[o].tx)'
          PROVE  offers'[o].due = payments'[offers'[o].tx].amount
      <4>1. offers[o].tx \in Payments
        BY <3>2 DEF OfferTypeInv, OfferTypeOK, OfferRow
      <4>2. PICK p \in Payments : p = offers[o].tx
        BY <4>1
      <4>3. offers'[o].tx = p
        BY <2>1, <4>2
      <4>4. Uncounted(p)'
        BY <3>2, <4>3
      <4>5. Uncounted(p)
        BY <4>4, UncountedBefore
      <4>6. payments'[p].amount = payments[p].amount
        BY <1>0, <3>2, <4>2 DEF OfferLinkInv, OwnOrNone, Own, RowsOnward
      <4>. QED  BY <2>1, <3>1, <3>2, <4>2, <4>5, <4>6 DEF Balanced
    <3>. QED  BY <2>1, <3>1, <3>2 DEF Balanced
  <2>2. CASE MayRefigure(x, o)
    BY <2>2 DEF MayRefigure
  <2>. QED  BY <2>1, <2>2
<1>3. ASSUME NEW y \in OfferProcs PROVE Knows(act[y])'
  <2>1. CASE y = x
    BY <1>0, <2>1 DEF Knows
  <2>2. CASE y # x
    <3>0. act'[y] = act[y] /\ Knows(act[y]) /\ ActNamed(y, act[y], offers) /\ OfferHolding(act[y])
      BY <1>0, <2>2 DEF OfferTypeInv, BalanceInv, OfferLinkInv
    <3>1. CASE act[y].pc \in {"accept_free", "accept_pay", "accept_mark"}
      <4>1. act[y].pc \in Deciding
        BY <3>1 DEF Deciding
      <4>2. act[y].o \in Offers /\ offers[act[y].o].status = "PENDING"
        BY <4>1, AnswerLocals
      <4>3. y \in OfferRequests /\ act[y].pc # "idle"
        BY <3>0, <3>1 DEF ActNamed, HookActPC, PaidPC, OfferProcs
      <4>4. offers'[act[y].o] = offers[act[y].o]
        BY <1>1, <2>2, <4>2, <4>3 DEF MayRefigure
      <4>5. act[y].pc = "accept_mark" => /\ act[y].p \in Payments
                                         /\ payments'[act[y].p].amount = payments[act[y].p].amount
        BY <1>0, <3>0 DEF ActNamed, PaymentUsers, OfferHolding, OfferHolders, Own, RowsOnward
      <4>. QED  BY <3>0, <3>1, <4>4, <4>5 DEF Knows
    <3>2. CASE act[y].pc = "paid_accept"
      <4>1. act[y].o \in Offers
        BY <3>0, <3>2 DEF ActNamed, OfferUsers
      <4>2. offers'[act[y].o].paid = offers[act[y].o].paid
        BY <2>2, <3>2, <4>1 DEF MayRefigure
      <4>. QED  BY <3>0, <3>2, <4>2 DEF Knows
    <3>. QED  BY <3>0, <3>1, <3>2 DEF Knows
  <2>. QED  BY <2>1, <2>2
<1>. QED
  BY <1>2, <1>3 DEF BalanceInv

\* The steps of the requests about offers,
LEMMA BalanceRequests ==
  ASSUME OneAnswer, ~Faults, OfferTypeInv, OfferLedgerInv, OfferLinkInv, AnswerInv, BalanceInv,
         [OfferNext]_allVars, NEW x \in OfferRequests, Send(x) \/ Accept(x) \/ Decline(x)
  PROVE  BalanceInv'
<1> USE DEF Acting
<1>0. /\ x \in OfferProcs /\ act[x] \in OfferLocal /\ offers \in [Offers -> OfferRow]
      /\ act[x].pc \in Deciding => act[x].o \in Offers /\ offers[act[x].o].status = "PENDING"
      /\ \A o \in Offers : Balanced(o)
      /\ \A o \in Offers : offers[o].status \in {"ABSENT", "PENDING"} => offers[o].tx = None
      /\ payments \in [Payments -> PaymentRow] /\ RowsOnward
  BY AnswerLocals, OfferLedgerNext DEF OfferProcs, AnswerInv, BalanceInv, OfferTypeInv, TypeInv, TypeOK
<1>1. ASSUME NEW l, act' = [act EXCEPT ![x] = l], act[x].pc # "idle" \/ MayAct(x),
             UNCHANGED offers, l.pc # "paid_accept",
             l.pc = "accept_free" => offers[l.o].due = 0,
             l.pc = "accept_pay" => offers[l.o].due # 0,
             l.pc = "accept_mark" => offers[l.o].due # 0 /\ payments'[l.p].amount = offers[l.o].due
      PROVE  BalanceInv'
  <2>1. Knows(l)'
    BY <1>1 DEF Knows
  <2>. QED  BY <1>0, <1>1, <2>1, BalanceStep
<1>2. ASSUME NEW l, act' = [act EXCEPT ![x] = l], act[x].pc # "idle",
             l.pc \notin {"accept_free", "accept_pay", "accept_mark", "paid_accept"},
             NEW o \in Offers, offers[o].tx = None, NEW row, offers' = [offers EXCEPT ![o] = row],
             row.paid + row.due # row.total => row.paid > row.total /\ row.due = 0 /\ row.tx = None,
             row.tx = None \/ row.due = payments'[row.tx].amount
      PROVE  BalanceInv'
  <2>1. offers'[o] = row /\ \A q \in Offers \ {o} : offers'[q] = offers[q]
    BY <1>0, <1>2
  <2>2. Knows(l)'
    BY <1>2 DEF Knows
  <2>3. ASSUME NEW y \in OfferProcs, act[y].pc = "paid_accept", act[y].o = o PROVE FALSE
    BY <1>2, <2>3, AnswerLocals, NoneIsNoKey DEF Tied
  <2>4. Balanced(o)'
    BY <1>2, <2>1 DEF Balanced
  <2>5. MayRefigure(x, o)
    BY <2>3, <2>4 DEF MayRefigure
  <2>. QED  BY <1>0, <1>2, <2>1, <2>2, <2>5, BalanceStep
<1>3. OfferIdle.pc = "idle"
  BY DEF OfferIdle
<1>4. ASSUME NEW b \in Bookings, SendRead(x, b) PROVE BalanceInv'
  <2> DEFINE l == [OfferIdle EXCEPT !.pc = "send_create", !.b = b, !.p = bookings[b].tx]
  <2>1. act' = [act EXCEPT ![x] = l] /\ l.pc = "send_create"
    BY <1>4 DEF SendRead, Begin, OfferIdle
  <2> HIDE DEF l
  <2>. QED  BY <1>1, <1>4, <2>1 DEF SendRead
<1>5. ASSUME NEW total \in Totals, NEW s \in Slots, SendCreate(x, total, s) PROVE BalanceInv'
  <2>1. total \in Nat /\ (act[x].p # None => payments[act[x].p].amount \in Nat)
    <3>1. act[x].p \in Payments \cup {None}
      BY <1>0 DEF OfferLocal
    <3>. QED  BY <1>0, <3>1, TotalsAreAmounts DEF PaymentRow
  <2>2. PICK o \in Offers, paid \in Nat :
          /\ offers[o].status = "ABSENT"
          /\ offers' = [offers EXCEPT ![o] =
                [status |-> "PENDING", booking |-> act[x].b, slot |-> s, total |-> total,
                 paid |-> paid, due |-> DueOf(total, paid), tx |-> None]]
    BY <1>5, <2>1 DEF SendCreate
  <2> DEFINE row == [status |-> "PENDING", booking |-> act[x].b, slot |-> s, total |-> total,
                     paid |-> paid, due |-> DueOf(total, paid), tx |-> None]
  <2>3. /\ offers' = [offers EXCEPT ![o] = row] /\ row.tx = None
        /\ row.paid = paid /\ row.total = total /\ row.due = DueOf(total, paid)
    BY <2>2
  <2> HIDE DEF row
  <2>4. row.paid + row.due # row.total => row.paid > row.total /\ row.due = 0
    BY <2>1, <2>3 DEF DueOf
  <2>5. act' = [act EXCEPT ![x] = OfferIdle] /\ act[x].pc # "idle"
    BY <1>5 DEF SendCreate, Finish
  <2>6. offers[o].tx = None
    BY <1>0, <2>2
  <2>. QED  BY <1>2, <1>3, <2>2, <2>3, <2>4, <2>5, <2>6
<1>6. ASSUME NEW o \in Offers, AcceptRead(x, o) PROVE BalanceInv'
  <2>1. PICK pc \in {"accept_free", "accept_pay"} :
          /\ pc = "accept_free" <=> offers[o].due = 0
          /\ act' = [act EXCEPT ![x] = [OfferIdle EXCEPT !.o = o, !.b = offers[o].booking, !.pc = pc]]
    BY <1>6 DEF AcceptRead, Begin
  <2> DEFINE l == [OfferIdle EXCEPT !.o = o, !.b = offers[o].booking, !.pc = pc]
  <2>2. act' = [act EXCEPT ![x] = l] /\ l.pc = pc /\ l.o = o
    BY <2>1 DEF OfferIdle
  <2> HIDE DEF l
  <2>. QED  BY <1>1, <1>6, <2>1, <2>2 DEF AcceptRead
<1>7. CASE AcceptFree(x)
  <2> DEFINE l == [act[x] EXCEPT !.pc = "accept_apply"]
             row == [offers[act[x].o] EXCEPT !.status = "ACCEPTED", !.due = 0]
  <2>1. act' = [act EXCEPT ![x] = l] /\ l.pc = "accept_apply"
    BY <1>0, <1>7 DEF AcceptFree, Advance, OfferLocal
  <2>2. /\ act[x].o \in Offers /\ offers[act[x].o].status = "PENDING" /\ act[x].pc # "idle"
        /\ offers[act[x].o].due = 0
    BY <1>0, <1>7 DEF AcceptFree, Deciding, BalanceInv, Knows
  <2>3. /\ offers' = [offers EXCEPT ![act[x].o] = row] /\ row.tx = None /\ row.due = 0
        /\ row.paid = offers[act[x].o].paid /\ row.total = offers[act[x].o].total
    BY <1>0, <1>7, <2>2 DEF AcceptFree, OfferRow
  <2> HIDE DEF l, row
  <2>4. row.paid + row.due # row.total => row.paid > row.total
    BY <1>0, <2>2, <2>3 DEF Balanced
  <2>. QED  BY <1>0, <1>2, <2>1, <2>2, <2>3, <2>4
<1>8. CASE AcceptApply(x)
  BY <1>1, <1>3, <1>8 DEF AcceptApply, Finish
<1>9. CASE AcceptPay(x)
  <2>1. PICK p \in Payments :
          /\ payments' = [payments EXCEPT ![p] =
                [NoPayment EXCEPT !.type = "custom_offer", !.booking = act[x].b,
                   !.amount = offers[act[x].o].due, !.status = "pending", !.intent = "open"]]
          /\ act' = [act EXCEPT ![x] = [@ EXCEPT !.pc = "accept_mark", !.p = p]]
    BY <1>9 DEF AcceptPay
  <2> DEFINE l == [act[x] EXCEPT !.pc = "accept_mark", !.p = p]
  <2>2. /\ act' = [act EXCEPT ![x] = l] /\ l.pc = "accept_mark" /\ l.o = act[x].o /\ l.p = p
    BY <1>0, <2>1 DEF OfferLocal
  <2>3. payments'[p].amount = offers[act[x].o].due
    BY <1>0, <2>1 DEF NoPayment
  <2>4. offers[act[x].o].due # 0
    BY <1>0, <1>9 DEF AcceptPay, BalanceInv, Knows
  <2> HIDE DEF l
  <2>. QED  BY <1>1, <1>9, <2>2, <2>3, <2>4 DEF AcceptPay
<1>10. CASE AcceptMark(x)
  <2> DEFINE l == [act[x] EXCEPT !.pc = "accept_link"]
             row == [offers[act[x].o] EXCEPT !.status = "PAYMENT_PENDING", !.tx = act[x].p]
  <2>1. act' = [act EXCEPT ![x] = l] /\ l.pc = "accept_link"
    BY <1>0, <1>10 DEF AcceptMark, Advance, OfferLocal
  <2>2. /\ act[x].o \in Offers /\ offers[act[x].o].status = "PENDING" /\ act[x].pc # "idle"
        /\ offers[act[x].o].due # 0 /\ payments[act[x].p].amount = offers[act[x].o].due
    BY <1>0, <1>10 DEF AcceptMark, Deciding, BalanceInv, Knows
  <2>3. /\ offers' = [offers EXCEPT ![act[x].o] = row] /\ row.tx = act[x].p
        /\ row.due = offers[act[x].o].due
        /\ row.paid = offers[act[x].o].paid /\ row.total = offers[act[x].o].total
    BY <1>0, <1>10, <2>2 DEF AcceptMark, OfferRow
  <2> HIDE DEF l, row
  <2>4. row.paid + row.due = row.total
    BY <1>0, <2>2, <2>3 DEF Balanced
  <2>5. payments' = payments
    BY <1>10 DEF AcceptMark, vars
  <2>. QED  BY <1>0, <1>2, <2>1, <2>2, <2>3, <2>4, <2>5
<1>11. CASE AcceptLink(x)
  BY <1>1, <1>3, <1>11 DEF AcceptLink, Finish
<1>12. ASSUME NEW o \in Offers, DeclineRead(x, o) PROVE BalanceInv'
  <2> DEFINE l == [OfferIdle EXCEPT !.pc = "decline_write", !.o = o]
  <2>1. act' = [act EXCEPT ![x] = l] /\ l.pc = "decline_write"
    BY <1>12 DEF DeclineRead, Begin, OfferIdle
  <2> HIDE DEF l
  <2>. QED  BY <1>1, <1>12, <2>1 DEF DeclineRead
<1>13. CASE DeclineWrite(x)
  <2> DEFINE row == [offers[act[x].o] EXCEPT !.status = "DECLINED"]
  <2>1. /\ act[x].o \in Offers /\ offers[act[x].o].status = "PENDING" /\ act[x].pc # "idle"
    BY <1>0, <1>13 DEF DeclineWrite, Deciding
  <2>2. /\ offers' = [offers EXCEPT ![act[x].o] = row] /\ row.tx = None
        /\ row.due = offers[act[x].o].due
        /\ row.paid = offers[act[x].o].paid /\ row.total = offers[act[x].o].total
    BY <1>0, <1>13, <2>1 DEF DeclineWrite, OfferRow
  <2> HIDE DEF row
  <2>3. row.paid + row.due # row.total => row.paid > row.total /\ row.due = 0
    BY <1>0, <2>1, <2>2 DEF Balanced
  <2>. QED  BY <1>0, <1>2, <1>3, <1>13, <2>1, <2>2, <2>3 DEF DeclineWrite, Finish
<1>. QED
  BY <1>4, <1>5, <1>6, <1>7, <1>8, <1>9, <1>10, <1>11, <1>12, <1>13 DEF Send, Accept, Decline

\* and those of the webhook about offers.
LEMMA BalanceHooks ==
  ASSUME OneAnswer, ~Faults, OfferTypeInv, OfferLedgerInv, OfferLinkInv, AnswerInv, BalanceInv,
         OnceInv, OnceInv', [OfferNext]_allVars, NEW x \in OfferHooks, OfferHook(x)
  PROVE  BalanceInv'
<1> USE DEF Acting
<1>0. /\ x \in OfferProcs /\ act[x] \in OfferLocal /\ offers \in [Offers -> OfferRow]
      /\ act[x].pc \in Tied => /\ act[x].o \in Offers /\ act[x].p \in Payments
                               /\ offers[act[x].o].tx = act[x].p
      /\ \A o \in Offers : Balanced(o)
      /\ act \in [OfferProcs -> OfferLocal]
  BY AnswerLocals DEF OfferProcs, BalanceInv, OfferTypeInv, OfferTypeOK
<1>1. ASSUME NEW l, act' = [act EXCEPT ![x] = l], act[x].pc # "idle" \/ MayAct(x),
             UNCHANGED offers, l.pc \notin {"accept_free", "accept_pay", "accept_mark"},
             l.pc = "paid_accept" => l.paid = offers[l.o].paid
      PROVE  BalanceInv'
  <2>1. Knows(l)'
    BY <1>1 DEF Knows
  <2>. QED  BY <1>0, <1>1, <2>1, BalanceStep
<1>2. OfferIdle.pc = "idle"
  BY DEF OfferIdle
<1>3. ASSUME Finish(x), act[x].pc # "idle", UNCHANGED offers PROVE BalanceInv'
  BY <1>1, <1>2, <1>3 DEF Finish
<1>4. ASSUME NEW p \in Payments, CapturableFind(x, p) PROVE BalanceInv'
  <2>1. PICK o \in OffersOf(p), pc \in {"capturable_tx", "capturable_read"} :
          act' = [act EXCEPT ![x] = [OfferIdle EXCEPT !.p = p, !.o = o, !.pc = pc]]
    BY <1>4 DEF CapturableFind, Begin
  <2> DEFINE l == [OfferIdle EXCEPT !.p = p, !.o = o, !.pc = pc]
  <2>2. act' = [act EXCEPT ![x] = l] /\ l.pc = pc
    BY <2>1 DEF OfferIdle
  <2> HIDE DEF l
  <2>. QED  BY <1>1, <1>4, <2>2 DEF CapturableFind, OfferDeliver
<1>5. CASE CapturableRead(x)
  <2>1. PICK b, confirmed : act' = [act EXCEPT ![x] =
          [@ EXCEPT !.pc = "capturable_accept", !.b = b, !.confirmed = confirmed]]
    BY <1>5 DEF CapturableRead
  <2> DEFINE l == [act[x] EXCEPT !.pc = "capturable_accept", !.b = b, !.confirmed = confirmed]
  <2>2. act' = [act EXCEPT ![x] = l] /\ l.pc = "capturable_accept"
    BY <1>0, <2>1 DEF OfferLocal
  <2> HIDE DEF l
  <2>. QED  BY <1>1, <1>5, <2>2 DEF CapturableRead
<1>6. CASE CapturableAccept(x)
  <2> DEFINE l == [act[x] EXCEPT !.pc = "capturable_link"]
             row == [offers[act[x].o] EXCEPT !.status = "ACCEPTED"]
  <2>1. act' = [act EXCEPT ![x] = l] /\ l.pc = "capturable_link"
    BY <1>0, <1>6 DEF CapturableAccept, Advance, OfferLocal
  <2>2. act[x].pc \in Tied /\ act[x].pc # "idle"
    BY <1>6 DEF CapturableAccept, Tied
  <2>3. PICK o \in Offers : o = act[x].o
    BY <1>0, <2>2
  <2>4. /\ offers' = [offers EXCEPT ![o] = row]
        /\ row.tx = offers[o].tx /\ row.due = offers[o].due
        /\ row.paid = offers[o].paid /\ row.total = offers[o].total
    BY <1>0, <1>6, <2>3 DEF CapturableAccept, OfferRow
  <2> HIDE DEF l, row
  <2>5. /\ \A q \in Offers \ {o} : offers'[q] = offers[q]
        /\ offers'[o].tx = offers[o].tx /\ offers'[o].due = offers[o].due
        /\ offers'[o].paid = offers[o].paid /\ offers'[o].total = offers[o].total
    BY <1>0, <2>4
  <2>6. offers[o].tx \in Payments /\ offers[o].status \notin {"ABSENT", "PENDING"}
    BY <1>0, <2>2, <2>3, NoneIsNoKey DEF AnswerInv
  <2>7. UNCHANGED payments
    BY <1>6 DEF CapturableAccept, vars
  <2>8. Uncounted(offers[o].tx)' => Uncounted(offers[o].tx)
    <3>1. PICK p \in Payments : p = offers[o].tx
      BY <2>6
    <3>2. Uncounted(offers[o].tx)' <=> Uncounted(p)'
      BY <2>5, <3>1
    <3>. QED  BY <3>1, <3>2, UncountedBefore
  <2>9. Balanced(o)'
    BY <1>0, <2>5, <2>6, <2>7, <2>8 DEF Balanced
  <2>10. MayRefigure(x, o)
    BY <2>5, <2>6, <2>9 DEF MayRefigure
  <2>11. ASSUME NEW m, m.pc = "capturable_link" PROVE Knows(m)'
    BY <2>11 DEF Knows
  <2>. QED  BY <1>0, <2>1, <2>2, <2>5, <2>10, <2>11, BalanceStep
<1>7. CASE CapturableLink(x)
  <2> DEFINE l == [act[x] EXCEPT !.pc = "capturable_tx"]
  <2>1. act' = [act EXCEPT ![x] = l] /\ l.pc = "capturable_tx"
    BY <1>0, <1>7 DEF CapturableLink, Advance, OfferLocal
  <2> HIDE DEF l
  <2>. QED  BY <1>1, <1>7, <2>1 DEF CapturableLink
<1>8. CASE CapturableTx(x)
  BY <1>3, <1>8 DEF CapturableTx
<1>9. ASSUME NEW p \in Payments, PaidUpdateTx(x, p) PROVE BalanceInv'
  <2> DEFINE l == [OfferIdle EXCEPT !.pc = "paid_find", !.p = p]
  <2>1. act' = [act EXCEPT ![x] = l] /\ l.pc = "paid_find"
    BY <1>9 DEF PaidUpdateTx, Begin, OfferIdle
  <2> HIDE DEF l
  <2>. QED  BY <1>1, <1>9, <2>1 DEF PaidUpdateTx, OfferDeliver
<1>10. CASE PaidFind(x)
  <2>1. CASE Finish(x)
    BY <1>3, <1>10, <2>1 DEF PaidFind
  <2>2. ASSUME NEW o,
               act' = [act EXCEPT ![x] = [@ EXCEPT !.pc = "paid_accept", !.o = o, !.paid = offers[o].paid]]
        PROVE  BalanceInv'
    <3> DEFINE l == [act[x] EXCEPT !.pc = "paid_accept", !.o = o, !.paid = offers[o].paid]
    <3>1. /\ act' = [act EXCEPT ![x] = l] /\ l.pc = "paid_accept" /\ l.o = o /\ l.paid = offers[o].paid
      BY <1>0, <2>2 DEF OfferLocal
    <3> HIDE DEF l
    <3>. QED  BY <1>1, <1>10, <3>1 DEF PaidFind
  <2>. QED  BY <1>10, <2>1, <2>2 DEF PaidFind
<1>11. CASE PaidAccept(x)
  <2> DEFINE l == [act[x] EXCEPT !.pc = "paid_apply"]
             row == [offers[act[x].o] EXCEPT !.status = "ACCEPTED", !.due = 0,
                                !.paid = act[x].paid + payments[act[x].p].amount]
  <2>1. act' = [act EXCEPT ![x] = l] /\ l.pc = "paid_apply"
    BY <1>0, <1>11 DEF PaidAccept, Advance, OfferLocal
  <2>2. act[x].pc \in Tied /\ act[x].pc \in Counting /\ act[x].pc # "idle"
    BY <1>11 DEF PaidAccept, Tied, Counting
  <2>3. PICK o \in Offers : o = act[x].o
    BY <1>0, <2>2
  <2>4. PICK p \in Payments : p = act[x].p /\ offers[o].tx = p
    BY <1>0, <2>2, <2>3
  <2>5. act[x].paid = offers[o].paid
    BY <1>0, <1>11, <2>3 DEF PaidAccept, BalanceInv, Knows
  <2>6. Uncounted(p)
    BY <1>0, <2>2, <2>4 DEF Uncounted
  <2>7. /\ offers[o].due = payments[p].amount /\ p # None
        /\ offers[o].status \notin {"ABSENT", "PENDING"}
        /\ offers[o].paid \in Nat /\ offers[o].due \in Nat /\ offers[o].total \in Nat
    BY <1>0, <2>4, <2>6, NoneIsNoKey DEF Balanced, AnswerInv, OfferRow
  <2>8. offers[o].paid + offers[o].due = offers[o].total
    BY <1>0, <2>4, <2>7 DEF Balanced
  <2>9. /\ offers' = [offers EXCEPT ![o] = row]
        /\ row.tx = p /\ row.due = 0 /\ row.total = offers[o].total
        /\ row.paid = offers[o].paid + payments[p].amount
    BY <1>0, <1>11, <2>3, <2>4, <2>5 DEF PaidAccept, OfferRow
  <2> HIDE DEF l, row
  <2>10. /\ \A q \in Offers \ {o} : offers'[q] = offers[q]
         /\ offers'[o].tx = p /\ offers'[o].due = 0
         /\ offers'[o].paid + offers'[o].due = offers'[o].total
    BY <1>0, <2>7, <2>8, <2>9
  <2>11. ~Uncounted(p)'
    <3>1. payments'[p].intent = "succeeded"
      BY <1>0, <1>11, <2>2, <2>4 DEF PaidAccept, OfferLedgerInv, PaidInv, PaidPC, vars
    <3>2. EventsOf(p, "succeeded") \notin events'
      BY <1>0, <1>11, <2>2, <2>4 DEF PaidAccept, OnceInv, vars
    <3>3. ASSUME NEW y \in OfferProcs, act'[y].pc \in Counting, act'[y].p = p PROVE FALSE
      <4>1. act'[x] = l
        BY <1>0, <2>1
      <4>2. y # x
        BY <2>1, <3>3, <4>1 DEF Counting
      <4>3. act'[y] = act[y]
        BY <1>0, <2>1, <4>2
      <4>. QED  BY <1>0, <2>2, <2>4, <3>3, <4>2, <4>3 DEF OnceInv
    <3>. QED  BY <3>1, <3>2, <3>3 DEF Uncounted
  <2>12. Balanced(o)'
    <3>1. Uncounted(offers[o].tx)' <=> Uncounted(p)'
      BY <2>10
    <3>. QED  BY <2>10, <2>11, <3>1 DEF Balanced
  <2>13. ASSUME NEW y \in OfferProcs \ {x}, act[y].pc = "paid_accept", act[y].o = o PROVE FALSE
    <3>1. act[y].p = p
      BY <2>4, <2>13, AnswerLocals DEF Tied
    <3>. QED  BY <1>0, <2>2, <2>4, <2>13, <3>1 DEF OnceInv, Counting
  <2>14. MayRefigure(x, o)
    BY <2>7, <2>12, <2>13 DEF MayRefigure
  <2>15. ASSUME NEW m, m.pc = "paid_apply" PROVE Knows(m)'
    BY <2>15 DEF Knows
  <2>. QED  BY <1>0, <2>1, <2>2, <2>10, <2>14, <2>15, BalanceStep
<1>12. CASE PaidApply(x)
  BY <1>3, <1>12 DEF PaidApply
<1>. QED
  BY <1>4, <1>5, <1>6, <1>7, <1>8, <1>9, <1>10, <1>11, <1>12 DEF OfferHook

\* Without faults no handler stops between its steps, so the figures stay true.
LEMMA BalanceNext ==
  ASSUME OneAnswer, ~Redeliver, ~Faults, OfferTypeInv, OfferLedgerInv, OfferLinkInv, AnswerInv,
         OnceInv, BalanceInv, [OfferNext]_allVars
  PROVE  BalanceInv'
<1>1. OnceInv'
  BY OnceNext
<1>2. CASE UNCHANGED offerVars
  <2>0. RowsOnward /\ UNCHANGED <<offers, act>>
    BY <1>2, OfferLedgerNext DEF offerVars
  <2>1. ASSUME NEW o \in Offers PROVE Balanced(o)'
    <3>1. CASE offers[o].tx = None
      BY <2>0, <3>1 DEF BalanceInv, Balanced
    <3>2. CASE offers[o].tx # None
      <4>1. PICK p \in Payments : p = offers[o].tx
        BY <3>2 DEF OfferTypeInv, OfferTypeOK, OfferRow
      <4>2. Uncounted(offers[o].tx)' <=> Uncounted(p)'
        BY <2>0, <4>1
      <4>3. payments'[p].amount = payments[p].amount
        BY <2>0, <3>2, <4>1 DEF OfferLinkInv, OwnOrNone, Own, RowsOnward
      <4>. QED  BY <2>0, <4>1, <4>2, <4>3, UncountedBefore DEF BalanceInv, Balanced
    <3>. QED  BY <3>1, <3>2
  <2>2. ASSUME NEW y \in OfferProcs PROVE Knows(act[y])'
    <3>0. Knows(act[y]) /\ ActNamed(y, act[y], offers) /\ OfferHolding(act[y])
      BY DEF OfferTypeInv, BalanceInv, OfferLinkInv
    <3>1. act[y].pc = "accept_mark" => payments'[act[y].p].amount = payments[act[y].p].amount
      BY <2>0, <3>0 DEF ActNamed, PaymentUsers, OfferHolding, OfferHolders, Own, RowsOnward
    <3>. QED  BY <2>0, <3>0, <3>1 DEF Knows
  <2>. QED  BY <2>1, <2>2 DEF BalanceInv
<1>3. ASSUME NEW x \in OfferRequests, Send(x) \/ Accept(x) \/ Decline(x) PROVE BalanceInv'
  BY <1>3, BalanceRequests
<1>4. ASSUME NEW x \in OfferHooks, OfferHook(x) PROVE BalanceInv'
  BY <1>1, <1>4, BalanceHooks
<1>. QED
  BY <1>2, <1>3, <1>4 DEF OfferNext, OfferStops, allVars, offerVars

\* No offer has figures, and no handler knows any, before the first step.
LEMMA BalanceStarts == ASSUME OfferInit PROVE OnceInv /\ BalanceInv
<1>1. \A x \in OfferProcs : act[x].pc = "idle"
  BY DEF OfferInit, OfferIdle
<1>2. \A o \in Offers : offers[o].status = "ABSENT" /\ offers[o].tx = None
  BY DEF OfferInit, NoOffer
<1>. QED
  BY <1>1, <1>2 DEF OnceInv, Counting, PaidPC, BalanceInv, Balanced, Knows

\* A payment is counted once, and each offer's figures agree with it.
LEMMA BalanceInvariant ==
  ASSUME OneAnswer, ~Redeliver, ~Faults PROVE OfferSpec => [](OnceInv /\ BalanceInv)
<1>1. OfferInit => OnceInv /\ BalanceInv
  BY BalanceStarts
<1>2. /\ OfferTypeInv /\ OfferLedgerInv /\ OfferLinkInv /\ AnswerInv /\ OnceInv /\ BalanceInv
      /\ [OfferNext]_allVars
      => (OnceInv /\ BalanceInv)'
  BY OnceNext, BalanceNext
<1>. QED
  BY <1>1, <1>2, OfferLedgerInvariant, OfferLinkInvariant, AnswerInvariant, PTL DEF OfferSpec

\* paid_amount and due_amount of an offer add up to its price, or to what was paid before
\* when that is more: sendCustomOffer, acceptCustomOffer and the webhook write the
\* two columns in separate steps, from what they read before.
THEOREM OfferFiguresBalance ==
  ASSUME OneAnswer, ~Redeliver, ~Faults PROVE OfferSpec => []OfferBalances
<1>1. BalanceInv => OfferBalances
  BY DEF BalanceInv, Balanced, OfferBalances
<1>. QED
  BY <1>1, BalanceInvariant, PTL
=============================================================================
