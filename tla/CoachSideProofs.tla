--------------------------- MODULE CoachSideProofs ---------------------------
(***************************************************************************)
(* Theorems about what a coach has at Stripe.                              *)
(*                                                                         *)
(* PayoutAccounts, for any number of coaches, accounts and API calls in    *)
(* flight, calls that break off at any await included: a coach is paid to  *)
(* the account he was sent to set up, as long as no two onboard calls of   *)
(* one coach overlap.                                                      *)
(*                                                                         *)
(* Subscriptions, for any number of users, plans, subscriptions, requests  *)
(* and webhooks: nobody passes for having paid the registration fee who    *)
(* did not, however the handlers interleave and stop; and the rows agree   *)
(* with Stripe once its events are handled, when they come in order and    *)
(* one handler runs at a time.                                             *)
(***************************************************************************)
EXTENDS MCCoachSide, TLAPS

-----------------------------------------------------------------------------
(* PayoutAccounts: what the accounts and the calls are                     *)


OnboardPC == {"onboard_read", "onboard_create", "onboard_write"}

\* The keys a call holds at each await.
Keys(l) ==
    /\ l.pc # "idle" => l.c \in Payees
    /\ l.pc \in {"onboard_write", "payout_transfer"} => l.account \in Accounts

PayoutTypeInv ==
    /\ PayoutTypeOK
    /\ \A x \in Calls : Keys(calls[x])

\* What the account on file of a coach is, and what a call knows of it: the account
\* that a call has just made is nobody's yet, and one that is to get a transfer is
\* on file.
OnFile(c) == payee[c].account # NoAccount => accounts[payee[c].account].owner = c

Knows(l) ==
    /\ l.pc \in {"onboard_create", "onboard_write"} => payee[l.c].account = NoAccount
    /\ l.pc = "onboard_write" => accounts[l.account].owner = l.c
    /\ l.pc = "payout_transfer" => payee[l.c].account = l.account

Alone ==
    \A x, y \in Calls :
        x # y /\ calls[x].pc \in OnboardPC /\ calls[y].pc \in OnboardPC => calls[x].c # calls[y].c

PaidOnFile(a) ==
    accounts[a].linked \/ accounts[a].funded =>
        accounts[a].owner \in Payees /\ payee[accounts[a].owner].account = a

PayoutInv ==
    /\ \A c \in Payees : OnFile(c)
    /\ \A x \in Calls : Knows(calls[x])
    /\ Alone
    /\ \A a \in Accounts : PaidOnFile(a)

-----------------------------------------------------------------------------
(* Type correctness                                                        *)

\* A call that is not running holds nothing.
LEMMA NoCallType == NoCall \in CallLocal /\ Keys(NoCall)
  BY DEF NoCall, CallLocal, Keys

\* A call that goes on with locals of the right shape keeps all of them so.
LEMMA CallGotoType ==
  ASSUME PayoutTypeInv, NEW x \in Calls, NEW l \in CallLocal, NEW pc, CallGoto(x, l, pc),
         [l EXCEPT !.pc = pc] \in CallLocal, Keys([l EXCEPT !.pc = pc])
  PROVE  calls' \in [Calls -> CallLocal] /\ \A y \in Calls : Keys(calls'[y])
  BY DEF PayoutTypeInv, PayoutTypeOK, CallGoto

\* So does one that ends.
LEMMA CallEndType ==
  ASSUME PayoutTypeInv, NEW x \in Calls, CallEnd(x)
  PROVE  calls' \in [Calls -> CallLocal] /\ \A y \in Calls : Keys(calls'[y])
  BY NoCallType DEF PayoutTypeInv, PayoutTypeOK, CallEnd

\* Before the first call the types hold.
LEMMA PayoutInitTypes == PayoutInit => PayoutTypeInv
<1>. SUFFICES ASSUME PayoutInit PROVE PayoutTypeInv
  OBVIOUS
<1>1. payee \in [Payees -> PayeeRow] /\ accounts \in [Accounts -> AccountRow]
  BY DEF PayoutInit, PayeeRow, AccountRow
<1>. QED
  BY <1>1, NoCallType DEF PayoutInit, PayoutTypeInv, PayoutTypeOK

\* Every step keeps them.
LEMMA PayoutNextTypes == PayoutTypeInv /\ [PayoutNext]_payoutVars => PayoutTypeInv'
<1>. SUFFICES ASSUME PayoutTypeInv, [PayoutNext]_payoutVars PROVE PayoutTypeInv'
  OBVIOUS
<1>. USE NoAccountIsNoKey
<1>0. /\ payee \in [Payees -> PayeeRow] /\ accounts \in [Accounts -> AccountRow]
      /\ \A x \in Calls : calls[x] \in CallLocal /\ Keys(calls[x])
  BY DEF PayoutTypeInv, PayoutTypeOK
<1>1. ASSUME NEW x \in Calls, NEW c \in Payees, OnboardBegin(x, c) \/ StatusRead(x, c)
      PROVE  PayoutTypeInv'
  <2>1. CASE OnboardBegin(x, c)
    <3> DEFINE l == [NoCall EXCEPT !.c = c]
    <3>1. l \in CallLocal /\ [l EXCEPT !.pc = "onboard_read"] \in CallLocal
          /\ Keys([l EXCEPT !.pc = "onboard_read"])
      BY DEF NoCall, CallLocal, Keys
    <3>2. calls' \in [Calls -> CallLocal] /\ \A y \in Calls : Keys(calls'[y])
      BY <2>1, <3>1, CallGotoType DEF OnboardBegin
    <3>. QED  BY <2>1, <3>2, <1>0 DEF OnboardBegin, PayoutTypeInv, PayoutTypeOK
  <2>2. CASE StatusRead(x, c)
    <3> DEFINE l == [NoCall EXCEPT !.c = c, !.on = accounts[payee[c].account].enabled]
    <3>1. accounts[payee[c].account].enabled \in BOOLEAN
      BY <2>2, <1>0 DEF StatusRead, PayeeRow, AccountRow
    <3>2. l \in CallLocal /\ [l EXCEPT !.pc = "status_write"] \in CallLocal
          /\ Keys([l EXCEPT !.pc = "status_write"])
      BY <3>1 DEF NoCall, CallLocal, Keys
    <3>3. calls' \in [Calls -> CallLocal] /\ \A y \in Calls : Keys(calls'[y])
      BY <2>2, <3>2, CallGotoType DEF StatusRead
    <3>. QED  BY <2>2, <3>3, <1>0 DEF StatusRead, PayoutTypeInv, PayoutTypeOK
  <2>. QED  BY <1>1, <2>1, <2>2
<1>2. ASSUME NEW x \in Calls, NEW c \in Payees, PayoutCheck(x, c) PROVE PayoutTypeInv'
  <2> DEFINE l == [NoCall EXCEPT !.c = c, !.account = payee[c].account]
  <2>1. payee[c].account \in Accounts
    BY <1>2, <1>0 DEF PayoutCheck, PayeeRow
  <2>2. l \in CallLocal /\ [l EXCEPT !.pc = "payout_transfer"] \in CallLocal
        /\ Keys([l EXCEPT !.pc = "payout_transfer"])
    BY <2>1 DEF NoCall, CallLocal, Keys
  <2>3. calls' \in [Calls -> CallLocal] /\ \A y \in Calls : Keys(calls'[y])
    BY <1>2, <2>2, CallGotoType DEF PayoutCheck
  <2>. QED  BY <1>2, <2>3, <1>0 DEF PayoutCheck, PayoutTypeInv, PayoutTypeOK
<1>3. ASSUME NEW x \in Calls, OnboardRead(x) PROVE PayoutTypeInv'
  <2>1. calls[x] \in CallLocal /\ calls[x].c \in Payees
    BY <1>3, <1>0 DEF OnboardRead, CallAt, Keys
  <2>2. CASE payee[calls[x].c].account = NoAccount
    <3>1. [calls[x] EXCEPT !.pc = "onboard_create"] \in CallLocal
          /\ Keys([calls[x] EXCEPT !.pc = "onboard_create"])
      BY <2>1 DEF CallLocal, Keys
    <3>2. CallGoto(x, calls[x], "onboard_create") /\ UNCHANGED <<payee, accounts>>
      BY <1>3, <2>2 DEF OnboardRead
    <3>3. calls' \in [Calls -> CallLocal] /\ \A y \in Calls : Keys(calls'[y])
      BY <2>1, <3>1, <3>2, CallGotoType
    <3>. QED  BY <3>2, <3>3, <1>0 DEF PayoutTypeInv, PayoutTypeOK
  <2>3. CASE payee[calls[x].c].account # NoAccount
    <3>1. CallEnd(x) /\ UNCHANGED payee
          /\ accounts' = [accounts EXCEPT ![payee[calls[x].c].account].linked = TRUE]
      BY <1>3, <2>3 DEF OnboardRead
    <3>2. accounts' \in [Accounts -> AccountRow]
      BY <3>1, <1>0 DEF AccountRow
    <3>. QED  BY <3>1, <3>2, <1>0, CallEndType DEF PayoutTypeInv, PayoutTypeOK
  <2>. QED  BY <2>2, <2>3
<1>4. ASSUME NEW x \in Calls, OnboardCreate(x) PROVE PayoutTypeInv'
  <2>1. calls[x] \in CallLocal /\ calls[x].c \in Payees
    BY <1>4, <1>0 DEF OnboardCreate, CallAt, Keys
  <2>2. PICK a \in Accounts :
           /\ accounts' = [accounts EXCEPT ![a].owner = calls[x].c]
           /\ CallGoto(x, [calls[x] EXCEPT !.account = a], "onboard_write")
    BY <1>4 DEF OnboardCreate
  <2> DEFINE l == [calls[x] EXCEPT !.account = a]
  <2>3. l \in CallLocal /\ [l EXCEPT !.pc = "onboard_write"] \in CallLocal
        /\ Keys([l EXCEPT !.pc = "onboard_write"])
    BY <2>1 DEF CallLocal, Keys
  <2>4. calls' \in [Calls -> CallLocal] /\ \A y \in Calls : Keys(calls'[y])
    BY <2>2, <2>3, CallGotoType
  <2>5. accounts' \in [Accounts -> AccountRow]
    BY <2>1, <2>2, <1>0 DEF AccountRow
  <2>. QED  BY <1>4, <2>4, <2>5, <1>0 DEF OnboardCreate, PayoutTypeInv, PayoutTypeOK
<1>5. ASSUME NEW x \in Calls, OnboardWrite(x) PROVE PayoutTypeInv'
  <2>1. calls[x].c \in Payees /\ calls[x].account \in Accounts
    BY <1>5, <1>0 DEF OnboardWrite, CallAt, Keys
  <2>2. payee' \in [Payees -> PayeeRow] /\ accounts' \in [Accounts -> AccountRow]
    BY <1>5, <2>1, <1>0 DEF OnboardWrite, PayeeRow, AccountRow
  <2>. QED  BY <1>5, <2>2, CallEndType DEF OnboardWrite, PayoutTypeInv, PayoutTypeOK
<1>6. ASSUME NEW x \in Calls, StatusWrite(x) PROVE PayoutTypeInv'
  <2>1. payee' \in [Payees -> PayeeRow]
    BY ZenonT(60), <1>6, <1>0 DEF StatusWrite, PayeeRow
  <2>. QED  BY <1>6, <2>1, <1>0, CallEndType DEF StatusWrite, PayoutTypeInv, PayoutTypeOK
<1>7. ASSUME NEW x \in Calls, PayoutTransfer(x) PROVE PayoutTypeInv'
  <2>1. accounts' \in [Accounts -> AccountRow]
    BY <1>7, <1>0 DEF PayoutTransfer, AccountRow
  <2>. QED  BY <1>7, <2>1, <1>0, CallEndType DEF PayoutTransfer, PayoutTypeInv, PayoutTypeOK
<1>8. ASSUME NEW x \in Calls, CallStop(x) PROVE PayoutTypeInv'
  BY <1>8, <1>0, CallEndType DEF CallStop, PayoutTypeInv, PayoutTypeOK
<1>9. ASSUME NEW a \in Accounts, NEW on \in BOOLEAN, StripeSetsEnabled(a, on) PROVE PayoutTypeInv'
  <2>1. accounts' \in [Accounts -> AccountRow]
    BY <1>9, <1>0 DEF StripeSetsEnabled, AccountRow
  <2>. QED  BY <1>9, <2>1 DEF StripeSetsEnabled, PayoutTypeInv, PayoutTypeOK
<1>10. CASE UNCHANGED payoutVars
  BY <1>10 DEF payoutVars, PayoutTypeInv, PayoutTypeOK
<1>. QED
  BY <1>1, <1>2, <1>3, <1>4, <1>5, <1>6, <1>7, <1>8, <1>9, <1>10 DEF PayoutNext

\* The tables of coaches and accounts and the locals of every call keep their types,
\* and a call holds the keys it goes on to use.
THEOREM PayoutAccountTypes == PayoutSpec => []PayoutTypeOK
<1>1. PayoutTypeInv => PayoutTypeOK
  BY DEF PayoutTypeInv
<1>. QED
  BY <1>1, PayoutInitTypes, PayoutNextTypes, PTL DEF PayoutSpec

-----------------------------------------------------------------------------
(* The account on file                                                     *)

\* A call that ends knows nothing, and leaves the others alone.
LEMMA CallEndKnows ==
  ASSUME PayoutTypeInv, PayoutInv, NEW x \in Calls, CallEnd(x)
  PROVE  Alone' /\ \A y \in Calls : calls'[y] = IF y = x THEN NoCall ELSE calls[y]
  BY DEF PayoutTypeInv, PayoutTypeOK, PayoutInv, CallEnd, Alone, NoCall, OnboardPC

\* A call that is not alone in onboarding its coach, or that onboards none, goes on.
LEMMA CallGotoKnows ==
  ASSUME PayoutTypeInv, PayoutInv, NEW x \in Calls, NEW l \in CallLocal, NEW pc, CallGoto(x, l, pc),
         pc \in OnboardPC =>
            \A y \in Calls \ {x} : calls[y].pc \in OnboardPC => calls[y].c # l.c
  PROVE  Alone' /\ \A y \in Calls : calls'[y] = IF y = x THEN [l EXCEPT !.pc = pc] ELSE calls[y]
<1> DEFINE m == [l EXCEPT !.pc = pc]
<1>1. \A y \in Calls : calls'[y] = IF y = x THEN m ELSE calls[y]
  BY DEF PayoutTypeInv, PayoutTypeOK, CallGoto
<1>2. m.pc = pc /\ m.c = l.c
  BY DEF CallLocal
<1>. HIDE DEF m
<1>3. Alone'
  BY <1>1, <1>2 DEF PayoutInv, Alone
<1>. QED
  BY <1>1, <1>3 DEF m

\* Before the first onboarding nobody was sent anywhere.
LEMMA PayoutInitPaid == PayoutInit => PayoutInv
  BY DEF PayoutInit, PayoutInv, OnFile, Knows, Alone, PaidOnFile, NoCall, OnboardPC

\* Every step keeps what was sent and paid on file, when no two onboardings overlap.
LEMMA PayoutNextPaid ==
  ASSUME ~TwoOnboardings, PayoutTypeInv, PayoutInv, [PayoutNext]_payoutVars
  PROVE  PayoutInv'
<1>. USE NoAccountIsNoKey
<1>0. /\ payee \in [Payees -> PayeeRow] /\ accounts \in [Accounts -> AccountRow]
      /\ \A x \in Calls : calls[x] \in CallLocal /\ Keys(calls[x]) /\ Knows(calls[x])
      /\ \A c \in Payees : OnFile(c)
      /\ \A a \in Accounts : PaidOnFile(a)
      /\ Alone
  BY DEF PayoutTypeInv, PayoutTypeOK, PayoutInv
<1>1. ASSUME NEW x \in Calls, NEW c \in Payees, OnboardBegin(x, c) PROVE PayoutInv'
  <2> DEFINE l == [NoCall EXCEPT !.c = c]
  <2>1. l \in CallLocal /\ l.c = c
    BY DEF NoCall, CallLocal
  <2>2. \A y \in Calls \ {x} : calls[y].pc \in OnboardPC => calls[y].c # l.c
    BY <1>1, <2>1 DEF OnboardBegin, OnboardCalls, OnboardPC
  <2>3. /\ CallGoto(x, l, "onboard_read") /\ UNCHANGED <<payee, accounts>>
    BY <1>1 DEF OnboardBegin
  <2>4. Alone' /\ \A y \in Calls :
           calls'[y] = IF y = x THEN [l EXCEPT !.pc = "onboard_read"] ELSE calls[y]
    BY <2>1, <2>2, <2>3, CallGotoKnows
  <2>5. [l EXCEPT !.pc = "onboard_read"].pc = "onboard_read"
    BY <2>1 DEF CallLocal
  <2>. QED
    BY ZenonT(60), <2>3, <2>4, <2>5, <1>0 DEF PayoutInv, OnFile, Knows, PaidOnFile
<1>2. ASSUME NEW x \in Calls, NEW c \in Payees, StatusRead(x, c) PROVE PayoutInv'
  <2> DEFINE l == [NoCall EXCEPT !.c = c, !.on = accounts[payee[c].account].enabled]
  <2>1. l \in CallLocal
    BY <1>2, <1>0 DEF StatusRead, NoCall, CallLocal, PayeeRow, AccountRow
  <2>2. CallGoto(x, l, "status_write") /\ UNCHANGED <<payee, accounts>>
    BY <1>2 DEF StatusRead
  <2>3. Alone' /\ \A y \in Calls :
           calls'[y] = IF y = x THEN [l EXCEPT !.pc = "status_write"] ELSE calls[y]
    <3>. HIDE DEF l
    <3>1. "status_write" \notin OnboardPC
      BY DEF OnboardPC
    <3>. QED  BY <2>1, <2>2, <3>1, CallGotoKnows
  <2>4. [l EXCEPT !.pc = "status_write"].pc = "status_write"
    BY <2>1 DEF CallLocal
  <2>. QED
    BY ZenonT(60), <2>2, <2>3, <2>4, <1>0 DEF PayoutInv, OnFile, Knows, PaidOnFile
<1>3. ASSUME NEW x \in Calls, NEW c \in Payees, PayoutCheck(x, c) PROVE PayoutInv'
  <2> DEFINE l == [NoCall EXCEPT !.c = c, !.account = payee[c].account]
  <2>1. l \in CallLocal
    BY <1>3, <1>0 DEF PayoutCheck, NoCall, CallLocal, PayeeRow
  <2>2. CallGoto(x, l, "payout_transfer") /\ UNCHANGED <<payee, accounts>>
    BY <1>3 DEF PayoutCheck
  <2>3. Alone' /\ \A y \in Calls :
           calls'[y] = IF y = x THEN [l EXCEPT !.pc = "payout_transfer"] ELSE calls[y]
    <3>. HIDE DEF l
    <3>1. "payout_transfer" \notin OnboardPC
      BY DEF OnboardPC
    <3>. QED  BY <2>1, <2>2, <3>1, CallGotoKnows
  <2>4. /\ [l EXCEPT !.pc = "payout_transfer"].pc = "payout_transfer"
        /\ [l EXCEPT !.pc = "payout_transfer"].c = c
        /\ [l EXCEPT !.pc = "payout_transfer"].account = payee[c].account
    BY DEF NoCall
  <2>. QED
    BY ZenonT(60), <2>2, <2>3, <2>4, <1>0 DEF PayoutInv, OnFile, Knows, PaidOnFile
<1>4. ASSUME NEW x \in Calls, OnboardRead(x) PROVE PayoutInv'
  <2>1. calls[x] \in CallLocal /\ calls[x].c \in Payees /\ calls[x].pc = "onboard_read"
    BY <1>4, <1>0 DEF OnboardRead, CallAt, Keys
  <2>2. CASE payee[calls[x].c].account = NoAccount
    <3>1. CallGoto(x, calls[x], "onboard_create") /\ UNCHANGED <<payee, accounts>>
      BY <1>4, <2>2 DEF OnboardRead
    <3>2. \A y \in Calls \ {x} : calls[y].pc \in OnboardPC => calls[y].c # calls[x].c
      BY <2>1, <1>0 DEF Alone, OnboardPC
    <3>3. Alone' /\ \A y \in Calls :
             calls'[y] = IF y = x THEN [calls[x] EXCEPT !.pc = "onboard_create"] ELSE calls[y]
      BY <2>1, <3>1, <3>2, CallGotoKnows
    <3>4. /\ [calls[x] EXCEPT !.pc = "onboard_create"].pc = "onboard_create"
          /\ [calls[x] EXCEPT !.pc = "onboard_create"].c = calls[x].c
      BY <2>1 DEF CallLocal
    <3> DEFINE m == [calls[x] EXCEPT !.pc = "onboard_create"]
    <3>5. (\A y \in Calls : calls'[y] = IF y = x THEN m ELSE calls[y])
          /\ m.pc = "onboard_create" /\ m.c = calls[x].c
      BY <3>3, <3>4
    <3>. HIDE DEF m
    <3>6. \A y \in Calls : Knows(calls[y])'
      BY <2>2, <3>1, <3>5, <1>0 DEF Knows
    <3>. QED
      BY <3>1, <3>3, <3>6, <1>0 DEF PayoutInv, OnFile, PaidOnFile
  <2>3. CASE payee[calls[x].c].account # NoAccount
    <3> DEFINE a == payee[calls[x].c].account
    <3>1. CallEnd(x) /\ UNCHANGED payee /\ accounts' = [accounts EXCEPT ![a].linked = TRUE]
      BY <1>4, <2>3 DEF OnboardRead
    <3>2. a \in Accounts /\ accounts[a].owner = calls[x].c
      BY <2>1, <2>3, <1>0 DEF PayeeRow, OnFile
    <3>3. \A b \in Accounts : /\ accounts'[b].owner = accounts[b].owner
                              /\ b # a => accounts'[b] = accounts[b]
      BY <3>1, <1>0 DEF AccountRow
    <3>4. \A c \in Payees : OnFile(c)'
      BY ZenonT(60), <3>1, <3>3, <1>0 DEF OnFile, PayeeRow
    <3>5. \A y \in Calls : Knows(calls[y])'
      <4>1. /\ \A y \in Calls : calls'[y] = IF y = x THEN NoCall ELSE calls[y]
            /\ NoCall.pc = "idle"
        BY <3>1, CallEndKnows DEF NoCall
      <4>2. \A y \in Calls : y # x /\ calls[y].pc = "onboard_write" => calls[y].account \in Accounts
        BY <1>0 DEF Keys
      <4>. HIDE DEF a
      <4>. QED  BY <3>1, <3>3, <4>1, <4>2, <1>0 DEF Knows
    <3>6. \A b \in Accounts : PaidOnFile(b)'
      BY ZenonT(60), <2>1, <3>1, <3>2, <3>3, <1>0 DEF PaidOnFile
    <3>. QED
      BY <3>1, <3>4, <3>5, <3>6, CallEndKnows DEF PayoutInv
  <2>. QED  BY <2>2, <2>3
<1>5. ASSUME NEW x \in Calls, OnboardCreate(x) PROVE PayoutInv'
  <2>1. calls[x] \in CallLocal /\ calls[x].c \in Payees /\ calls[x].pc = "onboard_create"
        /\ payee[calls[x].c].account = NoAccount
    BY <1>5, <1>0 DEF OnboardCreate, CallAt, Keys, Knows
  <2>2. PICK a \in Accounts :
           /\ accounts[a].owner = NoAccount
           /\ accounts' = [accounts EXCEPT ![a].owner = calls[x].c]
           /\ CallGoto(x, [calls[x] EXCEPT !.account = a], "onboard_write")
    BY <1>5 DEF OnboardCreate
  <2> DEFINE l == [calls[x] EXCEPT !.account = a]
             m == [l EXCEPT !.pc = "onboard_write"]
  <2>3. l \in CallLocal /\ l.c = calls[x].c /\ m.c = calls[x].c /\ m.account = a
        /\ m.pc = "onboard_write"
    BY <2>1 DEF CallLocal
  <2>4. \A y \in Calls \ {x} : calls[y].pc \in OnboardPC => calls[y].c # calls[x].c
    BY <2>1, <1>0 DEF Alone, OnboardPC
  <2>5. Alone' /\ \A y \in Calls : calls'[y] = IF y = x THEN m ELSE calls[y]
    <3>1. CallGoto(x, l, "onboard_write")
      BY <2>2
    <3>2. l \in CallLocal /\ \A y \in Calls \ {x} : calls[y].pc \in OnboardPC => calls[y].c # l.c
      BY <2>3, <2>4
    <3>. HIDE DEF l
    <3>3. Alone' /\ \A y \in Calls :
             calls'[y] = IF y = x THEN [l EXCEPT !.pc = "onboard_write"] ELSE calls[y]
      BY <3>1, <3>2, CallGotoKnows
    <3>. QED  BY <3>3
  <2>6. /\ accounts'[a].owner = calls[x].c
        /\ accounts'[a].linked = accounts[a].linked /\ accounts'[a].funded = accounts[a].funded
        /\ \A b \in Accounts \ {a} : accounts'[b] = accounts[b]
    BY <2>2, <1>0 DEF AccountRow
  <2>7. payee' = payee
    BY <1>5 DEF OnboardCreate
  <2>8. \A c \in Payees : OnFile(c)'
    BY <2>2, <2>6, <2>7, <1>0 DEF OnFile, PayeeRow
  <2>9. \A y \in Calls : Knows(calls[y])'
    <3>. HIDE DEF m
    <3>1. Knows(calls[x])'
      BY <2>1, <2>3, <2>5, <2>6, <2>7 DEF Knows
    <3>2. ASSUME NEW y \in Calls \ {x} PROVE Knows(calls[y])'
      BY <2>2, <2>5, <2>6, <2>7, <1>0 DEF Knows, Keys
    <3>. QED  BY <3>1, <3>2
  <2>10. \A b \in Accounts : PaidOnFile(b)'
    BY <2>2, <2>6, <2>7, <1>0 DEF PaidOnFile
  <2>. QED
    BY <2>5, <2>8, <2>9, <2>10 DEF PayoutInv
<1>6. ASSUME NEW x \in Calls, OnboardWrite(x) PROVE PayoutInv'
  <2> DEFINE c == calls[x].c
             a == calls[x].account
  <2>1. c \in Payees /\ a \in Accounts /\ calls[x].pc = "onboard_write"
        /\ payee[c].account = NoAccount /\ accounts[a].owner = c
    BY <1>6, <1>0 DEF OnboardWrite, CallAt, Keys, Knows
  <2>2. /\ payee'[c].account = a
        /\ \A d \in Payees \ {c} : payee'[d] = payee[d]
    BY <1>6, <2>1, <1>0 DEF OnboardWrite
  <2>3. \A b \in Accounts : /\ accounts'[b].owner = accounts[b].owner
                            /\ b # a => accounts'[b] = accounts[b]
    BY <1>6, <2>1, <1>0 DEF OnboardWrite, AccountRow
  <2>4. Alone' /\ \A y \in Calls : calls'[y] = IF y = x THEN NoCall ELSE calls[y]
    BY <1>6, CallEndKnows DEF OnboardWrite
  <2>5. \A d \in Payees : OnFile(d)'
    BY <2>1, <2>2, <2>3, <1>0 DEF OnFile, PayeeRow
  <2>6. \A y \in Calls : Knows(calls[y])'
    <3>. SUFFICES ASSUME NEW y \in Calls, y # x PROVE Knows(calls[y])'
      BY <2>4 DEF Knows, NoCall
    <3>1. calls[y].pc \in OnboardPC => calls[y].c # c
      BY <2>1, <1>0 DEF Alone, OnboardPC
    <3>2. calls[y].pc = "payout_transfer" => calls[y].c # c
      BY <2>1, <1>0 DEF Knows, Keys
    <3>3. calls'[y] = calls[y]
      BY <2>4
    <3>. QED  BY <2>2, <2>3, <3>1, <3>2, <3>3, <1>0 DEF Knows, Keys, OnboardPC
  <2>7. \A b \in Accounts : PaidOnFile(b)'
    BY <2>1, <2>2, <2>3, <1>0 DEF PaidOnFile
  <2>. QED
    BY <2>4, <2>5, <2>6, <2>7 DEF PayoutInv
<1>7. ASSUME NEW x \in Calls, StatusWrite(x) PROVE PayoutInv'
  <2>1. \A c \in Payees : payee'[c].account = payee[c].account
    BY <1>7, <1>0 DEF StatusWrite, PayeeRow
  <2>2. accounts' = accounts /\ CallEnd(x)
    BY <1>7 DEF StatusWrite
  <2>3. Alone' /\ \A y \in Calls : calls'[y] = IF y = x THEN NoCall ELSE calls[y]
    BY <2>2, CallEndKnows
  <2>. QED
    BY <2>1, <2>2, <2>3, <1>0 DEF PayoutInv, OnFile, Knows, Keys, PaidOnFile, NoCall
<1>8. ASSUME NEW x \in Calls, PayoutTransfer(x) PROVE PayoutInv'
  <2> DEFINE c == calls[x].c
             a == calls[x].account
  <2>1. c \in Payees /\ a \in Accounts /\ payee[c].account = a /\ accounts[a].owner = c
    BY <1>8, <1>0 DEF PayoutTransfer, CallAt, Keys, Knows, OnFile
  <2>2. \A b \in Accounts : /\ accounts'[b].owner = accounts[b].owner
                            /\ b # a => accounts'[b] = accounts[b]
    BY <1>8, <2>1, <1>0 DEF PayoutTransfer, AccountRow
  <2>3. payee' = payee /\ CallEnd(x)
    BY <1>8 DEF PayoutTransfer
  <2>4. Alone' /\ \A y \in Calls : calls'[y] = IF y = x THEN NoCall ELSE calls[y]
    BY <2>3, CallEndKnows
  <2>5. \A d \in Payees : OnFile(d)'
    BY <2>2, <2>3, <1>0 DEF OnFile, PayeeRow
  <2>6. \A y \in Calls : Knows(calls[y])'
    BY <2>2, <2>3, <2>4, <1>0 DEF Knows, Keys, NoCall
  <2>7. \A b \in Accounts : PaidOnFile(b)'
    BY <2>1, <2>2, <2>3, <1>0 DEF PaidOnFile
  <2>. QED
    BY <2>4, <2>5, <2>6, <2>7 DEF PayoutInv
<1>9. ASSUME NEW x \in Calls, CallStop(x) PROVE PayoutInv'
  BY <1>9, <1>0, CallEndKnows DEF CallStop, PayoutInv, OnFile, Knows, PaidOnFile, NoCall
<1>10. ASSUME NEW a \in Accounts, NEW on \in BOOLEAN, StripeSetsEnabled(a, on) PROVE PayoutInv'
  <2>1. \A b \in Accounts : /\ accounts'[b].owner = accounts[b].owner
                            /\ accounts'[b].linked = accounts[b].linked
                            /\ accounts'[b].funded = accounts[b].funded
    BY <1>10, <1>0 DEF StripeSetsEnabled, AccountRow
  <2>2. payee' = payee /\ calls' = calls
    BY <1>10 DEF StripeSetsEnabled
  <2>. QED
    BY <2>1, <2>2, <1>0 DEF PayoutInv, OnFile, Knows, Keys, Alone, PaidOnFile, PayeeRow
<1>11. CASE UNCHANGED payoutVars
  BY <1>11, <1>0 DEF payoutVars, PayoutInv, OnFile, Knows, Alone, PaidOnFile
<1>. QED
  BY <1>1, <1>2, <1>3, <1>4, <1>5, <1>6, <1>7, <1>8, <1>9, <1>10, <1>11 DEF PayoutNext

\* A coach whose onboard calls do not overlap has one account he was sent to set up,
\* it is the one on file, and every transfer went to it.
THEOREM CoachPaidWhereOnboarded ==
  ASSUME ~TwoOnboardings
  PROVE  PayoutSpec => []OnboardedAccountIsPaid
<1>1. PayoutInit => PayoutTypeInv /\ PayoutInv
  BY PayoutInitTypes, PayoutInitPaid
<1>2. PayoutTypeInv /\ PayoutInv /\ [PayoutNext]_payoutVars => (PayoutTypeInv /\ PayoutInv)'
  BY PayoutNextTypes, PayoutNextPaid
<1>3. PayoutTypeInv /\ PayoutInv => OnboardedAccountIsPaid
  BY DEF PayoutInv, PaidOnFile, OnboardedAccountIsPaid
<1>. QED
  BY <1>1, <1>2, <1>3, PTL DEF PayoutSpec

-----------------------------------------------------------------------------
(* Subscriptions: type correctness                                         *)

\* Where a handler is at work for a user, and where on a subscription.
CheckoutPC == {"checkout_customer", "checkout_session"}

CancelPC == {"cancel_stripe", "cancel_write"}

CompletedPC == {"completed_retrieve", "completed_create", "completed_activate", "completed_fee"}

WebhookPC == CompletedPC \cup {"updated_row", "updated_profile", "deleted_row", "deleted_profile"}

Serves(l) ==
    /\ l.pc \in CheckoutPC => l.user \in Users
    /\ l.pc \in CancelPC \cup WebhookPC => l.sub \in Subs

Handlers == proc \in [Procs -> Local] /\ \A x \in Procs : Serves(proc[x])

Tables ==
    /\ plans \in [Plans -> PlanKind]
    /\ profiles \in [Coaches -> ProfileRow]
    /\ billing \subseteq Users
    /\ stripe \in [Subs -> StripeSub]
    /\ rows \in [Subs -> SubRow]
    /\ events \subseteq Event
    /\ sent \in 0..MaxEvents
    /\ hist \in Hist

\* Writing what Stripe said into a row leaves a row.
LEMMA WrittenRowType ==
  ASSUME Tables, NEW s, NEW status \in StripeStatus, NEW flag \in BOOLEAN,
         rows' = [rows EXCEPT ![s].status = status, ![s].atEnd = flag]
  PROVE  rows' \in [Subs -> SubRow]
<1>0. rows \in [Subs -> SubRow]
  BY DEF Tables
<1>1. ASSUME NEW t \in Subs PROVE rows'[t] \in SubRow
  <2>1. CASE t # s
    BY <1>0, <1>1, <2>1
  <2>2. CASE t = s
    <3>1. rows'[t] = [rows[t] EXCEPT !.status = status, !.atEnd = flag]
      BY <1>0, <1>1, <2>2
    <3>2. rows[t] \in SubRow
      BY <1>0, <1>1
    <3>3. ASSUME NEW r \in SubRow PROVE [r EXCEPT !.status = status] \in SubRow
      BY DEF SubRow
    <3>4. ASSUME NEW r \in SubRow PROVE [r EXCEPT !.atEnd = flag] \in SubRow
      BY DEF SubRow
    <3>5. [rows[t] EXCEPT !.status = status, !.atEnd = flag] \in SubRow
      BY <3>2, <3>3, <3>4
    <3>. QED  BY <3>1, <3>5
  <2>. QED  BY <2>1, <2>2
<1>2. rows' = [t \in Subs |-> rows'[t]]
  BY <1>0
<1>. QED  BY <1>1, <1>2

\* A handler that goes on with locals of the right shape.
LEMMA GotoType ==
  ASSUME Handlers, NEW x \in Procs, NEW l, NEW pc, Goto(x, l, pc),
         [l EXCEPT !.pc = pc] \in Local, Serves([l EXCEPT !.pc = pc])
  PROVE  Handlers'
<1> DEFINE m == [l EXCEPT !.pc = pc]
<1>1. proc' = [proc EXCEPT ![x] = m] /\ m \in Local /\ Serves(m)
  BY DEF Goto
<1> HIDE DEF m
<1>. QED
  BY <1>1 DEF Handlers

\* A handler that answers.
LEMMA ReturnType == ASSUME Handlers, NEW x \in Procs, Return(x) PROVE Handlers'
<1>1. Idle \in Local /\ Serves(Idle)
  BY DEF Idle, Local, StripeStatus, Serves, CheckoutPC, CancelPC, CompletedPC, WebhookPC
<1>. QED
  BY <1>1 DEF Handlers, Return

\* A handler that goes on with the locals it has.
LEMMA MoveType ==
  ASSUME Handlers, NEW x \in Procs, NEW pc, Goto(x, proc[x], pc),
         \/ pc = "checkout_session" /\ proc[x].pc \in CheckoutPC
         \/ pc \in WebhookPC /\ proc[x].pc \in WebhookPC
  PROVE  Handlers'
<1>1. proc[x] \in Local /\ Serves(proc[x])
  BY DEF Handlers
<1>2. [proc[x] EXCEPT !.pc = pc] \in Local
  BY <1>1 DEF Local, WebhookPC, CompletedPC
<1>3. Serves([proc[x] EXCEPT !.pc = pc])
  BY <1>1 DEF Local, Serves, CheckoutPC, CancelPC, CompletedPC, WebhookPC
<1>. QED
  BY <1>2, <1>3, GotoType

\* What happens at Stripe is typed, and so is the event that tells of it.
LEMMA HappensType ==
  ASSUME Tables, NEW s \in Subs, NEW sub \in StripeSub, NEW kind \in {"completed", "updated", "deleted"},
         Happens(s, sub, kind)
  PROVE  stripe' \in [Subs -> StripeSub] /\ events' \subseteq Event /\ sent' \in 0..MaxEvents
<1>1. sent' \in 1..MaxEvents /\ sent' = sent + 1
  BY BoundIsCount DEF Happens, Tables
<1>2. [sub |-> s, kind |-> kind, status |-> sub.status, atEnd |-> sub.atEnd, n |-> sent + 1] \in Event
  BY <1>1 DEF Event, StripeSub
<1>. QED
  BY <1>1, <1>2 DEF Happens, Tables

\* A write of a profile keeps the type of the table.
LEMMA WriteProfileType ==
  ASSUME Tables, NEW u, NEW p, u \in Coaches => p \in ProfileRow, WriteProfile(u, p)
  PROVE  profiles' \in [Coaches -> ProfileRow]
  BY DEF WriteProfile, Tables

\* Before the first request the types hold.
LEMMA SubInitTypes == Init => Tables /\ Handlers
<1>. SUFFICES ASSUME Init PROVE Tables /\ Handlers
  OBVIOUS
<1>1. Idle \in Local /\ Serves(Idle)
  BY DEF Idle, Local, StripeStatus, Serves, CheckoutPC, CancelPC, CompletedPC, WebhookPC
<1>2. NoSub \in StripeSub /\ NoRow \in SubRow
  BY DEF NoSub, StripeSub, StripeStatus, NoRow, SubRow
<1>3. ASSUME NEW b \in BOOLEAN
      PROVE  [exists |-> b, active |-> FALSE, fee |-> FALSE, reference |-> None, setUp |-> FALSE]
               \in ProfileRow
  BY DEF ProfileRow
<1>4. profiles \in [Coaches -> ProfileRow]
  BY <1>3 DEF Init
<1>5. sent \in 0..MaxEvents /\ hist \in Hist
  BY BoundIsCount DEF Init, Hist
<1>. QED
  BY <1>1, <1>2, <1>4, <1>5 DEF Init, Tables, PlanKind, Handlers

\* The requests: createSubscriptionCheckout and cancelSubscription.
LEMMA RequestTypes ==
  ASSUME Tables, Handlers, NEW x \in Procs,
         Call(x) \/ CheckoutCustomer(x) \/ CheckoutSession(x) \/ CancelStripe(x) \/ CancelWrite(x)
  PROVE  Tables' /\ Handlers'
<1>0. proc[x] \in Local /\ Serves(proc[x])
  BY DEF Handlers
<1>1. ASSUME NEW u \in Users, NEW p \in Plans, NEW e \in Endpoints, CheckoutRead(x, u, p, e)
      PROVE  Tables' /\ Handlers'
  <2>1. PICK pc \in CheckoutPC : Goto(x, [Idle EXCEPT !.user = u, !.plan = p, !.coach = (e = "coach")], pc)
    BY <1>1 DEF CheckoutRead, CheckoutPC
  <2> DEFINE l == [Idle EXCEPT !.user = u, !.plan = p, !.coach = (e = "coach"), !.pc = pc]
  <2>2. l \in Local
    BY DEF Idle, Local, CheckoutPC, StripeStatus
  <2>3. Serves(l)
    BY DEF Idle, Serves, CheckoutPC, CancelPC, CompletedPC, WebhookPC
  <2>4. l = [[Idle EXCEPT !.user = u, !.plan = p, !.coach = (e = "coach")] EXCEPT !.pc = pc]
    OBVIOUS
  <2> HIDE DEF l
  <2>5. Handlers'
    BY <2>1, <2>2, <2>3, <2>4, GotoType
  <2>. QED  BY <1>1, <2>5 DEF CheckoutRead, Tables
<1>2. ASSUME NEW u \in Users, CancelRead(x, u) PROVE Tables' /\ Handlers'
  <2>1. PICK s \in Subs, now \in BOOLEAN :
          Goto(x, [Idle EXCEPT !.user = u, !.sub = s, !.flag = now], "cancel_stripe")
    BY <1>2 DEF CancelRead
  <2> DEFINE l == [Idle EXCEPT !.user = u, !.sub = s, !.flag = now, !.pc = "cancel_stripe"]
  <2>2. l \in Local /\ Serves(l)
    BY DEF Idle, Local, StripeStatus, Serves, CheckoutPC, CancelPC, CompletedPC, WebhookPC
  <2>3. l = [[Idle EXCEPT !.user = u, !.sub = s, !.flag = now] EXCEPT !.pc = "cancel_stripe"]
    OBVIOUS
  <2> HIDE DEF l
  <2>4. Handlers'
    BY <2>1, <2>2, <2>3, GotoType
  <2>. QED  BY <1>2, <2>4 DEF CancelRead, Tables
<1>3. CASE CheckoutCustomer(x)
  <2>1. Handlers'
    BY <1>3, MoveType DEF CheckoutCustomer, At, CheckoutPC
  <2>2. billing' \subseteq Users
    BY <1>0, <1>3 DEF CheckoutCustomer, At, Serves, CheckoutPC, Tables
  <2>. QED  BY <1>3, <2>1, <2>2 DEF CheckoutCustomer, Tables
<1>4. CASE CheckoutSession(x)
  <2>1. ASSUME NEW s \in Subs,
               stripe' = [stripe EXCEPT ![s] = [NoSub EXCEPT !.status = "open", !.user = proc[x].user,
                            !.plan = proc[x].plan, !.fee = proc[x].coach /\ FeeDue(proc[x].user)]]
        PROVE  stripe' \in [Subs -> StripeSub]
    <3> DEFINE sub == [NoSub EXCEPT !.status = "open", !.user = proc[x].user, !.plan = proc[x].plan,
                                    !.fee = proc[x].coach /\ FeeDue(proc[x].user)]
    <3>1. sub \in StripeSub
      BY <1>0 DEF NoSub, StripeSub, StripeStatus, Local
    <3>2. stripe' = [stripe EXCEPT ![s] = sub]
      BY <2>1
    <3> HIDE DEF sub
    <3>. QED  BY <3>1, <3>2 DEF Tables
  <2>2. stripe' \in [Subs -> StripeSub]
    BY <1>4, <2>1 DEF CheckoutSession, Tables
  <2>. QED  BY <1>4, <2>2, ReturnType DEF CheckoutSession, Tables
<1>5. CASE CancelStripe(x)
  <2>0. proc[x].sub \in Subs
    BY <1>0, <1>5 DEF CancelStripe, At, Serves, CancelPC
  <2> DEFINE sub == IF proc[x].flag THEN [stripe[proc[x].sub] EXCEPT !.status = "canceled"]
                                    ELSE [stripe[proc[x].sub] EXCEPT !.atEnd = TRUE]
  <2>1. sub \in StripeSub
    BY ZenonT(60), <2>0 DEF Tables, StripeSub, StripeStatus
  <2>2. CASE Return(x) /\ UNCHANGED <<stripe, events, sent>>
    BY <1>5, <2>2, ReturnType DEF CancelStripe, Tables
  <2>3. ASSUME Happens(proc[x].sub, sub, IF proc[x].flag THEN "deleted" ELSE "updated"),
               Goto(x, [proc[x] EXCEPT !.status = sub.status, !.flag = sub.atEnd], "cancel_write")
        PROVE  Tables' /\ Handlers'
    <3> HIDE DEF sub
    <3> DEFINE l == [proc[x] EXCEPT !.status = sub.status, !.flag = sub.atEnd, !.pc = "cancel_write"]
    <3>1. l \in Local /\ l.pc = "cancel_write" /\ l.sub = proc[x].sub
      BY <1>0, <2>1 DEF Local, StripeSub
    <3>2. Serves(l)
      BY <2>0, <3>1 DEF Serves, CheckoutPC
    <3>3. l = [[proc[x] EXCEPT !.status = sub.status, !.flag = sub.atEnd] EXCEPT !.pc = "cancel_write"]
      OBVIOUS
    <3> HIDE DEF l
    <3>4. Handlers'
      BY <2>3, <3>1, <3>2, <3>3, GotoType
    <3>5. stripe' \in [Subs -> StripeSub] /\ events' \subseteq Event /\ sent' \in 0..MaxEvents
      BY <2>0, <2>1, <2>3, HappensType
    <3>. QED  BY <1>5, <3>4, <3>5 DEF CancelStripe, Tables
  <2>. QED  BY <1>5, <2>2, <2>3 DEF CancelStripe
<1>6. CASE CancelWrite(x)
  <2>1. rows' \in [Subs -> SubRow]
    <3>1. proc[x].status \in StripeStatus /\ proc[x].flag \in BOOLEAN
      BY <1>0 DEF Local
    <3>2. rows' = [rows EXCEPT ![proc[x].sub].status = proc[x].status,
                               ![proc[x].sub].atEnd = proc[x].flag]
      BY <1>6 DEF CancelWrite
    <3>. QED  BY <3>1, <3>2, WrittenRowType
  <2>. QED  BY <1>6, <2>1, ReturnType DEF CancelWrite, Tables
<1>. QED
  BY <1>1, <1>2, <1>3, <1>4, <1>5, <1>6 DEF Call

\* The webhook.
LEMMA WebhookTypes ==
  ASSUME Tables, Handlers, NEW x \in Procs,
         \/ \E e \in events : Deliver(x, e)
         \/ CompletedRetrieve(x) \/ CompletedCreate(x) \/ CompletedActivate(x) \/ CompletedFee(x)
         \/ UpdatedRow(x) \/ UpdatedProfile(x) \/ DeletedRow(x) \/ DeletedProfile(x)
  PROVE  Tables' /\ Handlers'
<1>0. proc[x] \in Local /\ Serves(proc[x])
  BY DEF Handlers
<1>1. ASSUME proc[x].pc \in WebhookPC PROVE proc[x].sub \in Subs
  BY <1>0, <1>1 DEF Serves
<1>2. ASSUME NEW u \in Coaches PROVE profiles[u] \in ProfileRow
  BY DEF Tables
<1>3. ASSUME NEW e \in events, Deliver(x, e) PROVE Tables' /\ Handlers'
  <2>1. e \in Event
    BY <1>3 DEF Tables
  <2>2. PICK pc \in {"completed_retrieve", "updated_row", "deleted_row"} :
          Goto(x, [Idle EXCEPT !.sub = e.sub, !.status = e.status, !.flag = e.atEnd], pc)
    BY <1>3, <2>1 DEF Deliver, Event
  <2> DEFINE l == [Idle EXCEPT !.sub = e.sub, !.status = e.status, !.flag = e.atEnd, !.pc = pc]
  <2>3. l \in Local /\ Serves(l)
    BY <2>1 DEF Idle, Local, StripeStatus, Event, Serves, CheckoutPC, CancelPC, CompletedPC, WebhookPC
  <2>4. l = [[Idle EXCEPT !.sub = e.sub, !.status = e.status, !.flag = e.atEnd] EXCEPT !.pc = pc]
    OBVIOUS
  <2> HIDE DEF l
  <2>5. Handlers'
    BY <2>2, <2>3, <2>4, GotoType
  <2>. QED  BY <1>3, <2>5 DEF Deliver, Tables
<1>4. CASE CompletedRetrieve(x)
  <2>1. stripe[proc[x].sub] \in StripeSub
    BY <1>1, <1>4 DEF CompletedRetrieve, At, WebhookPC, CompletedPC, Tables
  <2> DEFINE s == proc[x].sub
             l == [proc[x] EXCEPT !.status = stripe[s].status, !.flag = stripe[s].atEnd,
                     !.user = stripe[s].user, !.coach = (plans[stripe[s].plan] = "COACH"),
                     !.pc = "completed_create"]
  <2>2. l \in Local /\ l.pc = "completed_create" /\ l.sub = s
    BY <1>0, <2>1 DEF Local, StripeSub
  <2>3. Goto(x, [proc[x] EXCEPT !.status = stripe[s].status, !.flag = stripe[s].atEnd,
                     !.user = stripe[s].user, !.coach = (plans[stripe[s].plan] = "COACH")],
             "completed_create")
    BY <1>4 DEF CompletedRetrieve
  <2>4. s \in Subs
    BY <1>1, <1>4 DEF CompletedRetrieve, At, WebhookPC, CompletedPC
  <2>5. Serves(l)
    BY <2>2, <2>4 DEF Serves, CheckoutPC
  <2>6. l = [[proc[x] EXCEPT !.status = stripe[s].status, !.flag = stripe[s].atEnd,
                 !.user = stripe[s].user, !.coach = (plans[stripe[s].plan] = "COACH")]
               EXCEPT !.pc = "completed_create"]
    OBVIOUS
  <2> HIDE DEF l
  <2>7. Handlers'
    BY <2>2, <2>3, <2>5, <2>6, GotoType
  <2>. QED  BY <1>4, <2>7 DEF CompletedRetrieve, Tables
<1>5. CASE CompletedCreate(x)
  <2>0. proc[x].pc \in WebhookPC /\ proc[x].sub \in Subs
    BY <1>1, <1>5 DEF CompletedCreate, At, WebhookPC, CompletedPC
  <2>1. Handlers'
    BY <1>5, <2>0, ReturnType, MoveType DEF CompletedCreate, WebhookPC, CompletedPC
  <2> DEFINE row == [status |-> proc[x].status, user |-> proc[x].user,
                     plan |-> stripe[proc[x].sub].plan, atEnd |-> proc[x].flag, deleted |-> FALSE]
  <2>2. row \in SubRow
    BY <1>0, <2>0 DEF Tables, StripeSub, SubRow, Local
  <2>3. rows' = rows \/ rows' = [rows EXCEPT ![proc[x].sub] = row]
    BY <1>5 DEF CompletedCreate
  <2> HIDE DEF row
  <2>4. rows' \in [Subs -> SubRow]
    BY <2>2, <2>3 DEF Tables
  <2>. QED  BY <1>5, <2>1, <2>4 DEF CompletedCreate, Tables
<1>6. CASE CompletedActivate(x)
  <2>0. proc[x].pc \in WebhookPC /\ proc[x].sub \in Subs
    BY <1>1, <1>6 DEF CompletedActivate, At, WebhookPC, CompletedPC
  <2>1. Handlers'
    BY <1>6, <2>0, ReturnType, MoveType DEF CompletedActivate, WebhookPC, CompletedPC
  <2>2. ASSUME NEW u \in Coaches
        PROVE  [profiles[u] EXCEPT !.active = TRUE, !.reference = proc[x].sub] \in ProfileRow
    BY <1>2, <2>0 DEF ProfileRow
  <2>3. profiles' \in [Coaches -> ProfileRow]
    BY <1>6, <2>2, WriteProfileType DEF CompletedActivate
  <2>. QED  BY <1>6, <2>1, <2>3 DEF CompletedActivate, Tables
<1>7. CASE CompletedFee(x)
  <2>1. ASSUME NEW u \in Coaches PROVE [profiles[u] EXCEPT !.fee = TRUE] \in ProfileRow
    BY <1>2 DEF ProfileRow
  <2>2. profiles' \in [Coaches -> ProfileRow]
    BY <1>7, <2>1, WriteProfileType DEF CompletedFee
  <2>. QED  BY <1>7, <2>2, ReturnType DEF CompletedFee, Tables
<1>8. CASE UpdatedRow(x)
  <2>0. proc[x].pc \in WebhookPC
    BY <1>8 DEF UpdatedRow, At, WebhookPC
  <2>1. rows' \in [Subs -> SubRow]
    <3>1. rows' = rows \/ rows' = [rows EXCEPT ![proc[x].sub].status = proc[x].status,
                                               ![proc[x].sub].atEnd = proc[x].flag]
      BY <1>8 DEF UpdatedRow
    <3>2. ASSUME rows' = [rows EXCEPT ![proc[x].sub].status = proc[x].status,
                                      ![proc[x].sub].atEnd = proc[x].flag]
          PROVE  rows' \in [Subs -> SubRow]
      <4>1. proc[x].status \in StripeStatus /\ proc[x].flag \in BOOLEAN
        BY <1>0 DEF Local
      <4>. QED  BY <3>2, <4>1, WrittenRowType
    <3>. QED  BY <3>1, <3>2 DEF Tables
  <2>2. Handlers'
    BY <1>8, <2>0, MoveType DEF UpdatedRow, WebhookPC
  <2>. QED  BY <1>8, <2>1, <2>2 DEF UpdatedRow, Tables
<1>9. CASE UpdatedProfile(x)
  <2> DEFINE u == rows[proc[x].sub].user
  <2>1. ASSUME NEW v \in Coaches, NEW on \in BOOLEAN
        PROVE  [profiles[v] EXCEPT !.active = on] \in ProfileRow
    BY <1>2 DEF ProfileRow
  <2>2. \/ UNCHANGED profiles
        \/ \E on \in BOOLEAN : WriteProfile(u, [profiles[u] EXCEPT !.active = on])
    BY <1>9 DEF UpdatedProfile
  <2>3. ASSUME NEW on \in BOOLEAN, WriteProfile(u, [profiles[u] EXCEPT !.active = on])
        PROVE  profiles' \in [Coaches -> ProfileRow]
    BY <2>1, <2>3, WriteProfileType
  <2>4. profiles' \in [Coaches -> ProfileRow]
    BY <2>2, <2>3 DEF Tables
  <2>. QED  BY <1>9, <2>4, ReturnType DEF UpdatedProfile, Tables
<1>10. CASE DeletedRow(x)
  <2>0. proc[x].pc \in WebhookPC
    BY <1>10 DEF DeletedRow, At, WebhookPC
  <2>1. rows' \in [Subs -> SubRow]
    <3>1. rows' = rows \/ rows' = [rows EXCEPT ![proc[x].sub].status = "canceled",
                                               ![proc[x].sub].deleted = TRUE]
      BY <1>10 DEF DeletedRow
    <3>2. ASSUME rows' = [rows EXCEPT ![proc[x].sub].status = "canceled",
                                      ![proc[x].sub].deleted = TRUE]
          PROVE  rows' \in [Subs -> SubRow]
      BY ZenonT(60), <3>2 DEF Tables, SubRow, StripeStatus
    <3>. QED  BY <3>1, <3>2 DEF Tables
  <2>2. Handlers'
    BY <1>10, <2>0, MoveType DEF DeletedRow, WebhookPC
  <2>. QED  BY <1>10, <2>1, <2>2 DEF DeletedRow, Tables
<1>11. CASE DeletedProfile(x)
  <2> DEFINE u == rows[proc[x].sub].user
  <2>1. ASSUME NEW v \in Coaches PROVE [profiles[v] EXCEPT !.active = FALSE] \in ProfileRow
    BY <1>2 DEF ProfileRow
  <2>2. UNCHANGED profiles \/ WriteProfile(u, [profiles[u] EXCEPT !.active = FALSE])
    BY <1>11 DEF DeletedProfile
  <2>3. profiles' \in [Coaches -> ProfileRow]
    BY <2>1, <2>2, WriteProfileType DEF Tables
  <2>. QED  BY <1>11, <2>3, ReturnType DEF DeletedProfile, Tables
<1>. QED
  BY <1>3, <1>4, <1>5, <1>6, <1>7, <1>8, <1>9, <1>10, <1>11

\* The admin, the profile endpoints and Stripe.
LEMMA OtherTypes ==
  ASSUME Tables, Handlers,
         \/ \E p \in Plans, k \in PlanKinds : CreateOrUpdatePlan(p, k)
         \/ \E c \in Coaches : SetupProfile(c) \/ UpdateUser(c)
         \/ \E x \in Procs : Stop(x)
         \/ StripeActs
  PROVE  Tables' /\ Handlers'
<1>1. ASSUME NEW p \in Plans, NEW k \in PlanKinds, CreateOrUpdatePlan(p, k) PROVE Tables' /\ Handlers'
  <2>1. plans' \in [Plans -> PlanKind]
    BY <1>1, PlanKindsKnown DEF CreateOrUpdatePlan, Tables, PlanKind
  <2>2. hist' \in Hist
    BY <1>1 DEF CreateOrUpdatePlan, Tables, Hist
  <2>. QED  BY <1>1, <2>1, <2>2 DEF CreateOrUpdatePlan, Tables, Handlers
<1>2. ASSUME NEW c \in Coaches, SetupProfile(c) PROVE Tables' /\ Handlers'
  <2>1. profiles' \in [Coaches -> ProfileRow]
    BY <1>2 DEF SetupProfile, Tables, ProfileRow
  <2>. QED  BY <1>2, <2>1 DEF SetupProfile, Tables, Handlers
<1>3. ASSUME NEW c \in Coaches, UpdateUser(c) PROVE Tables' /\ Handlers'
  <2>1. profiles' \in [Coaches -> ProfileRow]
    BY <1>3 DEF UpdateUser, Tables, ProfileRow
  <2>2. hist' \in Hist
    BY <1>3 DEF UpdateUser, Tables, Hist
  <2>. QED  BY <1>3, <2>1, <2>2 DEF UpdateUser, Tables, Handlers
<1>4. ASSUME NEW x \in Procs, Stop(x) PROVE Tables' /\ Handlers'
  <2>1. hist' \in Hist
    BY <1>4 DEF Stop, Tables, Hist
  <2>. QED  BY <1>4, <2>1, ReturnType DEF Stop, Tables
<1>5. ASSUME NEW s \in Subs, PaySession(s) \/ Renewal(s) \/ Ends(s) PROVE Tables' /\ Handlers'
  <2>1. PICK st \in StripeStatus, kind \in {"completed", "updated", "deleted"} :
          Happens(s, [stripe[s] EXCEPT !.status = st], kind) /\ StripeOnly
    BY <1>5 DEF PaySession, Renewal, Ends, StripeStatus
  <2>2. [stripe[s] EXCEPT !.status = st] \in StripeSub
    BY DEF Tables, StripeSub
  <2>3. stripe' \in [Subs -> StripeSub] /\ events' \subseteq Event /\ sent' \in 0..MaxEvents
    BY <2>1, <2>2, HappensType
  <2>. QED  BY <2>1, <2>3 DEF StripeOnly, Tables, Handlers
<1>. QED
  BY <1>1, <1>2, <1>3, <1>4, <1>5 DEF StripeActs

\* Every step keeps the types.
LEMMA SubNextTypes == Tables /\ Handlers /\ [Next]_vars => Tables' /\ Handlers'
<1>. SUFFICES ASSUME Tables, Handlers, [Next]_vars PROVE Tables' /\ Handlers'
  OBVIOUS
<1>1. CASE UNCHANGED vars
  BY <1>1 DEF vars, Tables, Handlers
<1>2. \A x \in Requests \cup Hooks : x \in Procs
  BY DEF Procs
<1>. QED
  BY <1>1, <1>2, RequestTypes, WebhookTypes, OtherTypes DEF Next, Continue

\* The tables and the handlers keep their types in every behaviour.
LEMMA SubTypeInvariant == Spec => [](Tables /\ Handlers)
  BY SubInitTypes, SubNextTypes, PTL DEF Spec

\* The tables and the locals of every handler keep their types.
THEOREM SubscriptionTypes == Spec => []SubTypeOK
<1>1. Tables /\ Handlers => SubTypeOK
  BY DEF Tables, Handlers, SubTypeOK
<1>. QED
  BY <1>1, SubTypeInvariant, PTL

\* What a coach has at Stripe keeps its types, however the two modules take their steps.
THEOREM CoachTypes == Spec /\ PayoutSpec => []CoachTypeOK
  BY SubscriptionTypes, PayoutAccountTypes, PTL DEF CoachTypeOK

-----------------------------------------------------------------------------
(* Subscriptions: the registration fee                                     *)

\* What was paid stays paid, by the same user and for the same things.
PaidOnward ==
    \A s \in Subs : Paid(s) => /\ Paid(s)'
                               /\ stripe'[s].user = stripe[s].user
                               /\ stripe'[s].fee = stripe[s].fee

Charged(c) == \E s \in Subs : Paid(s) /\ stripe[s].user = c /\ stripe[s].fee

\* What a handler knows of the subscription it is at work on.
Follows(l) ==
    /\ l.pc \in CancelPC \cup WebhookPC => Paid(l.sub)
    /\ l.pc \in CompletedPC \ {"completed_retrieve"} => l.user = stripe[l.sub].user
    /\ l.pc = "completed_fee" => stripe[l.sub].fee

FeeInv ==
    /\ \A e \in events : Paid(e.sub)
    /\ \A s \in Subs : HasRow(s) => Paid(s)
    /\ \A x \in Procs : Follows(proc[x])
    /\ \A c \in Coaches : (profiles[c].fee => Charged(c)) /\ (profiles[c].setUp => profiles[c].fee)

\* What Stripe does to a subscription that is open or paid.
LEMMA HappensOnward ==
  ASSUME Tables, NEW s \in Subs, NEW sub, NEW kind, Happens(s, sub, kind),
         sub.status \notin {"none", "open"}, sub.user = stripe[s].user, sub.fee = stripe[s].fee
  PROVE  /\ PaidOnward /\ Paid(s)'
         /\ \A e \in events' : e \in events \/ e.sub = s
  BY DEF Happens, PaidOnward, Paid, Tables

\* The three ways Stripe comes to act on a subscription,
LEMMA StripeHappens ==
  ASSUME Tables, Handlers, NEW s \in Subs, PaySession(s) \/ Renewal(s) \/ Ends(s)
  PROVE  \E st \in StripeStatus \ {"none", "open"}, kind \in {"completed", "updated", "deleted"} :
            /\ Happens(s, [stripe[s] EXCEPT !.status = st], kind)
            /\ kind = "completed" <=> stripe[s].status = "open"
            /\ kind = "completed" => st = "active"
            /\ kind = "deleted" <=> st = "canceled"
            /\ stripe[s].status \notin {"none", "canceled"}
  BY DEF PaySession, Renewal, Ends, StripeStatus

\* and the one by a call.
LEMMA CancelHappens ==
  ASSUME Tables, Handlers, NEW x \in Procs, CancelStripe(x)
  PROVE  \/ Return(x) /\ UNCHANGED <<stripe, events, sent>>
         \/ LET s   == proc[x].sub
                sub == IF proc[x].flag THEN [stripe[s] EXCEPT !.status = "canceled"]
                                       ELSE [stripe[s] EXCEPT !.atEnd = TRUE]
            IN  /\ s \in Subs /\ stripe[s].status # "canceled"
                /\ sub \in StripeSub /\ sub.user = stripe[s].user /\ sub.fee = stripe[s].fee
                /\ sub.status = IF proc[x].flag THEN "canceled" ELSE stripe[s].status
                /\ sub.atEnd = IF proc[x].flag THEN stripe[s].atEnd ELSE TRUE
                /\ Happens(s, sub, IF proc[x].flag THEN "deleted" ELSE "updated")
                /\ Goto(x, [proc[x] EXCEPT !.status = sub.status, !.flag = sub.atEnd], "cancel_write")
<1>1. proc[x].sub \in Subs
  BY DEF CancelStripe, At, Handlers, Serves, CancelPC
<1>2. stripe[proc[x].sub] \in StripeSub
  BY <1>1 DEF Tables
<1>. QED
  BY <1>1, <1>2 DEF CancelStripe, StripeSub, StripeStatus

\* No step takes a payment back.
LEMMA PaidStaysPaid == ASSUME Tables, Handlers, FeeInv, [Next]_vars PROVE PaidOnward
<1>1. CASE UNCHANGED stripe
  BY <1>1 DEF PaidOnward, Paid
<1>2. ASSUME NEW x \in Procs, CheckoutSession(x) PROVE PaidOnward
  BY <1>1, <1>2 DEF CheckoutSession, PaidOnward, Paid, Tables
<1>3. ASSUME NEW x \in Procs, CancelStripe(x) PROVE PaidOnward
  <2>1. CASE Return(x) /\ UNCHANGED <<stripe, events, sent>>
    BY <1>1, <2>1
  <2> DEFINE s   == proc[x].sub
             sub == IF proc[x].flag THEN [stripe[s] EXCEPT !.status = "canceled"]
                                    ELSE [stripe[s] EXCEPT !.atEnd = TRUE]
  <2>2. CASE /\ s \in Subs /\ stripe[s].status # "canceled"
             /\ sub.user = stripe[s].user /\ sub.fee = stripe[s].fee
             /\ sub.status = IF proc[x].flag THEN "canceled" ELSE stripe[s].status
             /\ Happens(s, sub, IF proc[x].flag THEN "deleted" ELSE "updated")
    <3>1. Paid(s)
      BY <1>3 DEF CancelStripe, At, FeeInv, Follows, CancelPC
    <3>2. sub.status \notin {"none", "open"}
      BY <2>2, <3>1 DEF Paid
    <3> HIDE DEF sub
    <3>. QED  BY <2>2, <3>2, HappensOnward
  <2> HIDE DEF sub
  <2>. QED  BY <1>3, <2>1, <2>2, CancelHappens DEF sub
<1>4. ASSUME NEW s \in Subs, PaySession(s) \/ Renewal(s) \/ Ends(s) PROVE PaidOnward
  <2>1. PICK st \in StripeStatus \ {"none", "open"}, kind \in {"completed", "updated", "deleted"} :
           Happens(s, [stripe[s] EXCEPT !.status = st], kind)
    BY <1>4, StripeHappens
  <2> DEFINE sub == [stripe[s] EXCEPT !.status = st]
  <2>2. sub.status = st /\ sub.user = stripe[s].user /\ sub.fee = stripe[s].fee
    BY DEF Tables, StripeSub
  <2> HIDE DEF sub
  <2>. QED  BY <2>1, <2>2, HappensOnward DEF sub
<1>. QED
  BY <1>1, <1>2, <1>3, <1>4 DEF Next, Call, Continue, StripeActs, vars, CreateOrUpdatePlan, CheckoutRead,
       CheckoutCustomer, CancelRead, CancelWrite, SetupProfile, UpdateUser, Deliver, CompletedRetrieve,
       CompletedCreate, CompletedActivate, CompletedFee, UpdatedRow, UpdatedProfile, DeletedRow,
       DeletedProfile, Stop

Others(x) == \A y \in Procs \ {x} : proc'[y] = proc[y]

\* Where a handler is after its step.
LEMMA GotoIs ==
  ASSUME Handlers, NEW x \in Procs, NEW l, NEW pc, Goto(x, l, pc)
  PROVE  Others(x) /\ proc'[x] = [l EXCEPT !.pc = pc]
  BY DEF Handlers, Goto, Others

\* What the end of a handler changes: that handler only.
LEMMA ReturnIs ==
  ASSUME Handlers, NEW x \in Procs, Return(x)
  PROVE  Others(x) /\ proc'[x].pc = "idle"
  BY DEF Handlers, Return, Others, Idle

\* What going on to an await changes: the await only.
LEMMA MoveIs ==
  ASSUME Handlers, NEW x \in Procs, NEW pc, Goto(x, proc[x], pc)
  PROVE  /\ Others(x)
         /\ proc'[x].pc = pc /\ proc'[x].user = proc[x].user /\ proc'[x].sub = proc[x].sub
         /\ proc'[x].status = proc[x].status /\ proc'[x].flag = proc[x].flag
<1>1. proc[x] \in Local
  BY DEF Handlers
<1>2. Others(x) /\ proc'[x] = [proc[x] EXCEPT !.pc = pc]
  BY GotoIs
<1>. QED
  BY <1>1, <1>2 DEF Local

\* A step of one handler keeps the fee honest when that handler's part in it does.
LEMMA FeeStep ==
  ASSUME Tables, Handlers, FeeInv, PaidOnward, NEW x \in Procs, Others(x), Follows(proc[x])',
         \A e \in events' : e \in events \/ Paid(e.sub)',
         \A s \in Subs : HasRow(s)' => HasRow(s) \/ Paid(s)',
         \A c \in Coaches : /\ profiles'[c].fee => profiles[c].fee \/ Charged(c)'
                            /\ profiles[c].fee => profiles'[c].fee
                            /\ profiles'[c].setUp => profiles[c].setUp \/ profiles[c].fee
  PROVE  FeeInv'
<1>1. \A e \in events' : Paid(e.sub)'
  BY DEF FeeInv, Tables, Event, PaidOnward
<1>2. \A s \in Subs : HasRow(s)' => Paid(s)'
  BY DEF FeeInv, PaidOnward
<1>3. ASSUME NEW y \in Procs PROVE Follows(proc[y])'
  <2>1. CASE y = x
    BY <2>1
  <2>2. CASE y # x
    BY <2>2 DEF Others, FeeInv, Handlers, Serves, Follows, PaidOnward, CompletedPC, WebhookPC
  <2>. QED  BY <2>1, <2>2
<1>4. ASSUME NEW c \in Coaches, Charged(c) PROVE Charged(c)'
  BY <1>4 DEF Charged, PaidOnward
<1>5. \A c \in Coaches : (profiles'[c].fee => Charged(c)') /\ (profiles'[c].setUp => profiles'[c].fee)
  BY <1>4 DEF FeeInv
<1>. QED
  BY <1>1, <1>2, <1>3, <1>5 DEF FeeInv

\* The requests,
LEMMA FeeRequests ==
  ASSUME Tables, Handlers, FeeInv, PaidOnward, NEW x \in Procs,
         Call(x) \/ CheckoutCustomer(x) \/ CheckoutSession(x) \/ CancelStripe(x) \/ CancelWrite(x)
  PROVE  FeeInv'
<1> USE DEF At
<1>0. /\ \A s \in Subs : Paid(s) => Paid(s)'
      /\ \A s \in Subs : HasRow(s) => Paid(s)
      /\ proc[x] \in Local /\ Follows(proc[x])
      /\ proc[x].pc \in CancelPC \cup WebhookPC => proc[x].sub \in Subs
  BY DEF PaidOnward, FeeInv, Handlers, Serves
<1>1. ASSUME Others(x), proc'[x].pc \in CheckoutPC \cup {"idle"}, UNCHANGED <<rows, events, profiles>>
      PROVE  FeeInv'
  <2>1. Follows(proc[x])'
    BY <1>1 DEF Follows, CheckoutPC, CancelPC, WebhookPC, CompletedPC
  <2>. QED  BY <1>1, <2>1, FeeStep DEF HasRow
<1>2. ASSUME NEW u, NEW p, NEW e, CheckoutRead(x, u, p, e) PROVE FeeInv'
  <2>1. PICK pc \in CheckoutPC : Goto(x, [Idle EXCEPT !.user = u, !.plan = p, !.coach = (e = "coach")], pc)
    BY <1>2 DEF CheckoutRead, CheckoutPC
  <2>2. /\ Others(x)
        /\ proc'[x] = [[Idle EXCEPT !.user = u, !.plan = p, !.coach = (e = "coach")] EXCEPT !.pc = pc]
    <3> DEFINE l == [Idle EXCEPT !.user = u, !.plan = p, !.coach = (e = "coach")]
    <3>1. Goto(x, l, pc)
      BY <2>1
    <3> HIDE DEF l
    <3>2. Others(x) /\ proc'[x] = [l EXCEPT !.pc = pc]
      BY <3>1, GotoIs
    <3>. QED  BY <3>2 DEF l
  <2>3. proc'[x].pc = pc
    BY <2>2 DEF Idle
  <2>. QED  BY <1>1, <1>2, <2>2, <2>3 DEF CheckoutRead
<1>3. ASSUME NEW u, CancelRead(x, u) PROVE FeeInv'
  <2>1. PICK s \in Subs, now \in BOOLEAN :
          rows[s].status = "active" /\ Goto(x, [Idle EXCEPT !.user = u, !.sub = s, !.flag = now], "cancel_stripe")
    BY <1>3 DEF CancelRead
  <2>2. Others(x) /\ proc'[x].pc = "cancel_stripe" /\ proc'[x].sub = s
    <3>1. /\ Others(x)
          /\ proc'[x] = [[Idle EXCEPT !.user = u, !.sub = s, !.flag = now] EXCEPT !.pc = "cancel_stripe"]
      BY <2>1, GotoIs
    <3>. QED  BY <3>1 DEF Idle
  <2>3. Paid(s)'
    BY <1>0, <2>1 DEF HasRow
  <2>4. Follows(proc[x])'
    BY <2>2, <2>3 DEF Follows, CompletedPC
  <2>. QED  BY <1>3, <2>2, <2>4, FeeStep DEF CancelRead, HasRow
<1>4. CASE CheckoutCustomer(x)
  BY <1>1, <1>4, MoveIs DEF CheckoutCustomer, CheckoutPC
<1>5. CASE CheckoutSession(x)
  BY <1>1, <1>5, ReturnIs DEF CheckoutSession
<1>6. CASE CancelStripe(x)
  <2>1. CASE Return(x) /\ UNCHANGED <<stripe, events, sent>>
    BY <1>1, <1>6, <2>1, ReturnIs DEF CancelStripe
  <2>2. ASSUME NEW sub, NEW kind, Happens(proc[x].sub, sub, kind),
               Goto(x, [proc[x] EXCEPT !.status = sub.status, !.flag = sub.atEnd], "cancel_write")
        PROVE  FeeInv'
    <3>1. Others(x) /\ proc'[x].pc = "cancel_write" /\ proc'[x].sub = proc[x].sub
      <4>1. /\ Others(x)
            /\ proc'[x] = [[proc[x] EXCEPT !.status = sub.status, !.flag = sub.atEnd]
                               EXCEPT !.pc = "cancel_write"]
        BY <2>2, GotoIs
      <4>. QED  BY <1>0, <4>1 DEF Local
    <3>2. PICK s \in Subs : s = proc[x].sub /\ Paid(s)'
      BY <1>0, <1>6 DEF CancelStripe, CancelPC, Follows
    <3>3. Follows(proc[x])'
      BY <3>1, <3>2 DEF Follows, CompletedPC
    <3>4. \A e \in events' : e \in events \/ e.sub = s
      BY <2>2, <3>2 DEF Happens
    <3>. QED  BY <1>6, <3>1, <3>2, <3>3, <3>4, FeeStep DEF CancelStripe, HasRow
  <2>. QED  BY <1>6, <2>1, <2>2 DEF CancelStripe
<1>7. CASE CancelWrite(x)
  <2>1. Others(x) /\ proc'[x].pc = "idle"
    BY <1>7, ReturnIs DEF CancelWrite
  <2>2. PICK s \in Subs : s = proc[x].sub /\ Paid(s)'
    BY <1>0, <1>7 DEF CancelWrite, CancelPC, Follows
  <2>3. \A r \in Subs : HasRow(r)' => HasRow(r) \/ Paid(r)'
    BY <1>7, <2>2 DEF CancelWrite, HasRow, Tables
  <2>4. Follows(proc[x])'
    BY <2>1 DEF Follows, CancelPC, WebhookPC, CompletedPC
  <2>. QED  BY <1>7, <2>1, <2>3, <2>4, FeeStep DEF CancelWrite
<1>. QED
  BY <1>2, <1>3, <1>4, <1>5, <1>6, <1>7 DEF Call

\* the webhook,
LEMMA FeeWebhook ==
  ASSUME Tables, Handlers, FeeInv, PaidOnward, NEW x \in Procs,
         \/ \E e \in events : Deliver(x, e)
         \/ CompletedRetrieve(x) \/ CompletedCreate(x) \/ CompletedActivate(x) \/ CompletedFee(x)
         \/ UpdatedRow(x) \/ UpdatedProfile(x) \/ DeletedRow(x) \/ DeletedProfile(x)
  PROVE  FeeInv'
<1> USE DEF At
<1>0. /\ \A s \in Subs : Paid(s) => Paid(s)' /\ stripe'[s].user = stripe[s].user /\ stripe'[s].fee = stripe[s].fee
      /\ proc[x] \in Local /\ Follows(proc[x])
      /\ proc[x].pc \in CancelPC \cup WebhookPC => proc[x].sub \in Subs
      /\ profiles \in [Coaches -> ProfileRow]
  BY DEF PaidOnward, FeeInv, Handlers, Serves, Tables
<1>1. ASSUME NEW e \in events, Deliver(x, e) PROVE FeeInv'
  <2>1. e \in Event /\ Paid(e.sub)
    BY DEF Tables, FeeInv
  <2>2. PICK pc \in {"completed_retrieve", "updated_row", "deleted_row"} :
          Goto(x, [Idle EXCEPT !.sub = e.sub, !.status = e.status, !.flag = e.atEnd], pc)
    BY <1>1, <2>1 DEF Deliver, Event
  <2>3. Others(x) /\ proc'[x].pc = pc /\ proc'[x].sub = e.sub
    <3>1. /\ Others(x)
          /\ proc'[x] = [[Idle EXCEPT !.sub = e.sub, !.status = e.status, !.flag = e.atEnd] EXCEPT !.pc = pc]
      BY <2>2, GotoIs
    <3>. QED  BY <3>1 DEF Idle
  <2>4. Follows(proc[x])'
    BY <1>0, <2>1, <2>3 DEF Follows, CompletedPC, Event
  <2>. QED  BY <1>1, <2>3, <2>4, FeeStep DEF Deliver, HasRow
<1>2. CASE CompletedRetrieve(x)
  <2>1. PICK s \in Subs : s = proc[x].sub /\ Paid(s)
    BY <1>0, <1>2 DEF CompletedRetrieve, WebhookPC, CompletedPC, Follows
  <2>2. Goto(x, [proc[x] EXCEPT !.status = stripe[s].status, !.flag = stripe[s].atEnd,
                    !.user = stripe[s].user, !.coach = (plans[stripe[s].plan] = "COACH")], "completed_create")
    BY <1>2, <2>1 DEF CompletedRetrieve
  <2>3. Others(x) /\ proc'[x].pc = "completed_create" /\ proc'[x].sub = s /\ proc'[x].user = stripe[s].user
    <3>1. /\ Others(x)
          /\ proc'[x] = [[proc[x] EXCEPT !.status = stripe[s].status, !.flag = stripe[s].atEnd,
                             !.user = stripe[s].user, !.coach = (plans[stripe[s].plan] = "COACH")]
                           EXCEPT !.pc = "completed_create"]
      <4> DEFINE l == [proc[x] EXCEPT !.status = stripe[s].status, !.flag = stripe[s].atEnd,
                         !.user = stripe[s].user, !.coach = (plans[stripe[s].plan] = "COACH")]
      <4>1. Goto(x, l, "completed_create")
        BY <2>2
      <4> HIDE DEF l
      <4>2. Others(x) /\ proc'[x] = [l EXCEPT !.pc = "completed_create"]
        BY <4>1, GotoIs
      <4>. QED  BY <4>2 DEF l
    <3>. QED  BY <1>0, <2>1, <3>1 DEF Local
  <2>4. Follows(proc[x])'
    BY <1>0, <2>1, <2>3 DEF Follows
  <2>. QED  BY <1>2, <2>3, <2>4, FeeStep DEF CompletedRetrieve, HasRow
<1>3. CASE CompletedCreate(x)
  <2>1. PICK s \in Subs : s = proc[x].sub /\ Paid(s) /\ proc[x].user = stripe[s].user
    BY <1>0, <1>3 DEF CompletedCreate, WebhookPC, CompletedPC, Follows
  <2>2. /\ Others(x)
        /\ \/ proc'[x].pc = "idle"
           \/ /\ proc'[x].pc = "completed_activate"
              /\ proc'[x].sub = s /\ proc'[x].user = proc[x].user
    BY <1>3, <2>1, ReturnIs, MoveIs DEF CompletedCreate
  <2>3. Follows(proc[x])'
    BY <1>0, <2>1, <2>2 DEF Follows, CancelPC, WebhookPC, CompletedPC
  <2>4. \A r \in Subs \ {s} : rows'[r] = rows[r]
    BY <1>3, <2>1 DEF CompletedCreate, Tables
  <2>5. \A r \in Subs : HasRow(r)' => HasRow(r) \/ Paid(r)'
    BY <1>0, <2>1, <2>4 DEF HasRow
  <2>. QED  BY <1>3, <2>2, <2>3, <2>5, FeeStep DEF CompletedCreate
<1>4. CASE CompletedActivate(x)
  <2>1. PICK s \in Subs : s = proc[x].sub /\ Paid(s) /\ proc[x].user = stripe[s].user
    BY <1>0, <1>4 DEF CompletedActivate, WebhookPC, CompletedPC, Follows
  <2>2. /\ Others(x)
        /\ \/ proc'[x].pc = "idle"
           \/ /\ proc'[x].pc = "completed_fee" /\ stripe[s].fee
              /\ proc'[x].sub = s /\ proc'[x].user = proc[x].user
    BY <1>4, <2>1, ReturnIs, MoveIs DEF CompletedActivate
  <2>3. Follows(proc[x])'
    BY <1>0, <2>1, <2>2 DEF Follows, CancelPC, WebhookPC, CompletedPC
  <2>4. \A c \in Coaches : profiles'[c].fee = profiles[c].fee /\ profiles'[c].setUp = profiles[c].setUp
    BY <1>0, <1>4 DEF CompletedActivate, WriteProfile, ProfileRow
  <2>. QED  BY <1>4, <2>2, <2>3, <2>4, FeeStep DEF CompletedActivate, HasRow
<1>5. CASE CompletedFee(x)
  <2>1. PICK s \in Subs : s = proc[x].sub /\ Paid(s) /\ proc[x].user = stripe[s].user /\ stripe[s].fee
    BY <1>0, <1>5 DEF CompletedFee, WebhookPC, CompletedPC, Follows
  <2>2. Others(x) /\ proc'[x].pc = "idle"
    BY <1>5, ReturnIs DEF CompletedFee
  <2>3. Follows(proc[x])'
    BY <2>2 DEF Follows, CancelPC, WebhookPC, CompletedPC

  <2>5. \A c \in Coaches : /\ profiles'[c].setUp = profiles[c].setUp
                           /\ profiles[c].fee => profiles'[c].fee
                           /\ profiles'[c].fee => profiles[c].fee \/ c = proc[x].user
    BY <1>0, <1>5 DEF CompletedFee, WriteProfile, ProfileRow
  <2>6. ASSUME NEW c \in Coaches, profiles'[c].fee PROVE profiles[c].fee \/ Charged(c)'
    <3>1. c = stripe[s].user => Charged(c)'
      BY <1>0, <2>1 DEF Charged
    <3>. QED  BY <1>0, <2>1, <2>5, <2>6, <3>1
  <2>. QED  BY <1>5, <2>2, <2>3, <2>5, <2>6, FeeStep DEF CompletedFee, HasRow
<1>6. ASSUME Others(x), proc[x].pc \in WebhookPC,
             \/ proc'[x].pc = "idle"
             \/ proc'[x].pc \in {"updated_profile", "deleted_profile"} /\ proc'[x].sub = proc[x].sub
      PROVE  Follows(proc[x])'
  BY <1>0, <1>6 DEF Follows, CancelPC, WebhookPC, CompletedPC
<1>7. CASE UpdatedRow(x)
  <2>1. Others(x) /\ proc'[x].pc = "updated_profile" /\ proc'[x].sub = proc[x].sub
    BY <1>7, MoveIs DEF UpdatedRow
  <2>2. \A r \in Subs : HasRow(r)' => HasRow(r)
    <3>1. ASSUME NEW r \in Subs, ~HasRow(r) PROVE rows'[r] = rows[r]
      BY <1>7, <3>1 DEF UpdatedRow, HasRow, Tables
    <3>. QED  BY <3>1 DEF HasRow
  <2>3. Follows(proc[x])'
    BY <1>6, <1>7, <2>1 DEF UpdatedRow, WebhookPC
  <2>. QED  BY <1>7, <2>1, <2>2, <2>3, FeeStep DEF UpdatedRow
<1>8. CASE UpdatedProfile(x)
  <2>1. Others(x) /\ proc'[x].pc = "idle"
    BY <1>8, ReturnIs DEF UpdatedProfile
  <2>2. \A c \in Coaches : profiles'[c].fee = profiles[c].fee /\ profiles'[c].setUp = profiles[c].setUp
    <3>1. ASSUME NEW u, NEW on \in BOOLEAN, WriteProfile(u, [profiles[u] EXCEPT !.active = on]),
                 NEW c \in Coaches
          PROVE  profiles'[c].fee = profiles[c].fee /\ profiles'[c].setUp = profiles[c].setUp
      BY <1>0, <3>1 DEF WriteProfile, ProfileRow
    <3>2. \/ UNCHANGED profiles
          \/ \E on \in BOOLEAN : WriteProfile(rows[proc[x].sub].user,
                                              [profiles[rows[proc[x].sub].user] EXCEPT !.active = on])
      BY <1>8 DEF UpdatedProfile
    <3>. QED  BY <3>1, <3>2
  <2>3. Follows(proc[x])'
    BY <1>6, <1>8, <2>1 DEF UpdatedProfile, WebhookPC
  <2>. QED  BY <1>8, <2>1, <2>2, <2>3, FeeStep DEF UpdatedProfile, HasRow
<1>9. CASE DeletedRow(x)
  <2>1. Others(x) /\ proc'[x].pc = "deleted_profile" /\ proc'[x].sub = proc[x].sub
    BY <1>9, MoveIs DEF DeletedRow
  <2>2. \A r \in Subs : HasRow(r)' => HasRow(r)
    <3>1. ASSUME NEW r \in Subs, ~HasRow(r) PROVE rows'[r] = rows[r]
      BY <1>9, <3>1 DEF DeletedRow, HasRow, Tables
    <3>. QED  BY <3>1 DEF HasRow
  <2>3. Follows(proc[x])'
    BY <1>6, <1>9, <2>1 DEF DeletedRow, WebhookPC
  <2>. QED  BY <1>9, <2>1, <2>2, <2>3, FeeStep DEF DeletedRow
<1>10. CASE DeletedProfile(x)
  <2>1. Others(x) /\ proc'[x].pc = "idle"
    BY <1>10, ReturnIs DEF DeletedProfile
  <2>2. \A c \in Coaches : profiles'[c].fee = profiles[c].fee /\ profiles'[c].setUp = profiles[c].setUp
    <3>1. ASSUME NEW u, WriteProfile(u, [profiles[u] EXCEPT !.active = FALSE]), NEW c \in Coaches
          PROVE  profiles'[c].fee = profiles[c].fee /\ profiles'[c].setUp = profiles[c].setUp
      BY <1>0, <3>1 DEF WriteProfile, ProfileRow
    <3>2. \/ UNCHANGED profiles
          \/ WriteProfile(rows[proc[x].sub].user, [profiles[rows[proc[x].sub].user] EXCEPT !.active = FALSE])
      BY <1>10 DEF DeletedProfile
    <3>. QED  BY <3>1, <3>2
  <2>3. Follows(proc[x])'
    BY <1>6, <1>10, <2>1 DEF DeletedProfile, WebhookPC
  <2>. QED  BY <1>10, <2>1, <2>2, <2>3, FeeStep DEF DeletedProfile, HasRow
<1>. QED
  BY <1>1, <1>2, <1>3, <1>4, <1>5, <1>7, <1>8, <1>9, <1>10

\* and all others: Stripe reports nothing but what was paid for, and setupProfile asks.
LEMMA FeeNext == ASSUME Tables, Handlers, FeeInv, [Next]_vars PROVE FeeInv'
<1>0. PaidOnward
  BY PaidStaysPaid
<1>1. ASSUME UNCHANGED <<stripe, rows, events, proc>>,
             \A c \in Coaches : profiles'[c].fee = profiles[c].fee
                                /\ (profiles'[c].setUp => profiles[c].setUp \/ profiles[c].fee)
      PROVE  FeeInv'
  BY <1>1 DEF FeeInv, Paid, HasRow, Follows, Charged
<1>2. ASSUME NEW p, NEW k, CreateOrUpdatePlan(p, k) PROVE FeeInv'
  BY <1>1, <1>2 DEF CreateOrUpdatePlan
<1>3. ASSUME NEW c \in Coaches, SetupProfile(c) PROVE FeeInv'
  BY <1>1, <1>3 DEF SetupProfile, Tables, ProfileRow
<1>4. ASSUME NEW c \in Coaches, UpdateUser(c) PROVE FeeInv'
  BY <1>1, <1>4 DEF UpdateUser, Tables, ProfileRow
<1>5. ASSUME NEW x \in Procs, Stop(x) PROVE FeeInv'
  <2>1. Others(x) /\ proc'[x].pc = "idle"
    BY <1>5, ReturnIs DEF Stop
  <2>2. Follows(proc[x])'
    BY <2>1 DEF Follows, CancelPC, WebhookPC, CompletedPC
  <2>. QED  BY <1>0, <1>5, <2>1, <2>2, FeeStep DEF Stop, HasRow
<1>6. ASSUME NEW s \in Subs, PaySession(s) \/ Renewal(s) \/ Ends(s) PROVE FeeInv'
  <2>1. PICK st \in StripeStatus \ {"none", "open"}, kind \in {"completed", "updated", "deleted"} :
           Happens(s, [stripe[s] EXCEPT !.status = st], kind)
    BY <1>6, StripeHappens
  <2> DEFINE sub == [stripe[s] EXCEPT !.status = st]
  <2>2. sub.status = st /\ sub.user = stripe[s].user /\ sub.fee = stripe[s].fee
    BY DEF Tables, StripeSub
  <2>3. Happens(s, sub, kind)
    BY <2>1
  <2> HIDE DEF sub
  <2>4. Paid(s)' /\ \A e \in events' : e \in events \/ e.sub = s
    BY <2>2, <2>3, HappensOnward
  <2>5. \A e \in events' : Paid(e.sub)'
    BY <1>0, <2>4 DEF FeeInv, Tables, Event, PaidOnward
  <2>6. UNCHANGED <<profiles, rows, proc>>
    BY <1>6 DEF PaySession, Renewal, Ends, StripeOnly
  <2>7. \A x \in Procs : Follows(proc[x])'
    BY <1>0, <2>6 DEF FeeInv, Handlers, Serves, Follows, PaidOnward, CompletedPC, WebhookPC
  <2>8. \A c \in Coaches : Charged(c) => Charged(c)'
    BY <1>0 DEF Charged, PaidOnward
  <2>. QED  BY <1>0, <2>5, <2>6, <2>7, <2>8 DEF FeeInv, HasRow, PaidOnward
<1>7. CASE UNCHANGED vars
  BY <1>1, <1>7 DEF vars
<1>8. \A x \in Requests \cup Hooks : x \in Procs
  BY DEF Procs
<1>. QED
  BY <1>0, <1>2, <1>3, <1>4, <1>5, <1>6, <1>7, <1>8, FeeRequests, FeeWebhook DEF Next, Continue, StripeActs

\* Before the first checkout no fee is counted.
LEMMA FeeStarts == Init => FeeInv
  BY DEF Init, FeeInv, HasRow, NoRow, Idle, Follows, CancelPC, WebhookPC, CompletedPC

\* A fee that is counted was charged, in every behaviour.
LEMMA FeeInvariant == Spec => [](Tables /\ Handlers /\ FeeInv)
  BY SubInitTypes, SubNextTypes, FeeStarts, FeeNext, PTL DEF Spec

\* However requests, webhooks and the bank interleave, and wherever a handler stops, a
\* profile passes for having paid the registration fee, and setupProfile lets its coach
\* through, only after a session of that coach whose invoice had the fee on it was paid.
THEOREM FeeIsPaidFirst == Spec => []FeeWasCharged
<1>1. FeeInv => FeeWasCharged
  BY DEF FeeInv, Charged, FeeWasCharged
<1>. QED
  BY <1>1, FeeInvariant, PTL

-----------------------------------------------------------------------------
(* Subscriptions: the rows follow Stripe.  One handler runs at a time, and *)
(* the events of a subscription come in order, possibly more than once.    *)

\* What is still to be told: the last news of a subscription, the notice of its
\* cancellation, its end.
Last(e) == \A d \in events : d.sub = e.sub => d.n <= e.n

News(s) ==
    \E e \in events : e.sub = s /\ e.kind # "completed" /\ Last(e) /\ e.status = stripe[s].status

NoticeComing(s) == \E e \in events : e.sub = s /\ e.kind = "updated" /\ e.atEnd = stripe[s].atEnd

EndComing(s) == \E e \in events : e.sub = s /\ e.kind = "deleted"

Over(s) == stripe[s].status = "canceled"

EventInv ==
    \A e \in events :
        /\ e.n <= sent /\ e.status # "none"
        /\ e.atEnd => stripe[e.sub].atEnd
        /\ e.kind = "deleted" => Over(e.sub)
        /\ e.kind = "updated" => NoticeComing(e.sub)
        /\ e.kind # "completed" => News(e.sub)
        /\ \A d \in events : /\ d.n = e.n => d = e
                             /\ d.sub = e.sub /\ d.kind = "completed" => d.n <= e.n
                             /\ d.sub = e.sub /\ d.n <= e.n /\ d.atEnd => e.atEnd

\* A handler about to write a row writes what Stripe says, or what Stripe will correct.
Brings(l) ==
    /\ l.pc \in {"updated_row", "deleted_row", "cancel_stripe", "cancel_write"} => HasRow(l.sub)
    /\ l.pc \in {"updated_row", "completed_create"} =>
          /\ l.status = stripe[l.sub].status \/ News(l.sub)
          /\ l.flag = stripe[l.sub].atEnd \/ NoticeComing(l.sub)
    /\ l.pc = "cancel_write" => News(l.sub) /\ l.flag = stripe[l.sub].atEnd
    /\ l.pc = "deleted_row" => Over(l.sub)
    /\ l.pc \in {"updated_row", "completed_create", "cancel_write"} => l.status # "none"

On(x, s, pc) == proc[x].pc = pc /\ proc[x].sub = s

Deleting(s) == \E x \in Procs : On(x, s, "deleted_row")

\* The row is there, or it is going to be created.
Born(s) ==
    \/ HasRow(s)
    \/ \E e \in events : e.sub = s /\ e.kind = "completed"
    \/ \E x \in Procs : On(x, s, "completed_retrieve") \/ On(x, s, "completed_create")

\* Its columns agree with Stripe, or are going to.
StatusComes(s) ==
    \/ rows[s].status = stripe[s].status
    \/ News(s)
    \/ Deleting(s)
    \/ \E x \in Procs : On(x, s, "updated_row") /\ proc[x].status = stripe[s].status

NoticeComes(s) ==
    \/ rows[s].atEnd = stripe[s].atEnd
    \/ NoticeComing(s)
    \/ \E x \in Procs : On(x, s, "updated_row") /\ proc[x].flag = stripe[s].atEnd

RowInv(s) ==
    /\ Paid(s) => Born(s)
    /\ rows[s].deleted => HasRow(s) /\ Over(s)
    /\ HasRow(s) => StatusComes(s) /\ NoticeComes(s)
    /\ Over(s) => rows[s].deleted \/ EndComing(s) \/ Deleting(s)

Solo == \A x, y \in Procs : ~At(x, "idle") /\ ~At(y, "idle") => x = y

RowsInv ==
    ~hist.stopped => /\ EventInv
                     /\ \A s \in Subs : RowInv(s)
                     /\ \A x \in Procs : Brings(proc[x])

\* One handler at a time.
LEMMA SoloNext ==
  ASSUME ~Overlap, Handlers, Solo, [Next]_vars PROVE Solo'
<1> USE DEF At
<1>1. ASSUME NEW x \in Procs, ~At(x, "idle") \/ Free(x),
             \/ Return(x)
             \/ \E l, pc : Goto(x, l, pc)
      PROVE  Solo'
  <2>1. Others(x)
    BY <1>1, GotoIs, ReturnIs
  <2>2. \A y \in Procs \ {x} : At(y, "idle")
    BY <1>1 DEF Solo, Free
  <2>. QED  BY <2>1, <2>2 DEF Solo, Others
<1>2. CASE UNCHANGED proc
  BY <1>2 DEF Solo
<1>3. ASSUME NEW x \in Requests, Call(x) PROVE Solo'
  BY <1>1, <1>3 DEF Procs, Call, CheckoutRead, CancelRead
<1>4. ASSUME NEW x \in Hooks, NEW e \in events, Deliver(x, e) PROVE Solo'
  BY <1>1, <1>4 DEF Procs, Deliver
<1>5. ASSUME NEW x \in Procs, Continue(x) \/ Stop(x) PROVE Solo'
  BY <1>1, <1>5 DEF Continue, CheckoutCustomer, CheckoutSession, CancelStripe, CancelWrite,
       CompletedRetrieve, CompletedCreate, CompletedActivate, CompletedFee, UpdatedRow, UpdatedProfile,
       DeletedRow, DeletedProfile, Stop
<1>. QED
  BY <1>2, <1>3, <1>4, <1>5 DEF Next, CreateOrUpdatePlan, SetupProfile, UpdateUser, StripeActs,
       PaySession, Renewal, Ends, StripeOnly, vars

RowPC == {"updated_row", "deleted_row", "completed_retrieve", "completed_create"}

\* What happens at Stripe is told by an event of its own, the last one.
LEMMA HappensRows ==
  ASSUME Tables, Handlers, FeeInv, EventInv, \A r \in Subs : RowInv(r),
         NEW s \in Subs, NEW sub \in StripeSub, NEW kind, Happens(s, sub, kind), UNCHANGED rows,
         stripe[s].status # "canceled", sub.status # "none", sub.status = "canceled" <=> kind = "deleted",
         kind = "completed" <=> ~Paid(s),
         stripe[s].atEnd => sub.atEnd, kind = "updated" \/ sub.atEnd = stripe[s].atEnd,
         \A y \in Procs : proc[y].pc \in RowPC => proc'[y] = proc[y]
  PROVE  /\ EventInv' /\ \A r \in Subs : RowInv(r)'
         /\ kind # "completed" => News(s)'
         /\ \A y \in Procs : /\ Brings(proc[y]) /\ proc'[y] = proc[y]
                             /\ proc[y].pc = "cancel_write" => sub.atEnd = stripe[s].atEnd
                             => Brings(proc[y])'
<1>0. PICK f : f = [sub |-> s, kind |-> kind, status |-> sub.status, atEnd |-> sub.atEnd, n |-> sent + 1]
  OBVIOUS
<1>1. /\ events' = events \cup {f} /\ sent' = sent + 1 /\ sent \in Nat
      /\ stripe'[s] = sub /\ \A r \in Subs \ {s} : stripe'[r] = stripe[r]
  BY <1>0, BoundIsCount DEF Happens, Tables
<1>2. f.sub = s /\ f.kind = kind /\ f.status = sub.status /\ f.atEnd = sub.atEnd /\ f.n = sent + 1
  BY <1>0
<1>3. \A e \in events : e.n \in Nat /\ e.n <= sent /\ e.sub \in Subs /\ Paid(e.sub) /\ e.status # "none"
  BY DEF Tables, Event, EventInv, FeeInv
<1>4. Last(f)'
  BY <1>1, <1>2, <1>3 DEF Last
<1>5. ASSUME NEW e \in events, e.sub # s, Last(e) PROVE Last(e)'
  BY <1>1, <1>2, <1>5 DEF Last
<1>6. kind # "completed" => News(s)'
  BY <1>1, <1>2, <1>4 DEF News
<1>7. ASSUME NEW r \in Subs \ {s} PROVE News(r) => News(r)'
  BY <1>1, <1>5 DEF News
<1>8. ASSUME NEW r \in Subs, r # s \/ kind # "updated" PROVE NoticeComing(r) => NoticeComing(r)'
  BY <1>1, <1>8 DEF NoticeComing
<1>9. kind = "updated" => NoticeComing(s)'
  BY <1>1, <1>2 DEF NoticeComing
<1>10. EventInv'
  <2>1. ASSUME NEW e \in events
        PROVE  /\ e.n <= sent' /\ e.status # "none"
               /\ e.atEnd => stripe'[e.sub].atEnd
               /\ e.kind = "deleted" => Over(e.sub)'
               /\ e.kind = "updated" => NoticeComing(e.sub)'
               /\ e.kind # "completed" => News(e.sub)'
    <3>1. PICK r \in Subs : r = e.sub
      BY <1>3
    <3>2. /\ e.atEnd => stripe[r].atEnd
          /\ e.kind = "deleted" => Over(r)
          /\ e.kind = "updated" => NoticeComing(r)
          /\ e.kind # "completed" => News(r)
      BY <3>1 DEF EventInv
    <3>3. r = s => kind # "completed"
      BY <1>3, <3>1
    <3>4. e.atEnd => stripe'[r].atEnd
      BY <1>1, <3>2
    <3>5. e.kind = "deleted" => Over(r)'
      BY <1>1, <3>2 DEF Over
    <3>6. e.kind = "updated" => NoticeComing(r)'
      BY <1>8, <1>9, <3>2
    <3>7. e.kind # "completed" => News(r)'
      BY <1>6, <1>7, <3>2, <3>3
    <3>. QED  BY <1>1, <1>3, <3>1, <3>4, <3>5, <3>6, <3>7
  <2>2. /\ f.n <= sent' /\ f.status # "none"
        /\ f.atEnd => stripe'[f.sub].atEnd
        /\ f.kind = "deleted" => Over(f.sub)'
        /\ f.kind = "updated" => NoticeComing(f.sub)'
        /\ f.kind # "completed" => News(f.sub)'
    BY <1>1, <1>2, <1>6, <1>9 DEF Over
  <2>3. ASSUME NEW e \in events', NEW d \in events'
        PROVE  /\ d.n = e.n => d = e
               /\ d.sub = e.sub /\ d.kind = "completed" => d.n <= e.n
               /\ d.sub = e.sub /\ d.n <= e.n /\ d.atEnd => e.atEnd
    <3>1. CASE e \in events /\ d \in events
      BY <3>1 DEF EventInv
    <3>2. CASE e = f /\ d = f
      BY <1>1, <1>2, <3>2
    <3>3. CASE e = f /\ d \in events
      <4>1. d.sub = s /\ d.atEnd => sub.atEnd
        BY <3>3 DEF EventInv
      <4>. QED  BY <1>1, <1>2, <1>3, <3>3, <4>1
    <3>4. CASE e \in events /\ d = f
      BY <1>1, <1>2, <1>3, <3>4
    <3>. QED  BY <1>1, <3>1, <3>2, <3>3, <3>4
  <2>. QED  BY <1>1, <2>1, <2>2, <2>3 DEF EventInv
<1>11. ASSUME NEW r \in Subs PROVE RowInv(r)'
  <2>0. HasRow(r)' = HasRow(r) /\ rows'[r] = rows[r] /\ RowInv(r) /\ (HasRow(r) => Paid(r))
    BY DEF HasRow, FeeInv
  <2>1. Paid(r)' => Born(r)'
    <3>1. CASE Born(r)
      <4>1. ASSUME NEW x \in Procs, On(x, r, "completed_retrieve") \/ On(x, r, "completed_create")
            PROVE  On(x, r, "completed_retrieve")' \/ On(x, r, "completed_create")'
        BY <4>1 DEF On, RowPC
      <4>. QED  BY <1>1, <2>0, <3>1, <4>1 DEF Born
    <3>2. CASE ~Born(r) /\ r = s
      BY <1>1, <1>2, <2>0, <3>2 DEF RowInv, Born
    <3>3. CASE ~Born(r) /\ r # s
      BY <1>1, <2>0, <3>3 DEF RowInv, Paid
    <3>. QED  BY <3>1, <3>2, <3>3
  <2>2. rows'[r].deleted => HasRow(r)' /\ Over(r)'
    BY <1>1, <2>0 DEF RowInv, Over
  <2>3. Deleting(r) => Deleting(r)'
    BY DEF Deleting, On, RowPC
  <2>4. HasRow(r)' => StatusComes(r)'
    <3>1. CASE r = s
      BY <1>6, <2>0, <3>1 DEF StatusComes
    <3>2. CASE r # s
      <4>1. stripe'[r] = stripe[r]
        BY <1>1, <3>2
      <4>2. ASSUME NEW x \in Procs, On(x, r, "updated_row"), proc[x].status = stripe[r].status
            PROVE  On(x, r, "updated_row")' /\ proc'[x].status = stripe'[r].status
        BY <4>1, <4>2 DEF On, RowPC
      <4>. QED  BY <1>7, <2>0, <2>3, <3>2, <4>1, <4>2 DEF RowInv, StatusComes
    <3>. QED  BY <3>1, <3>2
  <2>5. HasRow(r)' => NoticeComes(r)'
    <3>1. CASE r = s /\ kind = "updated"
      BY <1>9, <3>1 DEF NoticeComes
    <3>2. CASE r # s \/ kind # "updated"
      <4>1. stripe'[r].atEnd = stripe[r].atEnd
        BY <1>1, <3>2
      <4>2. ASSUME NEW x \in Procs, On(x, r, "updated_row"), proc[x].flag = stripe[r].atEnd
            PROVE  On(x, r, "updated_row")' /\ proc'[x].flag = stripe'[r].atEnd
        BY <4>1, <4>2 DEF On, RowPC
      <4>. QED  BY <1>8, <2>0, <3>2, <4>1, <4>2 DEF RowInv, NoticeComes
    <3>. QED  BY <3>1, <3>2
  <2>6. Over(r)' => rows'[r].deleted \/ EndComing(r)' \/ Deleting(r)'
    <3>1. CASE r = s
      BY <1>1, <1>2, <3>1 DEF Over, EndComing
    <3>2. CASE r # s
      BY <1>1, <2>0, <2>3, <3>2 DEF RowInv, Over, EndComing
    <3>. QED  BY <3>1, <3>2
  <2>. QED  BY <2>1, <2>2, <2>4, <2>5, <2>6 DEF RowInv
<1>12. ASSUME NEW y \in Procs, Brings(proc[y]), proc'[y] = proc[y],
              proc[y].pc = "cancel_write" => sub.atEnd = stripe[s].atEnd
       PROVE  Brings(proc[y])'
  <2>1. CASE proc[y].pc \notin CancelPC \cup WebhookPC
    BY <1>12, <2>1 DEF Brings, CancelPC, WebhookPC, CompletedPC
  <2>2. CASE proc[y].pc \in CancelPC \cup WebhookPC
    <3>1. PICK r \in Subs : r = proc[y].sub
      BY <2>2 DEF Handlers, Serves
    <3>2. Paid(r)
      BY <2>2, <3>1 DEF FeeInv, Follows
    <3>3. HasRow(r)' = HasRow(r)
      BY DEF HasRow
    <3>4. r = s => News(r)'
      BY <1>6, <3>2
    <3>5. News(r) => News(r)'
      BY <1>7, <3>4
    <3>6. stripe[r].status = stripe'[r].status \/ News(r)'
      BY <1>1, <3>4
    <3>7. NoticeComing(r) => NoticeComing(r)'
      BY <1>8, <1>9
    <3>8. stripe[r].atEnd = stripe'[r].atEnd \/ NoticeComing(r)'
      BY <1>1, <1>9
    <3>9. Over(r) => Over(r)'
      BY <1>1 DEF Over
    <3>10. proc[y].pc = "cancel_write" => stripe'[r].atEnd = stripe[r].atEnd
      BY <1>1, <1>12
    <3>. QED  BY <1>12, <3>1, <3>3, <3>5, <3>6, <3>7, <3>8, <3>9, <3>10 DEF Brings
  <2>. QED  BY <2>1, <2>2
<1>. QED
  BY <1>6, <1>10, <1>11, <1>12

\* A step that neither Stripe nor an event takes part in leaves what is to be told.
LEMMA SameNews ==
  ASSUME UNCHANGED <<stripe, events, sent>>
  PROVE  /\ EventInv => EventInv'
         /\ \A r \in Subs : /\ News(r)' <=> News(r)
                            /\ NoticeComing(r)' <=> NoticeComing(r)
                            /\ EndComing(r)' <=> EndComing(r)
                            /\ Over(r)' <=> Over(r)
                            /\ Paid(r)' <=> Paid(r)
<1>1. \A e : Last(e)' <=> Last(e)
  BY DEF Last
<1>2. \A r : News(r)' <=> News(r)
  BY <1>1 DEF News
<1>3. \A r : NoticeComing(r)' <=> NoticeComing(r)
  BY DEF NoticeComing
<1>4. \A r : EndComing(r)' <=> EndComing(r)
  BY DEF EndComing
<1>5. \A r : (Over(r)' <=> Over(r)) /\ (Paid(r)' <=> Paid(r))
  BY DEF Over, Paid
<1>6. ASSUME EventInv PROVE EventInv'
  <2>1. \A e \in events : News(e.sub)' <=> News(e.sub)
    BY <1>1 DEF News
  <2>2. \A e \in events : NoticeComing(e.sub)' <=> NoticeComing(e.sub)
    BY DEF NoticeComing
  <2>. QED  BY <1>6, <2>1, <2>2 DEF EventInv, Over
<1>. QED
  BY <1>2, <1>3, <1>4, <1>5, <1>6

\* Nor does a handler touch the row of another subscription, or of its own unless it is
\* about to write it.
LEMMA RowKept ==
  ASSUME UNCHANGED <<stripe, events, sent>>, NEW x \in Procs, Others(x), NEW r \in Subs, RowInv(r),
         rows'[r] = rows[r], proc[x].pc \in RowPC => proc[x].sub # r
  PROVE  RowInv(r)'
<1>0. /\ HasRow(r)' <=> HasRow(r)
      /\ News(r)' <=> News(r)
      /\ NoticeComing(r)' <=> NoticeComing(r)
      /\ EndComing(r)' <=> EndComing(r)
      /\ Over(r)' <=> Over(r)
      /\ Paid(r)' <=> Paid(r)
  BY SameNews DEF HasRow
<1>1. ASSUME NEW y \in Procs, NEW pc \in RowPC, On(y, r, pc) PROVE y # x /\ proc'[y] = proc[y]
  BY <1>1 DEF On, Others
<1>2. Born(r) => Born(r)'
  BY <1>0, <1>1 DEF Born, On, RowPC
<1>3. Deleting(r) => Deleting(r)'
  BY <1>1 DEF Deleting, On, RowPC
<1>4. StatusComes(r) => StatusComes(r)'
  BY <1>0, <1>1, <1>3 DEF StatusComes, On, RowPC
<1>5. NoticeComes(r) => NoticeComes(r)'
  BY <1>0, <1>1 DEF NoticeComes, On, RowPC
<1>. QED
  BY <1>0, <1>2, <1>3, <1>4, <1>5 DEF RowInv

Rows == EventInv /\ \A r \in Subs : RowInv(r)

\* A step of one handler, between events and rows.
LEMMA HandlerRows ==
  ASSUME UNCHANGED <<stripe, events, sent, rows>>, NEW x \in Procs, Others(x), Rows,
         proc[x].pc \notin RowPC
  PROVE  Rows'
  BY SameNews, RowKept DEF Rows

\* A delivery takes the first event of its subscription and hands on what it tells.
LEMMA DeliverRows ==
  ASSUME InOrder, Tables, Handlers, FeeInv, Rows, NEW x \in Procs, NEW e \in events, Deliver(x, e),
         \A y \in Procs : At(y, "idle")
  PROVE  Rows' /\ Brings(proc[x])'
<1> USE DEF At
<1>0. PICK s \in Subs : s = e.sub
  BY DEF Tables, Event
<1>1. /\ UNCHANGED <<stripe, rows, sent>> /\ events' \subseteq events
      /\ \A d \in events : d = e \/ d \in events'
      /\ \A d \in events : d.sub = s => e.n <= d.n
  BY <1>0 DEF Deliver, Next1st
<1>2. \A d \in events : d.n \in Nat /\ d.kind \in {"completed", "updated", "deleted"}
  BY DEF Tables, Event
<1>3. /\ Others(x)
      /\ proc'[x].pc = CASE e.kind = "completed" -> "completed_retrieve"
                         [] e.kind = "updated"   -> "updated_row"
                         [] e.kind = "deleted"   -> "deleted_row"
      /\ proc'[x].sub = s /\ proc'[x].status = e.status /\ proc'[x].flag = e.atEnd
  <2>1. PICK pc : /\ Goto(x, [Idle EXCEPT !.sub = e.sub, !.status = e.status, !.flag = e.atEnd], pc)
                  /\ pc = CASE e.kind = "completed" -> "completed_retrieve"
                            [] e.kind = "updated"   -> "updated_row"
                            [] e.kind = "deleted"   -> "deleted_row"
    BY DEF Deliver
  <2> DEFINE l == [Idle EXCEPT !.sub = e.sub, !.status = e.status, !.flag = e.atEnd]
  <2>2. Others(x) /\ proc'[x] = [l EXCEPT !.pc = pc]
    <3> HIDE DEF l
    <3>1. Goto(x, l, pc)
      BY <2>1 DEF l
    <3>. QED  BY <3>1, GotoIs
  <2>3. /\ [l EXCEPT !.pc = pc].pc = pc /\ [l EXCEPT !.pc = pc].sub = e.sub
        /\ [l EXCEPT !.pc = pc].status = e.status /\ [l EXCEPT !.pc = pc].flag = e.atEnd
    BY DEF Idle
  <2> HIDE DEF l
  <2>. QED  BY <1>0, <2>1, <2>2, <2>3
<1>4. \A y \in Procs : \A r, pc : On(y, r, pc) => pc = "idle"
  BY DEF On
<1>5. \A d \in events : d.sub = s /\ d.n <= e.n => d = e
  <2>1. ASSUME NEW d \in events, d.sub = s, d.n <= e.n PROVE d = e
    <3>1. d.n = e.n
      BY <1>1, <1>2, <2>1
    <3>. QED  BY <3>1 DEF Rows, EventInv
  <2>. QED  BY <2>1
<1>6. \A d : Last(d) => Last(d)'
  BY <1>1 DEF Last
<1>7. ASSUME NEW r \in Subs, News(r)
      PROVE  \/ News(r)'
             \/ /\ r = s /\ e.kind # "completed" /\ e.status = stripe[s].status
                /\ \A d \in events' : d.sub # s
  <2>1. PICK w \in events : w.sub = r /\ w.kind # "completed" /\ Last(w) /\ w.status = stripe[r].status
    BY <1>7 DEF News
  <2>2. CASE w \in events'
    BY <1>1, <1>6, <2>1, <2>2 DEF News
  <2>3. CASE w \notin events'
    <3>1. w = e
      BY <1>1, <2>3
    <3>2. \A d \in events' : d.sub # s
      BY <1>0, <1>1, <1>5, <2>1, <2>3, <3>1 DEF Last
    <3>. QED  BY <1>0, <2>1, <3>1, <3>2
  <2>. QED  BY <2>2, <2>3
<1>8. ASSUME NEW r \in Subs, NoticeComing(r)
      PROVE  \/ NoticeComing(r)'
             \/ /\ r = s /\ e.kind = "updated" /\ e.atEnd = stripe[s].atEnd
                /\ \A d \in events' : d.sub = s => d.kind # "updated"
  <2>1. PICK w \in events : w.sub = r /\ w.kind = "updated" /\ w.atEnd = stripe[r].atEnd
    BY <1>8 DEF NoticeComing
  <2>2. CASE w \in events'
    BY <1>1, <2>1, <2>2 DEF NoticeComing
  <2>3. CASE w \notin events'
    <3>1. w = e
      BY <1>1, <2>3
    <3>2. ASSUME NEW d \in events', d.sub = s, d.kind = "updated" PROVE d.atEnd = stripe[s].atEnd
      <4>1. e.atEnd => d.atEnd
        BY <1>0, <1>1, <3>2 DEF Rows, EventInv
      <4>2. d.atEnd \in BOOLEAN /\ stripe[s].atEnd \in BOOLEAN
        BY <1>1, <3>2 DEF Tables, Event, StripeSub
      <4>3. d.atEnd => stripe[s].atEnd
        BY <1>0, <1>1, <3>2 DEF Rows, EventInv
      <4>. QED  BY Zenon, <1>0, <2>1, <3>1, <4>1, <4>2, <4>3
    <3>3. NoticeComing(s)' \/ \A d \in events' : d.sub = s => d.kind # "updated"
      BY <1>1, <3>2 DEF NoticeComing
    <3>. QED  BY <1>0, <2>1, <3>1, <3>3
  <2>. QED  BY <2>2, <2>3
<1>9. EventInv'
  <2>1. ASSUME NEW d \in events'
        PROVE  (d.kind = "updated" => NoticeComing(d.sub)') /\ (d.kind # "completed" => News(d.sub)')
    <3>1. PICK r \in Subs : r = d.sub
      BY <1>1, <2>1 DEF Tables, Event
    <3>2. (d.kind = "updated" => NoticeComing(r)) /\ (d.kind # "completed" => News(r))
      BY <1>1, <3>1 DEF Rows, EventInv
    <3>3. (d.kind = "updated" => NoticeComing(r)') /\ (d.kind # "completed" => News(r)')
      BY <1>7, <1>8, <3>1, <3>2
    <3>4. (NoticeComing(r)' <=> NoticeComing(d.sub)') /\ (News(r)' <=> News(d.sub)')
      BY <3>1 DEF NoticeComing, News
    <3>. QED  BY <3>3, <3>4
  <2>2. \A d \in events' : d \in events /\ (Over(d.sub)' <=> Over(d.sub))
    BY <1>1 DEF Over
  <2>. QED  BY <1>1, <2>1, <2>2 DEF Rows, EventInv
<1>10. ASSUME NEW r \in Subs PROVE RowInv(r)'
  <2>0. /\ HasRow(r)' <=> HasRow(r)
        /\ rows'[r] = rows[r] /\ stripe'[r] = stripe[r] /\ RowInv(r)
        /\ Over(r)' <=> Over(r)
        /\ Paid(r)' <=> Paid(r)
    BY <1>1 DEF HasRow, Over, Paid, Rows
  <2>1. Born(r) => Born(r)'
    BY <1>0, <1>1, <1>3, <1>4, <2>0 DEF Born, On
  <2>2. StatusComes(r) => StatusComes(r)'
    <3>1. ASSUME e.kind # "completed", e.status = stripe[s].status PROVE StatusComes(s)'
      BY <1>1, <1>2, <1>3, <3>1 DEF StatusComes, Deleting, On
    <3>. QED  BY <1>4, <1>7, <2>0, <3>1 DEF StatusComes, Deleting
  <2>3. NoticeComes(r) => NoticeComes(r)'
    <3>1. ASSUME e.kind = "updated", e.atEnd = stripe[s].atEnd PROVE NoticeComes(s)'
      BY <1>1, <1>3, <3>1 DEF NoticeComes, On
    <3>. QED  BY <1>4, <1>8, <2>0, <3>1 DEF NoticeComes
  <2>4. EndComing(r) => EndComing(r)' \/ Deleting(r)'
    BY <1>0, <1>1, <1>3 DEF EndComing, Deleting, On
  <2>5. ~Deleting(r)
    BY <1>4 DEF Deleting
  <2>. QED  BY <2>0, <2>1, <2>2, <2>3, <2>4, <2>5 DEF RowInv
<1>11. Brings(proc[x])'
  <2>1. e.kind # "completed" => HasRow(s)'
    <3>1. ASSUME e.kind # "completed" PROVE ~\E c \in events : c.sub = s /\ c.kind = "completed"
      BY <1>0, <1>5, <3>1 DEF Rows, EventInv
    <3>2. Paid(s) /\ Born(s)
      BY <1>0 DEF FeeInv, Rows, RowInv
    <3>. QED  BY <1>1, <1>4, <3>1, <3>2 DEF Born, HasRow
  <2>2. e.kind = "updated" => /\ e.status = stripe'[s].status \/ News(s)'
                              /\ e.atEnd = stripe'[s].atEnd \/ NoticeComing(s)'
    <3>1. e.kind = "updated" => News(s) /\ NoticeComing(s)
      BY <1>0 DEF Rows, EventInv
    <3>. QED  BY <1>1, <1>7, <1>8, <3>1
  <2>3. e.kind = "deleted" => Over(s)'
    BY <1>0, <1>1 DEF Rows, EventInv, Over
  <2>4. e.status # "none"
    BY DEF Rows, EventInv
  <2>. QED  BY <1>2, <1>3, <2>1, <2>2, <2>3, <2>4 DEF Brings
<1>. QED
  BY <1>9, <1>10, <1>11 DEF Rows

\* A row that is written, by the one handler at work, with what Stripe says or will
\* correct.
LEMMA RowWritten ==
  ASSUME Handlers, Solo, UNCHANGED <<stripe, events, sent>>, NEW x \in Procs, Others(x), Rows,
         NEW s \in Subs, proc[x].sub = s, ~At(x, "idle"),
         \A r \in Subs \ {s} : rows'[r] = rows[r],
         HasRow(s)',
         rows'[s].status = stripe[s].status \/ News(s),
         rows'[s].atEnd = stripe[s].atEnd \/ NoticeComing(s),
         rows'[s].deleted => Over(s),
         Over(s) => rows'[s].deleted \/ EndComing(s)
  PROVE  Rows'
<1>1. ASSUME NEW r \in Subs \ {s} PROVE RowInv(r)'
  BY <1>1, RowKept DEF Rows
<1>2. RowInv(s)'
  BY SameNews DEF RowInv, Born, StatusComes, NoticeComes
<1>. QED
  BY <1>1, <1>2, SameNews DEF Rows

\* cancelSubscription writes what Stripe answered; the event that tells it is on its way.
LEMMA CancelWriteRows ==
  ASSUME Tables, Handlers, Solo, Rows, NEW x \in Procs, Brings(proc[x]), CancelWrite(x)
  PROVE  Rows'
<1> USE DEF At
<1>1. PICK s \in Subs : s = proc[x].sub
  BY DEF CancelWrite, Handlers, Serves, CancelPC
<1>2. /\ HasRow(s) /\ News(s) /\ proc[x].flag = stripe[s].atEnd /\ proc[x].status # "none"
  BY <1>1 DEF CancelWrite, Brings
<1>3. /\ \A r \in Subs \ {s} : rows'[r] = rows[r]
      /\ rows'[s].status = proc[x].status /\ rows'[s].atEnd = proc[x].flag
      /\ rows'[s].deleted = rows[s].deleted
  <2>1. rows[s] \in SubRow
    BY DEF Tables
  <2> DEFINE row == [rows[s] EXCEPT !.status = proc[x].status, !.atEnd = proc[x].flag]
  <2>2. rows' = [rows EXCEPT ![s] = row]
    BY <1>1 DEF CancelWrite, Tables
  <2>3. row.status = proc[x].status /\ row.atEnd = proc[x].flag /\ row.deleted = rows[s].deleted
    BY <2>1 DEF SubRow
  <2> HIDE DEF row
  <2>. QED  BY <2>2, <2>3 DEF Tables
<1>4. \A y \in Procs : proc[y].pc # "idle" => y = x
  BY DEF Solo, CancelWrite
<1>5. (rows[s].deleted => Over(s)) /\ (Over(s) => rows[s].deleted \/ EndComing(s))
  BY <1>4 DEF Rows, RowInv, Deleting, On, CancelWrite
<1>6. HasRow(s)'
  BY <1>2, <1>3 DEF HasRow
<1>7. Others(x) /\ UNCHANGED <<stripe, events, sent>>
  BY ReturnIs DEF CancelWrite
<1>. QED
  BY <1>1, <1>2, <1>3, <1>5, <1>6, <1>7, RowWritten DEF CancelWrite

\* The webhook creates the row from what it has just read at Stripe.
LEMMA CreateRows ==
  ASSUME Tables, Handlers, Solo, FeeInv, Rows, NEW x \in Procs, Brings(proc[x]), CompletedCreate(x)
  PROVE  Rows'
<1> USE DEF At
<1>1. PICK s \in Subs : s = proc[x].sub
  BY DEF CompletedCreate, Handlers, Serves, WebhookPC, CompletedPC
<1>2. /\ proc[x].pc = "completed_create" /\ proc[x].status # "none"
      /\ proc[x].status = stripe[s].status \/ News(s)
      /\ proc[x].flag = stripe[s].atEnd \/ NoticeComing(s)
  BY <1>1 DEF CompletedCreate, Brings
<1>3. Others(x) /\ UNCHANGED <<stripe, events, sent>>
  BY ReturnIs, MoveIs DEF CompletedCreate
<1>4. \A y \in Procs : proc[y].pc # "idle" => y = x
  BY <1>2 DEF Solo
<1>5. CASE HasRow(s)
  <2>1. rows' = rows
    BY <1>1, <1>5 DEF CompletedCreate, HasRow
  <2>2. RowInv(s)
    BY DEF Rows
  <2>3. /\ rows[s].status = stripe[s].status \/ News(s)
        /\ rows[s].atEnd = stripe[s].atEnd \/ NoticeComing(s)
        /\ rows[s].deleted => Over(s)
        /\ Over(s) => rows[s].deleted \/ EndComing(s)
    BY <1>2, <1>4, <1>5, <2>2 DEF RowInv, StatusComes, NoticeComes, Deleting, On
  <2>4. HasRow(s)'
    BY <1>5, <2>1 DEF HasRow
  <2>. QED  BY <1>1, <1>2, <1>3, <2>1, <2>3, <2>4, RowWritten
<1>6. CASE ~HasRow(s)
  <2>1. /\ \A r \in Subs \ {s} : rows'[r] = rows[r]
        /\ rows'[s].status = proc[x].status /\ rows'[s].atEnd = proc[x].flag
        /\ rows'[s].deleted = FALSE
    BY <1>1, <1>6 DEF CompletedCreate, HasRow, Tables
  <2>2. Over(s) => EndComing(s)
    BY <1>2, <1>4, <1>6 DEF Rows, RowInv, Deleting, On
  <2>3. HasRow(s)'
    BY <1>2, <2>1 DEF HasRow
  <2>. QED  BY <1>1, <1>2, <1>3, <2>1, <2>2, <2>3, RowWritten
<1>. QED
  BY <1>5, <1>6

\* The webhook copies status and notice of an update,
LEMMA UpdateRows ==
  ASSUME Tables, Handlers, Solo, Rows, NEW x \in Procs, Brings(proc[x]), UpdatedRow(x)
  PROVE  Rows'
<1> USE DEF At
<1>1. PICK s \in Subs : s = proc[x].sub
  BY DEF UpdatedRow, Handlers, Serves, WebhookPC
<1>2. /\ proc[x].pc = "updated_row" /\ proc[x].status # "none" /\ HasRow(s)
      /\ proc[x].status = stripe[s].status \/ News(s)
      /\ proc[x].flag = stripe[s].atEnd \/ NoticeComing(s)
  BY <1>1 DEF UpdatedRow, Brings
<1>3. Others(x) /\ UNCHANGED <<stripe, events, sent>>
  BY MoveIs DEF UpdatedRow
<1>4. /\ \A r \in Subs \ {s} : rows'[r] = rows[r]
      /\ rows'[s].status = proc[x].status /\ rows'[s].atEnd = proc[x].flag
      /\ rows'[s].deleted = rows[s].deleted
  <2>1. rows[s] \in SubRow
    BY DEF Tables
  <2> DEFINE row == [rows[s] EXCEPT !.status = proc[x].status, !.atEnd = proc[x].flag]
  <2>2. rows' = [rows EXCEPT ![s] = row]
    BY <1>1, <1>2 DEF UpdatedRow, Tables
  <2>3. row.status = proc[x].status /\ row.atEnd = proc[x].flag /\ row.deleted = rows[s].deleted
    BY <2>1 DEF SubRow
  <2> HIDE DEF row
  <2>. QED  BY <2>2, <2>3 DEF Tables
<1>5. \A y \in Procs : proc[y].pc # "idle" => y = x
  BY <1>2 DEF Solo
<1>6. (rows[s].deleted => Over(s)) /\ (Over(s) => rows[s].deleted \/ EndComing(s))
  BY <1>2, <1>5 DEF Rows, RowInv, Deleting, On
<1>7. HasRow(s)'
  BY <1>2, <1>4 DEF HasRow
<1>. QED
  BY <1>1, <1>2, <1>3, <1>4, <1>6, <1>7, RowWritten

\* and marks the row of a subscription that has ended.
LEMMA EndRows ==
  ASSUME Tables, Handlers, Solo, Rows, NEW x \in Procs, Brings(proc[x]), DeletedRow(x)
  PROVE  Rows'
<1> USE DEF At
<1>1. PICK s \in Subs : s = proc[x].sub
  BY DEF DeletedRow, Handlers, Serves, WebhookPC
<1>2. proc[x].pc = "deleted_row" /\ HasRow(s) /\ Over(s)
  BY <1>1 DEF DeletedRow, Brings
<1>3. Others(x) /\ UNCHANGED <<stripe, events, sent>>
  BY MoveIs DEF DeletedRow
<1>4. /\ \A r \in Subs \ {s} : rows'[r] = rows[r]
      /\ rows'[s].status = "canceled" /\ rows'[s].atEnd = rows[s].atEnd
      /\ rows'[s].deleted = TRUE
  <2>1. rows[s] \in SubRow
    BY DEF Tables
  <2> DEFINE row == [rows[s] EXCEPT !.status = "canceled", !.deleted = TRUE]
  <2>2. rows' = [rows EXCEPT ![s] = row]
    BY <1>1, <1>2 DEF DeletedRow, Tables
  <2>3. row.status = "canceled" /\ row.atEnd = rows[s].atEnd /\ row.deleted = TRUE
    BY <2>1 DEF SubRow
  <2> HIDE DEF row
  <2>. QED  BY <2>2, <2>3 DEF Tables
<1>5. \A y \in Procs : proc[y].pc # "idle" => y = x
  BY <1>2 DEF Solo
<1>6. rows[s].atEnd = stripe[s].atEnd \/ NoticeComing(s)
  BY <1>2, <1>5 DEF Rows, RowInv, NoticeComes, On
<1>7. HasRow(s)'
  BY <1>4 DEF HasRow
<1>. QED
  BY <1>1, <1>2, <1>3, <1>4, <1>6, <1>7, RowWritten DEF Over

\* A step of one handler is the only thing that goes on.
LEMMA AloneBrings ==
  ASSUME Handlers, Solo, NEW x \in Procs, Others(x), ~At(x, "idle") \/ \A y \in Procs : At(y, "idle"),
         Brings(proc[x])'
  PROVE  \A y \in Procs : Brings(proc[y])'
<1>1. ASSUME NEW y \in Procs \ {x} PROVE proc'[y].pc = "idle"
  BY <1>1 DEF Others, Solo, At
<1>2. \A y \in Procs \ {x} : Brings(proc[y])'
  BY <1>1 DEF Brings
<1>. QED
  BY <1>2

\* The requests, without a stop,
LEMMA RowsRequests ==
  ASSUME ~Overlap, Tables, Handlers, FeeInv, Solo, Rows, \A y \in Procs : Brings(proc[y]),
         NEW x \in Procs,
         Call(x) \/ CheckoutCustomer(x) \/ CheckoutSession(x) \/ CancelStripe(x) \/ CancelWrite(x)
  PROVE  Rows' /\ \A y \in Procs : Brings(proc[y])'
<1> USE DEF At
<1>1. ASSUME UNCHANGED <<stripe, events, sent, rows>>, Others(x), proc[x].pc \notin RowPC,
             proc[x].pc # "idle" \/ Free(x), Brings(proc[x])'
      PROVE  Rows' /\ \A y \in Procs : Brings(proc[y])'
  BY <1>1, HandlerRows, AloneBrings DEF Free
<1>2. ASSUME NEW u, NEW p, NEW e, CheckoutRead(x, u, p, e)
      PROVE  Rows' /\ \A y \in Procs : Brings(proc[y])'
  <2>1. PICK pc \in CheckoutPC : Goto(x, [Idle EXCEPT !.user = u, !.plan = p, !.coach = (e = "coach")], pc)
    BY <1>2 DEF CheckoutRead, CheckoutPC
  <2>2. Others(x) /\ proc'[x].pc = pc
    <3> DEFINE l == [Idle EXCEPT !.user = u, !.plan = p, !.coach = (e = "coach")]
    <3>1. [l EXCEPT !.pc = pc].pc = pc
      BY DEF Idle
    <3>2. Goto(x, l, pc)
      BY <2>1
    <3> HIDE DEF l
    <3>3. Others(x) /\ proc'[x] = [l EXCEPT !.pc = pc]
      BY <3>2, GotoIs
    <3>. QED  BY <3>1, <3>3
  <2>3. Brings(proc[x])'
    BY <2>2 DEF Brings, CheckoutPC
  <2>. QED  BY <1>1, <1>2, <2>2, <2>3 DEF CheckoutRead, Free, RowPC
<1>3. ASSUME NEW u, CancelRead(x, u) PROVE Rows' /\ \A y \in Procs : Brings(proc[y])'
  <2>1. PICK s \in Subs, now \in BOOLEAN :
          /\ rows[s].status = "active"
          /\ Goto(x, [Idle EXCEPT !.user = u, !.sub = s, !.flag = now], "cancel_stripe")
    BY <1>3 DEF CancelRead
  <2>2. Others(x) /\ proc'[x].pc = "cancel_stripe" /\ proc'[x].sub = s
    <3>1. /\ Others(x)
          /\ proc'[x] = [[Idle EXCEPT !.user = u, !.sub = s, !.flag = now] EXCEPT !.pc = "cancel_stripe"]
      BY <2>1, GotoIs
    <3>. QED  BY <3>1 DEF Idle
  <2>3. Brings(proc[x])'
    BY <1>3, <2>1, <2>2 DEF Brings, HasRow, CancelRead
  <2>. QED  BY <1>1, <1>3, <2>2, <2>3 DEF CancelRead, Free, RowPC
<1>4. CASE CheckoutCustomer(x)
  <2>1. Others(x) /\ proc'[x].pc = "checkout_session"
    BY <1>4, MoveIs DEF CheckoutCustomer
  <2>2. Brings(proc[x])'
    BY <2>1 DEF Brings
  <2>. QED  BY <1>1, <1>4, <2>1, <2>2 DEF CheckoutCustomer, RowPC
<1>5. CASE CheckoutSession(x)
  <2>1. Others(x) /\ proc'[x].pc = "idle" /\ UNCHANGED <<rows, events, sent>>
    BY <1>5, ReturnIs DEF CheckoutSession
  <2>2. Brings(proc[x])'
    BY <2>1 DEF Brings
  <2>3. CASE UNCHANGED stripe
    BY <1>1, <1>5, <2>1, <2>2, <2>3 DEF CheckoutSession, RowPC
  <2>4. ASSUME NEW s \in Subs, stripe[s].status = "none", NEW sub, stripe' = [stripe EXCEPT ![s] = sub],
               sub.status = "open"
        PROVE  Rows'
    <3>1. stripe'[s].status = "open" /\ \A r \in Subs \ {s} : stripe'[r] = stripe[r]
      BY <2>4 DEF Tables
    <3>2. \A e \in events : e.sub \in Subs \ {s}
      BY <2>4 DEF Tables, Event, FeeInv, Paid
    <3>3. \A d : Last(d)' <=> Last(d)
      BY <2>1 DEF Last
    <3>4. ASSUME NEW r \in Subs \ {s}
          PROVE  /\ News(r)' <=> News(r)
                 /\ NoticeComing(r)' <=> NoticeComing(r)
                 /\ EndComing(r)' <=> EndComing(r)
                 /\ Over(r)' <=> Over(r)
                 /\ Paid(r)' <=> Paid(r)
      BY <2>1, <3>1, <3>3 DEF News, NoticeComing, EndComing, Over, Paid
    <3>5. EventInv'
      <4>1. ASSUME NEW e \in events
            PROVE  /\ News(e.sub)' <=> News(e.sub)
                   /\ NoticeComing(e.sub)' <=> NoticeComing(e.sub)
                   /\ Over(e.sub)' <=> Over(e.sub)
                   /\ stripe'[e.sub] = stripe[e.sub]
        <5>1. PICK r \in Subs \ {s} : r = e.sub
          BY <3>2
        <5>. QED  BY <2>1, <3>1, <3>3, <5>1 DEF News, NoticeComing, Over
      <4>. QED  BY <2>1, <4>1 DEF Rows, EventInv
    <3>6. ASSUME NEW r \in Subs \ {s} PROVE RowInv(r)'
      <4>0. /\ HasRow(r)' <=> HasRow(r)
            /\ rows'[r] = rows[r] /\ stripe'[r] = stripe[r] /\ RowInv(r)
        BY <2>1, <3>1 DEF HasRow, Rows
      <4>1. ASSUME NEW y \in Procs, NEW pc \in RowPC, On(y, r, pc) PROVE proc'[y] = proc[y]
        BY <1>5, <2>1, <4>1 DEF On, Others, CheckoutSession, RowPC
      <4>2. Born(r) => Born(r)'
        BY <2>1, <4>0, <4>1 DEF Born, On, RowPC
      <4>3. Deleting(r) => Deleting(r)'
        BY <4>1 DEF Deleting, On, RowPC
      <4>4. StatusComes(r) => StatusComes(r)'
        BY <3>4, <4>0, <4>1, <4>3 DEF StatusComes, On, RowPC
      <4>5. NoticeComes(r) => NoticeComes(r)'
        BY <3>4, <4>0, <4>1 DEF NoticeComes, On, RowPC
      <4>. QED  BY <3>4, <4>0, <4>2, <4>3, <4>4, <4>5 DEF RowInv
    <3>7. RowInv(s)'
      <4>1. ~Paid(s)' /\ ~Over(s)' /\ ~Over(s)
        BY <2>4, <3>1 DEF Paid, Over
      <4>2. ~HasRow(s) /\ (HasRow(s)' <=> HasRow(s)) /\ rows'[s] = rows[s]
        BY <2>1, <2>4 DEF FeeInv, Paid, HasRow
      <4>. QED  BY <4>1, <4>2 DEF Rows, RowInv
    <3>. QED  BY <3>5, <3>6, <3>7 DEF Rows
  <2>5. \/ UNCHANGED stripe
        \/ \E s \in Subs : /\ stripe[s].status = "none"
                           /\ stripe' = [stripe EXCEPT ![s] =
                                [NoSub EXCEPT !.status = "open", !.user = proc[x].user,
                                   !.plan = proc[x].plan, !.fee = proc[x].coach /\ FeeDue(proc[x].user)]]
    BY <1>5 DEF CheckoutSession
  <2>6. [NoSub EXCEPT !.status = "open", !.user = proc[x].user,
           !.plan = proc[x].plan, !.fee = proc[x].coach /\ FeeDue(proc[x].user)].status = "open"
    BY DEF NoSub
  <2>7. UNCHANGED stripe \/ Rows'
    BY <2>4, <2>5, <2>6
  <2>8. \A y \in Procs : Brings(proc[y])'
    BY <1>5, <2>1, <2>2, AloneBrings DEF CheckoutSession
  <2>. QED  BY <2>3, <2>7, <2>8
<1>6. CASE CancelStripe(x)
  <2>1. CASE Return(x) /\ UNCHANGED <<stripe, events, sent>>
    <3>1. Others(x) /\ proc'[x].pc = "idle"
      BY <2>1, ReturnIs
    <3>2. Brings(proc[x])'
      BY <3>1 DEF Brings
    <3>. QED  BY <1>1, <1>6, <2>1, <3>1, <3>2 DEF CancelStripe, RowPC
  <2>2. CASE ~(Return(x) /\ UNCHANGED <<stripe, events, sent>>)
    <3>1. PICK s \in Subs, kind \in {"updated", "deleted"} :
             s = proc[x].sub /\ kind = IF proc[x].flag THEN "deleted" ELSE "updated"
      BY <1>6 DEF CancelStripe, Handlers, Serves, CancelPC
    <3>2. PICK sub \in StripeSub :
             /\ stripe[s].status # "canceled"
             /\ sub.status = IF proc[x].flag THEN "canceled" ELSE stripe[s].status
             /\ sub.atEnd = IF proc[x].flag THEN stripe[s].atEnd ELSE TRUE
             /\ Happens(s, sub, kind)
             /\ Goto(x, [proc[x] EXCEPT !.status = sub.status, !.flag = sub.atEnd], "cancel_write")
      BY <1>6, <2>2, <3>1, CancelHappens
    <3>3. Paid(s) /\ HasRow(s) /\ proc[x].pc = "cancel_stripe" /\ UNCHANGED rows
      BY <1>6, <3>1 DEF CancelStripe, FeeInv, Follows, CancelPC, Brings
    <3>4. /\ Others(x) /\ proc'[x].pc = "cancel_write" /\ proc'[x].sub = s
          /\ proc'[x].status = sub.status /\ proc'[x].flag = sub.atEnd
      <4> DEFINE l == [proc[x] EXCEPT !.status = sub.status, !.flag = sub.atEnd]
      <4>1. /\ [l EXCEPT !.pc = "cancel_write"].pc = "cancel_write"
            /\ [l EXCEPT !.pc = "cancel_write"].sub = s
            /\ [l EXCEPT !.pc = "cancel_write"].status = sub.status
            /\ [l EXCEPT !.pc = "cancel_write"].flag = sub.atEnd
        BY <3>1 DEF Handlers, Local
      <4>2. Goto(x, l, "cancel_write")
        BY <3>2
      <4> HIDE DEF l
      <4>3. Others(x) /\ proc'[x] = [l EXCEPT !.pc = "cancel_write"]
        BY <4>2, GotoIs
      <4>. QED  BY <4>1, <4>3
    <3>5. /\ sub.status # "none" /\ (sub.status = "canceled" <=> kind = "deleted")
          /\ stripe[s].atEnd => sub.atEnd
          /\ kind = "updated" \/ sub.atEnd = stripe[s].atEnd
      BY <3>1, <3>2, <3>3 DEF Paid
    <3>6. \A y \in Procs : proc[y].pc \in RowPC => proc'[y] = proc[y]
      BY <3>3, <3>4 DEF Others, RowPC
    <3>7. EventInv' /\ (\A r \in Subs : RowInv(r)') /\ News(s)'
      BY <3>2, <3>3, <3>5, <3>6, HappensRows DEF Rows
    <3>8. stripe'[s] = sub /\ HasRow(s)'
      BY <3>2, <3>3 DEF Happens, Tables, HasRow
    <3>9. Brings(proc[x])'
      BY <3>4, <3>5, <3>7, <3>8 DEF Brings
    <3>. QED  BY <3>3, <3>4, <3>7, <3>9, AloneBrings DEF Rows
  <2>. QED  BY <2>1, <2>2
<1>7. CASE CancelWrite(x)
  <2>1. Others(x) /\ proc'[x].pc = "idle"
    BY <1>7, ReturnIs DEF CancelWrite
  <2>2. Brings(proc[x])'
    BY <2>1 DEF Brings
  <2>. QED  BY <1>7, <2>1, <2>2, CancelWriteRows, AloneBrings DEF CancelWrite
<1>. QED
  BY <1>2, <1>3, <1>4, <1>5, <1>6, <1>7 DEF Call

\* the webhook,
LEMMA RowsWebhook ==
  ASSUME ~Overlap, InOrder, Tables, Handlers, FeeInv, Solo, Rows, \A y \in Procs : Brings(proc[y]),
         NEW x \in Procs,
         \/ \E e \in events : Deliver(x, e)
         \/ CompletedRetrieve(x) \/ CompletedCreate(x) \/ CompletedActivate(x) \/ CompletedFee(x)
         \/ UpdatedRow(x) \/ UpdatedProfile(x) \/ DeletedRow(x) \/ DeletedProfile(x)
  PROVE  Rows' /\ \A y \in Procs : Brings(proc[y])'
<1> USE DEF At
<1>1. ASSUME Others(x), proc[x].pc # "idle",
             proc'[x].pc \in {"idle", "completed_activate", "completed_fee", "updated_profile",
                              "deleted_profile"}
      PROVE  \A y \in Procs : Brings(proc[y])'
  <2>1. Brings(proc[x])'
    BY <1>1 DEF Brings
  <2>. QED  BY <1>1, <2>1, AloneBrings
<1>2. ASSUME NEW e \in events, Deliver(x, e) PROVE Rows' /\ \A y \in Procs : Brings(proc[y])'
  <2>1. \A y \in Procs : At(y, "idle")
    BY <1>2 DEF Deliver, Free
  <2>2. Others(x)
    <3>1. PICK l, pc : Goto(x, l, pc)
      BY <1>2 DEF Deliver
    <3>. QED  BY <3>1, GotoIs
  <2>. QED  BY <1>2, <2>1, <2>2, DeliverRows, AloneBrings
<1>3. CASE CompletedRetrieve(x)
  <2>1. PICK s \in Subs : s = proc[x].sub /\ Paid(s)
    BY <1>3 DEF CompletedRetrieve, Handlers, Serves, WebhookPC, CompletedPC, FeeInv, Follows
  <2> DEFINE l == [proc[x] EXCEPT !.status = stripe[s].status, !.flag = stripe[s].atEnd,
                     !.user = stripe[s].user, !.coach = (plans[stripe[s].plan] = "COACH")]
  <2>2. /\ [l EXCEPT !.pc = "completed_create"].pc = "completed_create"
        /\ [l EXCEPT !.pc = "completed_create"].sub = s
        /\ [l EXCEPT !.pc = "completed_create"].status = stripe[s].status
        /\ [l EXCEPT !.pc = "completed_create"].flag = stripe[s].atEnd
    BY <2>1 DEF Handlers, Local
  <2>3. Goto(x, l, "completed_create")
    BY <1>3, <2>1 DEF CompletedRetrieve
  <2> HIDE DEF l
  <2>4. Others(x) /\ proc'[x] = [l EXCEPT !.pc = "completed_create"]
    BY <2>3, GotoIs
  <2>5. /\ proc'[x].pc = "completed_create" /\ proc'[x].sub = s
        /\ proc'[x].status = stripe[s].status /\ proc'[x].flag = stripe[s].atEnd
    BY <2>2, <2>4
  <2>6. UNCHANGED <<stripe, events, sent, rows>> /\ proc[x].pc = "completed_retrieve"
    BY <1>3 DEF CompletedRetrieve
  <2>7. Brings(proc[x])'
    BY <2>1, <2>5, <2>6 DEF Brings, Paid
  <2>8. ASSUME NEW r \in Subs \ {s} PROVE RowInv(r)'
    BY <2>1, <2>4, <2>6, RowKept DEF Rows
  <2>9. RowInv(s)'
    <3>0. RowInv(s) /\ (HasRow(s)' <=> HasRow(s))
      BY <2>6 DEF Rows, HasRow
    <3>1. Born(s)'
      BY <2>5 DEF Born, On
    <3>2. \A y \in Procs : proc[y].pc \in {"updated_row", "deleted_row"} => proc'[y] = proc[y]
      BY <2>4, <2>6 DEF Others
    <3>3. Deleting(s) => Deleting(s)'
      BY <3>2 DEF Deleting, On
    <3>4. StatusComes(s) => StatusComes(s)'
      BY <2>6, <3>2, <3>3, SameNews DEF StatusComes, On
    <3>5. NoticeComes(s) => NoticeComes(s)'
      BY <2>6, <3>2, SameNews DEF NoticeComes, On
    <3>. QED  BY <2>6, <3>0, <3>1, <3>3, <3>4, <3>5, SameNews DEF RowInv
  <2>. QED  BY <2>4, <2>6, <2>7, <2>8, <2>9, SameNews, AloneBrings DEF Rows
<1>4. CASE CompletedCreate(x)
  BY <1>1, <1>4, CreateRows, ReturnIs, MoveIs DEF CompletedCreate
<1>5. CASE CompletedActivate(x)
  BY <1>1, <1>5, HandlerRows, ReturnIs, MoveIs DEF CompletedActivate, RowPC
<1>6. CASE CompletedFee(x)
  BY <1>1, <1>6, HandlerRows, ReturnIs DEF CompletedFee, RowPC
<1>7. CASE UpdatedRow(x)
  BY <1>1, <1>7, UpdateRows, MoveIs DEF UpdatedRow
<1>8. CASE UpdatedProfile(x)
  BY <1>1, <1>8, HandlerRows, ReturnIs DEF UpdatedProfile, RowPC
<1>9. CASE DeletedRow(x)
  BY <1>1, <1>9, EndRows, MoveIs DEF DeletedRow
<1>10. CASE DeletedProfile(x)
  BY <1>1, <1>10, HandlerRows, ReturnIs DEF DeletedProfile, RowPC
<1>. QED
  BY <1>2, <1>3, <1>4, <1>5, <1>6, <1>7, <1>8, <1>9, <1>10

\* and everything else.
LEMMA RowsNext ==
  ASSUME ~Overlap, InOrder, Tables, Handlers, FeeInv, Solo, RowsInv, [Next]_vars PROVE RowsInv'
<1>1. SUFFICES ASSUME ~hist'.stopped PROVE Rows' /\ \A y \in Procs : Brings(proc[y])'
  BY DEF RowsInv, Rows
<1>2. ASSUME NEW x \in Procs, Stop(x) PROVE FALSE
  BY <1>1, <1>2 DEF Stop, Tables, Hist
<1>3. ~hist.stopped
  <2>1. UNCHANGED hist => ~hist.stopped
    BY <1>1
  <2>2. ASSUME NEW p, NEW k, CreateOrUpdatePlan(p, k) PROVE ~hist.stopped
    BY <1>1, <2>2 DEF CreateOrUpdatePlan, Tables, Hist
  <2>3. ASSUME NEW c, UpdateUser(c) PROVE ~hist.stopped
    BY <1>1, <2>3 DEF UpdateUser, Tables, Hist
  <2>. QED
    BY <1>2, <2>1, <2>2, <2>3 DEF Next, Call, Continue, StripeActs, vars, CheckoutRead, CheckoutCustomer,
       CheckoutSession, CancelRead, CancelStripe, CancelWrite, SetupProfile, Deliver, CompletedRetrieve,
       CompletedCreate, CompletedActivate, CompletedFee, UpdatedRow, UpdatedProfile, DeletedRow,
       DeletedProfile, PaySession, Renewal, Ends, StripeOnly
<1>4. Rows /\ \A y \in Procs : Brings(proc[y])
  BY <1>3 DEF RowsInv, Rows
<1>5. ASSUME NEW x \in Requests, Call(x) PROVE Rows' /\ \A y \in Procs : Brings(proc[y])'
  BY <1>4, <1>5, RowsRequests DEF Procs
<1>6. ASSUME NEW x \in Hooks, NEW e \in events, Deliver(x, e)
      PROVE  Rows' /\ \A y \in Procs : Brings(proc[y])'
  BY <1>4, <1>6, RowsWebhook DEF Procs
<1>7. ASSUME NEW x \in Procs, Continue(x) PROVE Rows' /\ \A y \in Procs : Brings(proc[y])'
  BY <1>4, <1>7, RowsRequests, RowsWebhook DEF Continue
<1>8. CASE UNCHANGED <<stripe, events, sent, rows, proc>>
  <2>1. ASSUME NEW r \in Subs PROVE RowInv(r)'
    <3>1. /\ HasRow(r)' <=> HasRow(r)
          /\ Born(r)' <=> Born(r)
          /\ Deleting(r)' <=> Deleting(r)
      BY <1>8 DEF HasRow, Born, Deleting, On
    <3>2. StatusComes(r) => StatusComes(r)'
      BY <1>8, <3>1, SameNews DEF StatusComes, On
    <3>3. NoticeComes(r) => NoticeComes(r)'
      BY <1>8, SameNews DEF NoticeComes, On
    <3>. QED  BY <1>4, <1>8, <3>1, <3>2, <3>3, SameNews DEF Rows, RowInv
  <2>2. \A e : Last(e)' <=> Last(e)
    BY <1>8 DEF Last
  <2>3. \A y \in Procs : Brings(proc[y])'
    BY <1>4, <1>8, <2>2 DEF Brings, HasRow, News, NoticeComing, Over
  <2>. QED  BY <1>4, <1>8, <2>1, <2>3, SameNews DEF Rows
<1>9. ASSUME NEW s \in Subs, PaySession(s) \/ Renewal(s) \/ Ends(s)
      PROVE  Rows' /\ \A y \in Procs : Brings(proc[y])'
  <2>1. PICK st \in StripeStatus \ {"none", "open"}, kind \in {"completed", "updated", "deleted"} :
           /\ Happens(s, [stripe[s] EXCEPT !.status = st], kind)
           /\ kind = "completed" <=> stripe[s].status = "open"
           /\ kind = "deleted" <=> st = "canceled"
           /\ stripe[s].status \notin {"none", "canceled"}
    BY <1>9, StripeHappens
  <2>2. PICK sub \in StripeSub :
           sub = [stripe[s] EXCEPT !.status = st] /\ sub.status = st /\ sub.atEnd = stripe[s].atEnd
    <3> DEFINE new == [stripe[s] EXCEPT !.status = st]
    <3>1. new \in StripeSub /\ new.status = st /\ new.atEnd = stripe[s].atEnd
      BY DEF Tables, StripeSub
    <3> HIDE DEF new
    <3>2. \E sub \in StripeSub : sub = new /\ sub.status = st /\ sub.atEnd = stripe[s].atEnd
      BY <3>1
    <3>. QED  BY <3>2 DEF new
  <2>3. UNCHANGED <<rows, proc>>
    BY <1>9 DEF PaySession, Renewal, Ends, StripeOnly
  <2>4. Happens(s, sub, kind)
    BY <2>1, <2>2
  <2>. QED  BY <1>4, <2>1, <2>2, <2>3, <2>4, HappensRows DEF Rows, Paid
<1>10. CASE UNCHANGED vars
  BY <1>8, <1>10 DEF vars
<1>11. ASSUME NEW c \in Coaches, SetupProfile(c) PROVE Rows' /\ \A y \in Procs : Brings(proc[y])'
  BY <1>8, <1>11 DEF SetupProfile
<1>12. ASSUME NEW c \in Coaches, UpdateUser(c) PROVE Rows' /\ \A y \in Procs : Brings(proc[y])'
  BY <1>8, <1>12 DEF UpdateUser
<1>13. ASSUME NEW p, NEW k, CreateOrUpdatePlan(p, k) PROVE Rows' /\ \A y \in Procs : Brings(proc[y])'
  BY <1>8, <1>13 DEF CreateOrUpdatePlan
<1>. QED
  BY <1>2, <1>5, <1>6, <1>7, <1>9, <1>10, <1>11, <1>12, <1>13 DEF Next, StripeActs

\* Before the first request no row disagrees with Stripe.
LEMMA RowsStart == Init => Solo /\ RowsInv
<1>. SUFFICES ASSUME Init PROVE Solo /\ RowsInv
  OBVIOUS
<1>1. \A x \in Procs : proc[x].pc = "idle"
  BY DEF Init, Idle
<1>2. \A s \in Subs : ~Paid(s) /\ ~HasRow(s) /\ ~Over(s) /\ ~rows[s].deleted
  BY DEF Init, NoSub, NoRow, Paid, HasRow, Over
<1>3. events = {}
  BY DEF Init
<1>. QED
  BY <1>1, <1>2, <1>3 DEF Solo, At, RowsInv, EventInv, RowInv, Brings

\* When the last event was handled there is nothing left to tell.
LEMMA SettledRows ==
  ASSUME Tables, FeeInv, RowsInv, Settled, ~hist.stopped, NEW s \in Subs, Paid(s)
  PROVE  /\ rows[s].status = stripe[s].status
         /\ rows[s].atEnd = stripe[s].atEnd
         /\ rows[s].deleted = (stripe[s].status = "canceled")
<1>1. events = {} /\ \A x \in Procs : proc[x].pc = "idle"
  BY DEF Settled, At
<1>2. RowInv(s) /\ ~News(s) /\ ~NoticeComing(s) /\ ~EndComing(s) /\ ~Deleting(s)
  BY <1>1 DEF RowsInv, News, NoticeComing, EndComing, Deleting, On
<1>3. HasRow(s)
  BY <1>1, <1>2 DEF RowInv, Born, On
<1>4. rows[s].deleted <=> Over(s)
  BY <1>2 DEF RowInv
<1>5. rows[s].deleted \in BOOLEAN
  BY DEF Tables, SubRow
<1>6. rows[s].status = stripe[s].status /\ rows[s].atEnd = stripe[s].atEnd
  BY <1>1, <1>2, <1>3 DEF RowInv, StatusComes, NoticeComes, On
<1>. QED
  BY Zenon, <1>4, <1>5, <1>6 DEF Over

\* Whatever Stripe does while a webhook or a cancel call is under way, and however often it
\* repeats an event: once all of them are handled each row says what Stripe says, if
\* handlers come one at a time, each subscription's events in order, and none stopped.
THEOREM RowsAgreeWithStripe ==
  ASSUME ~Overlap, InOrder PROVE Spec => []RowsFollowStripe
<1>1. Init => Solo /\ RowsInv
  BY RowsStart
<1>2. Tables /\ Handlers /\ FeeInv /\ Solo /\ RowsInv /\ [Next]_vars => (Solo /\ RowsInv)'
  BY SoloNext, RowsNext
<1>3. Tables /\ FeeInv /\ RowsInv => RowsFollowStripe
  BY SettledRows DEF RowsFollowStripe
<1>. QED
  BY <1>1, <1>2, <1>3, FeeInvariant, PTL DEF Spec
=============================================================================
