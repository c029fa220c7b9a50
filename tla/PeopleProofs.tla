---------------------------- MODULE PeopleProofs ----------------------------
(***************************************************************************)
(* Theorems about Accounts, Codes, CoachCalendar, SessionTimes, Packages   *)
(* and Agenda, for any number of users, addresses, forms, codes, bookings  *)
(* and calls in flight that may stop anywhere, and about MCPeople, which   *)
(* puts them side by side: what holds of a component holds of the whole.   *)
(***************************************************************************)
EXTENDS MCPeople, TLAPS, WellFoundedInduction

-----------------------------------------------------------------------------
(* Accounts.  An account is made from the form whose code was entered, and *)
(* a provider's id leads to one account.                                   *)

Keyed == {"reg_pending", "reg_otp", "ver_pending", "ver_create"}

\* What a call holds at each of its awaits.
FlowNamed(l) ==
    /\ l.pc \in OfRegistration => l.mail \in Emails
    /\ l.pc \in Keyed => l.key \in Apps /\ AppEmail[l.key] = l.mail
    /\ l.pc = "ver_create" => l.app \in Apps
    /\ l.pc \in {"soc_link", "soc_create"} => l.key \in Socials
    /\ l.pc = "soc_link" => l.user \in Ids

AcctTypeInv ==
    /\ AcctTypeOK
    /\ \A r \in Requests : FlowNamed(flow[r])
    /\ \A e \in Emails : otp[e] # None => AppEmail[otp[e]] = e

-----------------------------------------------------------------------------
(* The types.                                                              *)

\* A registration or sign-in that is not running holds nothing.
LEMMA NoFlowType == NoFlow \in Flow /\ NoFlow.pc = "idle" /\ FlowNamed(NoFlow)
  BY DEF NoFlow, Flow, FlowNamed, OfRegistration, Keyed

\* Linking a provider's id changes nothing else of an account.
LEMMA LinkTypes ==
  ASSUME NEW a \in Acct, NEW s \in Socials
  PROVE  /\ WithLink(a, s) \in Acct
         /\ WithLink(a, s).state = a.state /\ WithLink(a, s).app = a.app
  BY DEF WithLink, Acct, Socials

\* A step of one call from l to a state of type.
LEMMA FlowStep ==
  ASSUME AcctTypeInv, NEW r \in Requests, NEW l \in Flow, FlowNamed(l),
         flow' = [flow EXCEPT ![r] = l],
         accts' \in [Ids -> Acct], past' \in Past,
         pending' \in [Emails -> Apps \cup {None}], otp' \in [Emails -> Apps \cup {None}],
         \A e \in Emails : otp'[e] # None => AppEmail[otp'[e]] = e
  PROVE  AcctTypeInv'
<1>1. \A q \in Requests : flow'[q] = IF q = r THEN l ELSE flow[q]
  BY DEF AcctTypeInv, AcctTypeOK
<1>2. flow' \in [Requests -> Flow]
  BY DEF AcctTypeInv, AcctTypeOK
<1>3. \A q \in Requests : FlowNamed(flow'[q])
  BY <1>1 DEF AcctTypeInv
<1>. QED
  BY <1>2, <1>3 DEF AcctTypeInv, AcctTypeOK

\* Before the first account the types hold.
LEMMA AcctInitType == AcctInit => AcctTypeInv
<1>1. NoAcct \in Acct
  BY DEF NoAcct, Acct
<1>. QED
  BY <1>1, NoFlowType DEF AcctInit, AcctTypeInv, AcctTypeOK, Past

\* Every step keeps them.
LEMMA AcctNextType == AcctTypeInv /\ [AcctNext]_acctVars => AcctTypeInv'
<1>. SUFFICES ASSUME AcctTypeInv, [AcctNext]_acctVars PROVE AcctTypeInv'
  OBVIOUS
<1>0. /\ accts \in [Ids -> Acct] /\ flow \in [Requests -> Flow] /\ past \in Past
      /\ pending \in [Emails -> Apps \cup {None}] /\ otp \in [Emails -> Apps \cup {None}]
      /\ \A e \in Emails : otp[e] # None => AppEmail[otp[e]] = e
      /\ \A r \in Requests : FlowNamed(flow[r])
      /\ None \notin Ids \cup Emails \cup Apps \cup Socials
      /\ NoAcct \in Acct
  BY NoneIsNoKey DEF AcctTypeInv, AcctTypeOK, NoAcct, Acct
<1>1. ASSUME NEW r \in Requests, NEW a \in Apps, RegBegin(r, a) PROVE AcctTypeInv'
  <2> DEFINE l == [NoFlow EXCEPT !.pc = "reg_pending", !.key = a, !.mail = AppEmail[a]]
  <2>1. l \in Flow /\ FlowNamed(l)
    BY AppsHaveEmails DEF NoFlow, Flow, FlowNamed, OfRegistration, Keyed
  <2>2. flow' = [flow EXCEPT ![r] = l] /\ UNCHANGED <<accts, pending, otp>>
    BY <1>1 DEF RegBegin
  <2>3. past' \in Past
    BY <1>0, <1>1, AppsHaveEmails DEF RegBegin, Past
  <2>. HIDE DEF l
  <2>. QED  BY <1>0, <2>1, <2>2, <2>3, FlowStep
<1>2. ASSUME NEW r \in Requests, RegPending(r) PROVE AcctTypeInv'
  <2> DEFINE l == [flow[r] EXCEPT !.pc = "reg_otp"]
  <2>1. l \in Flow /\ FlowNamed(l) /\ flow[r].mail \in Emails /\ flow[r].key \in Apps
    BY <1>0, <1>2 DEF RegPending, FlowAt, Flow, FlowNamed, OfRegistration, Keyed
  <2>2. /\ flow' = [flow EXCEPT ![r] = l] /\ UNCHANGED <<accts, otp, past>>
        /\ pending' = [pending EXCEPT ![flow[r].mail] = flow[r].key]
    BY <1>2 DEF RegPending, FlowTo
  <2>. HIDE DEF l
  <2>. QED  BY <1>0, <2>1, <2>2, FlowStep
<1>3. ASSUME NEW r \in Requests, RegOtp(r) PROVE AcctTypeInv'
  <2>1. flow[r].mail \in Emails /\ flow[r].key \in Apps /\ AppEmail[flow[r].key] = flow[r].mail
    BY <1>0, <1>3 DEF RegOtp, FlowAt, FlowNamed, OfRegistration, Keyed
  <2>2. /\ flow' = [flow EXCEPT ![r] = NoFlow] /\ UNCHANGED <<accts, pending, past>>
        /\ otp' = [otp EXCEPT ![flow[r].mail] = flow[r].key]
    BY <1>3 DEF RegOtp, FlowEnds
  <2>3. \A e \in Emails : otp'[e] = IF e = flow[r].mail THEN flow[r].key ELSE otp[e]
    BY <1>0, <2>2
  <2>. QED  BY <1>0, <2>1, <2>2, <2>3, NoFlowType, FlowStep
<1>4. ASSUME NEW r \in Requests, NEW e \in Emails, VerBegin(r, e) PROVE AcctTypeInv'
  <2> DEFINE l == [NoFlow EXCEPT !.pc = "ver_pending", !.key = otp[e], !.mail = e]
  <2>1. l \in Flow /\ FlowNamed(l)
    BY <1>0, <1>4 DEF VerBegin, NoFlow, Flow, FlowNamed, OfRegistration, Keyed
  <2>2. flow' = [flow EXCEPT ![r] = l] /\ UNCHANGED <<accts, pending, otp>>
    BY <1>4 DEF VerBegin
  <2>3. past' \in Past
    BY <1>0, <1>4 DEF VerBegin, Past
  <2>. HIDE DEF l
  <2>. QED  BY <1>0, <2>1, <2>2, <2>3, FlowStep
<1>5. ASSUME NEW r \in Requests, VerPending(r) PROVE AcctTypeInv'
  <2>0. /\ flow[r].pc = "ver_pending" /\ flow[r].mail \in Emails
        /\ UNCHANGED <<accts, pending, otp, past>>
    BY <1>0, <1>5 DEF VerPending, FlowAt, FlowNamed, OfRegistration
  <2>1. CASE pending[flow[r].mail] = None
    <3>1. flow' = [flow EXCEPT ![r] = NoFlow]
      BY <1>5, <2>1 DEF VerPending
    <3>. QED  BY <1>0, <2>0, <3>1, NoFlowType, FlowStep
  <2>2. CASE pending[flow[r].mail] # None
    <3> DEFINE l == [[flow[r] EXCEPT !.pc = "ver_create"] EXCEPT !.app = pending[flow[r].mail]]
    <3>0. flow[r] \in Flow /\ flow[r].key \in Apps /\ AppEmail[flow[r].key] = flow[r].mail
          /\ pending[flow[r].mail] \in Apps
      BY <1>0, <2>0, <2>2 DEF FlowNamed, Keyed
    <3>1. l \in Flow /\ l.pc = "ver_create" /\ l.mail = flow[r].mail /\ l.key = flow[r].key
          /\ l.app = pending[flow[r].mail]
      BY <3>0 DEF Flow
    <3>2. flow' = [flow EXCEPT ![r] = l]
      BY <1>0, <1>5, <2>2 DEF VerPending
    <3>. HIDE DEF l
    <3>3. FlowNamed(l)
      BY <2>0, <3>0, <3>1 DEF FlowNamed
    <3>. QED  BY <1>0, <2>0, <3>1, <3>2, <3>3, FlowStep
  <2>. QED  BY <2>1, <2>2
<1>6. ASSUME NEW r \in Requests, VerCreate(r) PROVE AcctTypeInv'
  <2>0. /\ flow[r].pc = "ver_create" /\ flow[r].mail \in Emails /\ flow[r].app \in Apps
        /\ flow[r].key \in Apps /\ UNCHANGED <<pending, otp>>
    BY <1>0, <1>6 DEF VerCreate, FlowAt, FlowNamed, OfRegistration, Keyed
  <2>1. CASE Holders(flow[r].mail) # {}
    <3>1. flow' = [flow EXCEPT ![r] = NoFlow] /\ UNCHANGED <<accts, past>>
      BY <1>6, <2>1 DEF VerCreate, FlowEnds
    <3>. QED  BY <1>0, <2>0, <3>1, NoFlowType, FlowStep
  <2>2. CASE Holders(flow[r].mail) = {}
    <3> DEFINE l == [flow[r] EXCEPT !.pc = "ver_clean"]
               row == [NoAcct EXCEPT !.state = "live", !.email = flow[r].mail, !.app = flow[r].app]
    <3>1. l \in Flow /\ FlowNamed(l)
      BY <1>0, <2>0 DEF Flow, FlowNamed, OfRegistration, Keyed
    <3>2. row \in Acct
      BY <2>0 DEF NoAcct, Acct
    <3>3. PICK i \in Ids : accts' = [accts EXCEPT ![i] = row]
                           /\ past' = [past EXCEPT !.made = @ \cup {<<flow[r].key, i>>}]
      BY <1>6, <2>2 DEF VerCreate
    <3>4. flow' = [flow EXCEPT ![r] = l]
      BY <1>6, <2>2 DEF VerCreate, FlowTo
    <3>5. past' \in Past
      BY <1>0, <2>0, <3>3 DEF Past
    <3>. HIDE DEF l, row
    <3>6. accts' \in [Ids -> Acct]
      BY <1>0, <3>2, <3>3
    <3>. QED  BY <1>0, <2>0, <3>1, <3>4, <3>5, <3>6, FlowStep
  <2>. QED  BY <2>1, <2>2
<1>7. ASSUME NEW r \in Requests, VerClean(r) PROVE AcctTypeInv'
  <2> DEFINE l == [flow[r] EXCEPT !.pc = "ver_clean_otp"]
  <2>1. l \in Flow /\ FlowNamed(l) /\ flow[r].mail \in Emails
    BY <1>0, <1>7 DEF VerClean, FlowAt, Flow, FlowNamed, OfRegistration, Keyed
  <2>2. /\ flow' = [flow EXCEPT ![r] = l] /\ UNCHANGED <<accts, otp, past>>
        /\ pending' = [pending EXCEPT ![flow[r].mail] = None]
    BY <1>7 DEF VerClean, FlowTo
  <2>. HIDE DEF l
  <2>. QED  BY <1>0, <2>1, <2>2, FlowStep
<1>8. ASSUME NEW r \in Requests, VerCleanOtp(r) PROVE AcctTypeInv'
  <2>1. flow[r].mail \in Emails
    BY <1>0, <1>8 DEF VerCleanOtp, FlowAt, FlowNamed, OfRegistration
  <2>2. /\ flow' = [flow EXCEPT ![r] = NoFlow] /\ UNCHANGED <<accts, pending, past>>
        /\ otp' = [otp EXCEPT ![flow[r].mail] = None]
    BY <1>8 DEF VerCleanOtp, FlowEnds
  <2>. QED  BY <1>0, <2>1, <2>2, NoFlowType, FlowStep
<1>9. ASSUME NEW r \in Requests, NEW s \in Socials, NEW mail \in Emails \cup {None},
             SocialFind(r, s, mail)
      PROVE  AcctTypeInv'
  <2>0. UNCHANGED <<accts, pending, otp>>
    BY <1>9 DEF SocialFind
  <2>1. CASE \E i \in Linked(s) : past' = [past EXCEPT !.logins = @ \cup {<<s, i>>}]
                                  /\ UNCHANGED flow
    <3>1. past' \in Past
      BY <1>0, <2>1 DEF Past, Linked, LiveIds
    <3>. QED  BY <1>0, <2>0, <2>1, <3>1 DEF AcctTypeInv, AcctTypeOK
  <2>2. ASSUME NEW i \in Holders(mail), UNCHANGED past,
               flow' = [flow EXCEPT ![r] = [NoFlow EXCEPT !.pc = "soc_link", !.key = s,
                                                !.user = i, !.saw = LinkOf(i, s), !.mail = mail]]
        PROVE  AcctTypeInv'
    <3> DEFINE l == [NoFlow EXCEPT !.pc = "soc_link", !.key = s,
                                   !.user = i, !.saw = LinkOf(i, s), !.mail = mail]
    <3>1. i \in Ids /\ LinkOf(i, s) \in Socials \cup {None}
      BY <1>0 DEF Holders, LiveIds, LinkOf, Acct, Socials
    <3>2. l \in Flow /\ FlowNamed(l)
      BY <3>1 DEF NoFlow, Flow, FlowNamed, OfRegistration, Keyed
    <3>3. flow' = [flow EXCEPT ![r] = l]
      BY <2>2
    <3>. HIDE DEF l
    <3>. QED  BY <1>0, <2>0, <2>2, <3>2, <3>3, FlowStep
  <2>3. CASE UNCHANGED past /\ flow' = [flow EXCEPT ![r] =
                        [NoFlow EXCEPT !.pc = "soc_create", !.key = s, !.mail = mail]]
    <3> DEFINE l == [NoFlow EXCEPT !.pc = "soc_create", !.key = s, !.mail = mail]
    <3>2. l \in Flow /\ FlowNamed(l)
      BY DEF NoFlow, Flow, FlowNamed, OfRegistration, Keyed
    <3>3. flow' = [flow EXCEPT ![r] = l]
      BY <2>3
    <3>. HIDE DEF l
    <3>. QED  BY <1>0, <2>0, <2>3, <3>2, <3>3, FlowStep
  <2>. QED  BY <1>9, <2>1, <2>2, <2>3 DEF SocialFind
<1>10. ASSUME NEW r \in Requests, SocialLink(r) PROVE AcctTypeInv'
  <2>0. /\ flow[r].pc = "soc_link" /\ flow[r].key \in Socials /\ flow[r].user \in Ids
        /\ flow[r].saw \in Socials \cup {None} /\ UNCHANGED <<pending, otp>>
        /\ flow' = [flow EXCEPT ![r] = NoFlow]
    BY <1>0, <1>10 DEF SocialLink, FlowAt, FlowNamed, FlowEnds, Flow
  <2> DEFINE link == IF flow[r].saw # None THEN flow[r].saw ELSE flow[r].key
  <2>1. link \in Socials
    BY <2>0
  <2>2. \/ accts' = [accts EXCEPT ![flow[r].user] = WithLink(accts[flow[r].user], link)]
           /\ Login(r, flow[r].user)
        \/ UNCHANGED <<accts, past>>
    BY <1>0, <1>10, <2>0 DEF SocialLink
  <2>3. accts' \in [Ids -> Acct]
    BY <1>0, <2>0, <2>1, <2>2, LinkTypes
  <2>4. past' \in Past
    BY <1>0, <2>0, <2>2 DEF Login, Past
  <2>. QED  BY <1>0, <2>0, <2>3, <2>4, NoFlowType, FlowStep
<1>11. ASSUME NEW r \in Requests, SocialCreate(r) PROVE AcctTypeInv'
  <2>0. /\ flow[r].pc = "soc_create" /\ flow[r].key \in Socials
        /\ flow[r].mail \in Emails \cup {None} /\ UNCHANGED <<pending, otp>>
        /\ flow' = [flow EXCEPT ![r] = NoFlow]
    BY <1>0, <1>11 DEF SocialCreate, FlowAt, FlowNamed, FlowEnds, Flow
  <2>1. \/ \E i \in Ids, mail \in {None, flow[r].mail} :
              /\ accts' = [accts EXCEPT ![i] =
                    WithLink([NoAcct EXCEPT !.state = "live", !.email = mail], flow[r].key)]
              /\ Login(r, i)
        \/ \E i \in Linked(flow[r].key) : Login(r, i) /\ UNCHANGED accts
        \/ UNCHANGED <<accts, past>>
    BY <1>11 DEF SocialCreate
  <2>2. \A mail \in {None, flow[r].mail} : [NoAcct EXCEPT !.state = "live", !.email = mail] \in Acct
    BY <2>0 DEF NoAcct, Acct
  <2>3. \A mail \in {None, flow[r].mail} :
            WithLink([NoAcct EXCEPT !.state = "live", !.email = mail], flow[r].key) \in Acct
    BY <2>0, <2>2, LinkTypes
  <2>4. accts' \in [Ids -> Acct]
    BY <1>0, <2>1, <2>3
  <2>5. past' \in Past
    BY <1>0, <2>0, <2>1 DEF Login, Past, Linked, LiveIds
  <2>. QED  BY <1>0, <2>0, <2>4, <2>5, NoFlowType, FlowStep
<1>12. ASSUME NEW r \in Requests, FlowStops(r) PROVE AcctTypeInv'
  <2>1. past' \in Past
    BY <1>0, <1>12 DEF FlowStops, Past, FlowNamed
  <2>2. flow' = [flow EXCEPT ![r] = NoFlow] /\ UNCHANGED <<accts, pending, otp>>
    BY <1>12 DEF FlowStops, FlowEnds
  <2>. QED  BY <1>0, <2>1, <2>2, NoFlowType, FlowStep
<1>13. ASSUME NEW e \in Emails, PendingExpires(e) \/ OtpExpires(e) PROVE AcctTypeInv'
  BY <1>0, <1>13 DEF PendingExpires, OtpExpires, AcctTypeInv, AcctTypeOK
<1>14. ASSUME NEW e \in Emails, AdminCreate(e) PROVE AcctTypeInv'
  <2>1. [NoAcct EXCEPT !.state = "live", !.email = e] \in Acct
    BY DEF NoAcct, Acct
  <2>. QED  BY <1>0, <1>14, <2>1 DEF AdminCreate, AcctTypeInv, AcctTypeOK
<1>15. ASSUME NEW i \in Ids, Remove(i) PROVE AcctTypeInv'
  <2>1. [accts[i] EXCEPT !.state = "gone"] \in Acct
    BY <1>0 DEF Acct
  <2>. QED  BY <1>0, <1>15, <2>1 DEF Remove, AcctTypeInv, AcctTypeOK
<1>16. ASSUME NEW i \in Ids, NEW e \in Emails, EmailChanges(i, e) PROVE AcctTypeInv'
  <2>1. [accts[i] EXCEPT !.email = e] \in Acct
    BY <1>0 DEF Acct
  <2>. QED  BY <1>0, <1>16, <2>1 DEF EmailChanges, AcctTypeInv, AcctTypeOK
<1>17. CASE UNCHANGED acctVars
  BY <1>0, <1>17 DEF acctVars, AcctTypeInv, AcctTypeOK
<1>. QED
  BY <1>1, <1>2, <1>3, <1>4, <1>5, <1>6, <1>7, <1>8, <1>9, <1>10, <1>11, <1>12, <1>13, <1>14,
     <1>15, <1>16, <1>17 DEF AcctNext

\* Accounts, the keys in redis and the locals of every call keep their types.
THEOREM AccountTypesKept == AcctSpec => []AcctTypeOK
<1>1. AcctTypeInv => AcctTypeOK
  BY DEF AcctTypeInv
<1>. QED
  BY <1>1, AcctInitType, AcctNextType, PTL DEF AcctSpec

-----------------------------------------------------------------------------
(* RegisteredAsMailed: at an address whose calls did not overlap and all   *)
(* came to their end, redis never has the form of one application with the *)
(* code of another, whichever of the two keys ends first.                  *)

Calm == Emails \ past.torn

Reg(r, e) == flow[r].pc \in OfRegistration /\ flow[r].mail = e

\* What redis holds for an address, by the call that is working on it.
InStep(r, e) ==
    /\ flow[r].pc = "reg_otp" => pending[e] \in {None, flow[r].key}
    /\ flow[r].pc = "ver_pending" => pending[e] \in {None, flow[r].key}
    /\ flow[r].pc = "ver_create" => flow[r].app = flow[r].key
    /\ flow[r].pc # "reg_otp" => pending[e] \in {None, otp[e]}
    /\ flow[r].pc = "ver_clean_otp" => pending[e] = None

RegInv ==
    /\ \A e \in Calm : \A q, r \in Requests : Reg(q, e) /\ Reg(r, e) => q = r
    /\ \A e \in Calm, r \in Requests : Reg(r, e) => InStep(r, e)
    /\ \A e \in Calm : (\A r \in Requests : ~Reg(r, e)) => pending[e] \in {None, otp[e]}
    /\ \A i \in Ids, a \in Apps :
          <<a, i>> \in past.made =>
              accts[i].state # "free" /\ (accts[i].app = a \/ AppEmail[a] \in past.torn)

(* SocialLoginStable: an id is linked to one account at most, and who was   *)
(* signed in has a link of that provider from then on.                     *)
LinkInv ==
    /\ \A s \in Socials : \A i, j \in Linked(s) : i = j
    /\ \A s \in Socials, i \in Ids :
          <<s, i>> \in past.logins => accts[i].state # "free" /\ LinkOf(i, s) # None
    /\ \A r \in Requests : flow[r].pc = "soc_link" =>
          (flow[r].saw # None => (flow[r].saw \in GoogleIds <=> flow[r].key \in GoogleIds))

AcctInv == AcctTypeInv /\ RegInv /\ LinkInv

Grown(i) == /\ accts[i].state # "free" => accts'[i].state # "free" /\ accts'[i].app = accts[i].app

\* A step of no registration.
LEMMA RegKept ==
  ASSUME AcctTypeInv, RegInv, UNCHANGED <<pending, otp, past.made, past.torn>>,
         \A i \in Ids : Grown(i),
         \A r \in Requests : \/ flow'[r] = flow[r]
                             \/ flow[r].pc \notin OfRegistration /\ flow'[r].pc \notin OfRegistration
  PROVE  RegInv'
<1>1. \A r \in Requests, e \in Emails : Reg(r, e)' => Reg(r, e) /\ flow'[r] = flow[r]
  BY DEF Reg
<1>2. \A r \in Requests, e \in Emails : Reg(r, e) => Reg(r, e)'
  BY DEF Reg
<1>3. \A r \in Requests, e \in Emails : Reg(r, e)' /\ InStep(r, e) => InStep(r, e)'
  BY <1>1 DEF InStep
<1>4. Calm' = Calm
  BY DEF Calm
<1>5. \A i \in Ids, a \in Apps : <<a, i>> \in past'.made =>
          accts'[i].state # "free" /\ (accts'[i].app = a \/ AppEmail[a] \in past'.torn)
  BY DEF RegInv, Grown
<1>6. \A e \in Emails : pending'[e] = pending[e] /\ otp'[e] = otp[e]
  OBVIOUS
<1>7. \A e \in Calm' : \A q, r \in Requests : Reg(q, e)' /\ Reg(r, e)' => q = r
  BY <1>1, <1>4 DEF RegInv, Calm
<1>8. \A e \in Calm', r \in Requests : Reg(r, e)' => InStep(r, e)'
  BY <1>1, <1>3, <1>4 DEF RegInv, Calm
<1>9. \A e \in Calm' : (\A r \in Requests : ~Reg(r, e)') => pending'[e] \in {None, otp'[e]}
  BY <1>2, <1>4, <1>6 DEF RegInv, Calm
<1>. QED
  BY <1>5, <1>7, <1>8, <1>9 DEF RegInv

\* A step of the call r that works on the address e.
LEMMA RegStep ==
  ASSUME AcctTypeInv, RegInv, NEW r \in Requests, NEW e \in Emails, Reg(r, e),
         NEW l \in Flow, l.pc \in OfRegistration => l.mail = e,
         flow' = [flow EXCEPT ![r] = l], past'.torn = past.torn,
         \A f \in Emails : f # e => pending'[f] = pending[f] /\ otp'[f] = otp[f],
         e \in Calm /\ l.pc \in OfRegistration => InStep(r, e)',
         e \in Calm /\ l.pc \notin OfRegistration => pending'[e] \in {None, otp'[e]},
         \A i \in Ids, a \in Apps : <<a, i>> \in past'.made =>
             accts'[i].state # "free" /\ (accts'[i].app = a \/ AppEmail[a] \in past'.torn)
  PROVE  RegInv'
<1>0. \A q \in Requests : flow'[q] = IF q = r THEN l ELSE flow[q]
  BY DEF AcctTypeInv, AcctTypeOK
<1>1. Calm' = Calm
  BY DEF Calm
<1>2. \A q \in Requests, f \in Emails : Reg(q, f)' => Reg(q, f)
  BY <1>0 DEF Reg
<1>3. \A q \in Requests, f \in Emails : f # e /\ Reg(q, f)' => q # r /\ flow'[q] = flow[q]
  BY <1>0 DEF Reg
<1>4. \A f \in Calm' : \A q, o \in Requests : Reg(q, f)' /\ Reg(o, f)' => q = o
  BY <1>1, <1>2 DEF RegInv, Calm
<1>5. ASSUME NEW f \in Calm', NEW q \in Requests, Reg(q, f)' PROVE InStep(q, f)'
  <2>0. f \in Calm /\ f \in Emails /\ Reg(q, f)
    BY <1>1, <1>2, <1>5 DEF Calm
  <2>1. CASE f = e
    <3>1. q = r
      BY <2>0, <2>1 DEF RegInv
    <3>2. l.pc \in OfRegistration
      BY <1>0, <1>5, <3>1 DEF Reg
    <3>. QED  BY <2>0, <2>1, <3>1, <3>2
  <2>2. CASE f # e
    <3>1. flow'[q] = flow[q] /\ pending'[f] = pending[f] /\ otp'[f] = otp[f]
      BY <1>3, <1>5, <2>0, <2>2
    <3>2. InStep(q, f)
      BY <2>0 DEF RegInv
    <3>. QED  BY <3>1, <3>2 DEF InStep
  <2>. QED  BY <2>1, <2>2
<1>6. ASSUME NEW f \in Calm', \A q \in Requests : ~Reg(q, f)'
      PROVE  pending'[f] \in {None, otp'[f]}
  <2>0. f \in Calm /\ f \in Emails
    BY <1>1 DEF Calm
  <2>1. CASE f = e
    <3>1. l.pc \notin OfRegistration
      BY <1>0, <1>6, <2>1 DEF Reg
    <3>. QED  BY <2>0, <2>1, <3>1
  <2>2. CASE f # e
    <3>1. \A q \in Requests : ~Reg(q, f)
      BY <1>0, <1>6, <2>2 DEF Reg
    <3>. QED  BY <2>0, <2>2, <3>1 DEF RegInv
  <2>. QED  BY <2>1, <2>2
<1>. QED
  BY <1>4, <1>5, <1>6 DEF RegInv

\* A call that begins: if another one works on the address, it is not calm any more.
LEMMA RegBegins ==
  ASSUME AcctTypeInv, RegInv, NEW r \in Requests, NEW e \in Emails, flow[r].pc = "idle",
         NEW l \in Flow, l.pc \in {"reg_pending", "ver_pending"}, l.mail = e,
         l.pc = "ver_pending" => l.key = otp[e],
         flow' = [flow EXCEPT ![r] = l], UNCHANGED <<accts, pending, otp>>,
         past' = IF Registering(e) # {} THEN [past EXCEPT !.torn = @ \cup {e}] ELSE past
  PROVE  RegInv'
<1>0. \A q \in Requests : flow'[q] = IF q = r THEN l ELSE flow[q]
  BY DEF AcctTypeInv, AcctTypeOK
<1>1. past'.made = past.made /\ past.torn \subseteq past'.torn
      /\ (Registering(e) # {} => e \in past'.torn)
  BY DEF AcctTypeInv, AcctTypeOK, Past
<1>2. Calm' \subseteq Calm /\ (e \in Calm' => \A q \in Requests : ~Reg(q, e))
  BY <1>1 DEF Calm, Registering, Reg
<1>3. \A q \in Requests, f \in Emails : f # e => (Reg(q, f)' <=> Reg(q, f))
  BY <1>0 DEF Reg, OfRegistration
<1>4. \A q \in Requests : Reg(q, e)' /\ q # r => Reg(q, e)
  BY <1>0 DEF Reg
<1>5. \A f \in Calm' : \A q, o \in Requests : Reg(q, f)' /\ Reg(o, f)' => q = o
  BY <1>2, <1>3, <1>4 DEF RegInv, Calm
<1>6. ASSUME NEW f \in Calm', NEW q \in Requests, Reg(q, f)' PROVE InStep(q, f)'
  <2>0. f \in Calm /\ f \in Emails
    BY <1>2 DEF Calm
  <2>1. CASE f = e
    <3>1. q = r /\ pending[e] \in {None, otp[e]}
      BY <1>2, <1>4, <1>6, <2>0, <2>1 DEF RegInv
    <3>. QED  BY <1>0, <2>1, <3>1 DEF InStep
  <2>2. CASE f # e
    <3>1. Reg(q, f) /\ q # r
      BY <1>0, <1>3, <1>6, <2>0, <2>2 DEF Reg
    <3>2. InStep(q, f)
      BY <2>0, <3>1 DEF RegInv
    <3>. QED  BY <1>0, <3>1, <3>2 DEF InStep
  <2>. QED  BY <2>1, <2>2
<1>7. ASSUME NEW f \in Calm', \A q \in Requests : ~Reg(q, f)'
      PROVE  pending'[f] \in {None, otp'[f]}
  <2>1. f \in Calm /\ f \in Emails /\ \A q \in Requests : ~Reg(q, f)
    BY <1>0, <1>2, <1>7 DEF Calm, Reg, OfRegistration
  <2>. QED  BY <2>1 DEF RegInv
<1>8. \A i \in Ids, a \in Apps : <<a, i>> \in past'.made =>
          accts'[i].state # "free" /\ (accts'[i].app = a \/ AppEmail[a] \in past'.torn)
  BY <1>1 DEF RegInv
<1>. QED
  BY <1>5, <1>6, <1>7, <1>8 DEF RegInv

\* The rest of a step that links nobody.
LEMMA LinkKept ==
  ASSUME AcctTypeInv, AcctTypeInv', LinkInv, past'.logins = past.logins,
         \A r \in Requests : flow'[r].pc = "soc_link" => flow'[r] = flow[r],
         \A i \in Ids :
            /\ accts[i].state # "free" =>
                  /\ accts'[i].state # "free"
                  /\ accts'[i].state = "live" => accts[i].state = "live"
                  /\ accts'[i].google = accts[i].google /\ accts'[i].apple = accts[i].apple
            /\ accts[i].state = "free" =>
                  accts'[i] = accts[i] \/ (accts'[i].google = None /\ accts'[i].apple = None)
  PROVE  LinkInv'
<1>0. None \notin Socials
  BY NoneIsNoKey
<1>1. ASSUME NEW s \in Socials PROVE Linked(s)' \subseteq Linked(s)
  <2>. SUFFICES ASSUME NEW i \in Ids, accts'[i].state = "live", LinkOf(i, s)' = s
                PROVE  accts[i].state = "live" /\ LinkOf(i, s) = s
    BY DEF Linked, LiveIds
  <2>. QED  BY <1>0 DEF LinkOf
<1>2. \A s \in Socials : \A i, j \in Linked(s)' : i = j
  BY <1>1 DEF LinkInv
<1>3. \A s \in Socials, i \in Ids : <<s, i>> \in past'.logins =>
          accts'[i].state # "free" /\ LinkOf(i, s)' # None
  BY DEF LinkInv, LinkOf
<1>4. \A r \in Requests : flow'[r].pc = "soc_link" =>
          (flow'[r].saw # None => (flow'[r].saw \in GoogleIds <=> flow'[r].key \in GoogleIds))
  BY DEF LinkInv
<1>. QED
  BY <1>2, <1>3, <1>4 DEF LinkInv

\* A step that gives the link s to i, whose row was a (free, or i's own), and signs in
\* the id t of that provider.
LEMMA LinkStep ==
  ASSUME AcctTypeInv, LinkInv, NEW i \in Ids, NEW s \in Socials, NEW t \in Socials,
         NEW a \in Acct, a.state = "live",
         \/ a = accts[i]
         \/ accts[i].state = "free" /\ a.google = None /\ a.apple = None,
         accts' = [accts EXCEPT ![i] = WithLink(a, s)],
         Linked(s) \subseteq {i}, s \in GoogleIds <=> t \in GoogleIds,
         past' = [past EXCEPT !.logins = @ \cup {<<t, i>>}],
         \A r \in Requests : flow'[r].pc = "soc_link" => flow'[r] = flow[r]
  PROVE  LinkInv'
<1>0. accts \in [Ids -> Acct] /\ past \in Past /\ None \notin Socials
  BY NoneIsNoKey DEF AcctTypeInv, AcctTypeOK
<1>1. \A j \in Ids : j # i => accts'[j] = accts[j]
  BY <1>0
<1>2. /\ accts'[i].state = "live"
      /\ accts'[i].google = IF s \in GoogleIds THEN s ELSE a.google
      /\ accts'[i].apple = IF s \in GoogleIds THEN a.apple ELSE s
  BY <1>0 DEF WithLink, Acct
<1>3. ASSUME NEW u \in Socials PROVE Linked(u)' \subseteq Linked(u) \/ (u = s /\ Linked(u)' \subseteq {i})
  <2>1. CASE u = s
    BY <1>1, <2>1 DEF Linked, LiveIds, LinkOf
  <2>2. ASSUME u # s, NEW j \in Linked(u)' PROVE j \in Linked(u)
    <3>0. j \in Ids /\ accts'[j].state = "live" /\ LinkOf(j, u)' = u
      BY <2>2 DEF Linked, LiveIds
    <3>1. CASE j # i
      BY <1>1, <3>0, <3>1 DEF Linked, LiveIds, LinkOf
    <3>2. CASE j = i
      <4>1. (IF u \in GoogleIds THEN a.google ELSE a.apple) = u
        BY <1>2, <2>2, <3>0, <3>2 DEF LinkOf
      <4>2. a = accts[i]
        BY <1>0, <4>1
      <4>. QED  BY <3>0, <3>2, <4>1, <4>2 DEF Linked, LiveIds, LinkOf
    <3>. QED  BY <3>1, <3>2
  <2>. QED  BY <2>1, <2>2
<1>4. \A u \in Socials : \A j, k \in Linked(u)' : j = k
  BY <1>3 DEF LinkInv
<1>5. ASSUME NEW u \in Socials, NEW j \in Ids, <<u, j>> \in past'.logins
      PROVE  accts'[j].state # "free" /\ LinkOf(j, u)' # None
  <2>0. <<u, j>> \in past.logins \/ (u = t /\ j = i)
    BY <1>0, <1>5 DEF Past
  <2>1. CASE j # i
    BY <1>1, <2>0, <2>1 DEF LinkInv, LinkOf
  <2>2. CASE j = i
    <3>1. CASE u \in GoogleIds <=> s \in GoogleIds
      BY <1>0, <1>2, <2>2, <3>1 DEF LinkOf
    <3>2. CASE ~(u \in GoogleIds <=> s \in GoogleIds)
      <4>1. accts[i].state # "free" /\ LinkOf(i, u) # None
        BY <2>0, <2>2, <3>2 DEF LinkInv
      <4>. QED  BY <1>2, <2>2, <3>2, <4>1 DEF LinkOf
    <3>. QED  BY <3>1, <3>2
  <2>. QED  BY <2>1, <2>2
<1>6. \A r \in Requests : flow'[r].pc = "soc_link" =>
          (flow'[r].saw # None => (flow'[r].saw \in GoogleIds <=> flow'[r].key \in GoogleIds))
  BY DEF LinkInv
<1>. QED
  BY <1>4, <1>5, <1>6 DEF LinkInv

\* Before the first account the invariant of the accounts holds.
LEMMA AcctInitInv == AcctInit => AcctInv
<1>. SUFFICES ASSUME AcctInit PROVE AcctInv
  OBVIOUS
<1>1. \A r \in Requests : flow[r].pc = "idle"
  BY NoFlowType DEF AcctInit
<1>2. RegInv
  BY <1>1 DEF AcctInit, RegInv, Reg, OfRegistration, Calm
<1>3. \A s \in Socials : Linked(s) = {}
  BY DEF AcctInit, NoAcct, Linked, LiveIds
<1>4. LinkInv
  BY <1>1, <1>3 DEF AcctInit, LinkInv
<1>. QED
  BY <1>2, <1>4, AcctInitType DEF AcctInv

\* A step of a registration creates one row at most, and no link.
LEMMA RegLinks ==
  ASSUME AcctTypeInv, AcctTypeInv', LinkInv, past'.logins = past.logins, accts' = accts,
         NEW r \in Requests, NEW l \in Flow, l.pc # "soc_link", flow' = [flow EXCEPT ![r] = l]
  PROVE  LinkInv'
<1>1. \A q \in Requests : flow'[q] = IF q = r THEN l ELSE flow[q]
  BY DEF AcctTypeInv, AcctTypeOK
<1>2. \A q \in Requests : flow'[q].pc = "soc_link" => flow'[q] = flow[q]
  BY <1>1
<1>. QED
  BY <1>2, LinkKept

\* Every step keeps it.
LEMMA AcctNextInv == AcctInv /\ [AcctNext]_acctVars => AcctInv'
<1>. SUFFICES ASSUME AcctInv, [AcctNext]_acctVars PROVE AcctInv'
  OBVIOUS
<1>0. /\ AcctTypeInv /\ AcctTypeInv' /\ RegInv /\ LinkInv
      /\ accts \in [Ids -> Acct] /\ flow \in [Requests -> Flow] /\ past \in Past
      /\ pending \in [Emails -> Apps \cup {None}] /\ otp \in [Emails -> Apps \cup {None}]
      /\ \A r \in Requests : FlowNamed(flow[r])
      /\ None \notin Ids \cup Emails \cup Apps \cup Socials
      /\ NoAcct \in Acct
  BY NoneIsNoKey, AcctNextType DEF AcctInv, AcctTypeInv, AcctTypeOK, NoAcct, Acct
<1>m. ASSUME UNCHANGED <<accts, past>>, NEW i \in Ids, NEW a \in Apps, <<a, i>> \in past'.made
      PROVE  accts'[i].state # "free" /\ (accts'[i].app = a \/ AppEmail[a] \in past'.torn)
  BY <1>0, <1>m DEF RegInv
<1>1. ASSUME NEW r \in Requests, NEW a \in Apps, RegBegin(r, a) PROVE AcctInv'
  <2> DEFINE l == [NoFlow EXCEPT !.pc = "reg_pending", !.key = a, !.mail = AppEmail[a]]
  <2>1. l \in Flow /\ l.pc = "reg_pending" /\ l.mail = AppEmail[a] /\ AppEmail[a] \in Emails
    BY AppsHaveEmails DEF NoFlow, Flow
  <2>2. /\ flow' = [flow EXCEPT ![r] = l] /\ UNCHANGED <<accts, pending, otp>>
        /\ flow[r].pc = "idle"
        /\ past' = IF Registering(AppEmail[a]) # {}
                   THEN [past EXCEPT !.torn = @ \cup {AppEmail[a]}] ELSE past
    BY <1>1 DEF RegBegin, FlowAt
  <2>3. past'.logins = past.logins
    BY <1>0, <2>2 DEF Past
  <2>. HIDE DEF l
  <2>4. RegInv'
    BY <1>0, <2>1, <2>2, RegBegins
  <2>5. LinkInv'
    BY <1>0, <2>1, <2>2, <2>3, RegLinks
  <2>. QED  BY <1>0, <2>4, <2>5 DEF AcctInv
<1>2. ASSUME NEW r \in Requests, RegPending(r) PROVE AcctInv'
  <2>e. PICK e \in Emails : e = flow[r].mail
    BY <1>0, <1>2 DEF RegPending, FlowAt, FlowNamed, OfRegistration
  <2> DEFINE l == [flow[r] EXCEPT !.pc = "reg_otp"]
  <2>1. /\ l \in Flow /\ l.pc = "reg_otp" /\ l.mail = e /\ l.key = flow[r].key
        /\ Reg(r, e) /\ e \in Emails
    BY <1>0, <2>e, <1>2 DEF RegPending, FlowAt, Flow, Reg, FlowNamed, OfRegistration
  <2>2. /\ flow' = [flow EXCEPT ![r] = l] /\ UNCHANGED <<accts, otp, past>>
        /\ pending' = [pending EXCEPT ![e] = flow[r].key]
    BY <2>e, <1>2 DEF RegPending, FlowTo
  <2>. HIDE DEF l
  <2>3. flow'[r] = l /\ pending'[e] = l.key
    BY <1>0, <2>e, <2>1, <2>2
  <2>4. InStep(r, e)'
    BY <2>e, <2>1, <2>3 DEF InStep
  <2>5. RegInv'
    BY <1>0, <2>e, <1>m, <2>1, <2>2, <2>4, RegStep DEF OfRegistration
  <2>6. LinkInv'
    BY <1>0, <2>e, <2>1, <2>2, RegLinks
  <2>. QED  BY <1>0, <2>e, <2>5, <2>6 DEF AcctInv
<1>3. ASSUME NEW r \in Requests, RegOtp(r) PROVE AcctInv'
  <2>e. PICK e \in Emails : e = flow[r].mail
    BY <1>0, <1>3 DEF RegOtp, FlowAt, FlowNamed, OfRegistration
  <2>1. Reg(r, e) /\ e \in Emails /\ flow[r].pc = "reg_otp"
    BY <1>0, <2>e, <1>3 DEF RegOtp, FlowAt, Reg, FlowNamed, OfRegistration
  <2>2. /\ flow' = [flow EXCEPT ![r] = NoFlow] /\ UNCHANGED <<accts, pending, past>>
        /\ otp' = [otp EXCEPT ![e] = flow[r].key]
    BY <2>e, <1>3 DEF RegOtp, FlowEnds
  <2>3. e \in Calm => pending'[e] \in {None, otp'[e]}
    BY <1>0, <2>e, <2>1, <2>2 DEF RegInv, InStep
  <2>5. RegInv'
    BY <1>0, <2>e, <1>m, <2>1, <2>2, <2>3, NoFlowType, RegStep DEF OfRegistration
  <2>6. LinkInv'
    BY <1>0, <2>e, <2>2, NoFlowType, RegLinks
  <2>. QED  BY <1>0, <2>e, <2>5, <2>6 DEF AcctInv
<1>4. ASSUME NEW r \in Requests, NEW e \in Emails, VerBegin(r, e) PROVE AcctInv'
  <2> DEFINE l == [NoFlow EXCEPT !.pc = "ver_pending", !.key = otp[e], !.mail = e]
  <2>1. l \in Flow /\ l.pc = "ver_pending" /\ l.mail = e /\ l.key = otp[e]
    BY <1>0, <1>4 DEF VerBegin, NoFlow, Flow
  <2>2. /\ flow' = [flow EXCEPT ![r] = l] /\ UNCHANGED <<accts, pending, otp>>
        /\ flow[r].pc = "idle"
        /\ past' = IF Registering(e) # {} THEN [past EXCEPT !.torn = @ \cup {e}] ELSE past
    BY <1>4 DEF VerBegin, FlowAt
  <2>3. past'.logins = past.logins
    BY <1>0, <2>2 DEF Past
  <2>. HIDE DEF l
  <2>4. RegInv'
    BY <1>0, <2>1, <2>2, RegBegins
  <2>5. LinkInv'
    BY <1>0, <2>1, <2>2, <2>3, RegLinks
  <2>. QED  BY <1>0, <2>4, <2>5 DEF AcctInv
<1>5. ASSUME NEW r \in Requests, VerPending(r) PROVE AcctInv'
  <2>e. PICK e \in Emails : e = flow[r].mail
    BY <1>0, <1>5 DEF VerPending, FlowAt, FlowNamed, OfRegistration
  <2>1. /\ Reg(r, e) /\ e \in Emails /\ flow[r].pc = "ver_pending"
        /\ UNCHANGED <<accts, pending, otp, past>>
        /\ e \in Calm => pending[e] \in {None, otp[e]} /\ pending[e] \in {None, flow[r].key}
    BY <1>0, <2>e, <1>5 DEF VerPending, FlowAt, Reg, FlowNamed, OfRegistration, RegInv, InStep
  <2>2. CASE pending[e] = None
    <3>1. flow' = [flow EXCEPT ![r] = NoFlow]
      BY <2>e, <1>5, <2>2 DEF VerPending
    <3>2. RegInv'
      BY <1>0, <2>e, <1>m, <2>1, <3>1, NoFlowType, RegStep DEF OfRegistration
    <3>3. LinkInv'
      BY <1>0, <2>e, <2>1, <3>1, NoFlowType, RegLinks
    <3>. QED  BY <1>0, <2>e, <3>2, <3>3 DEF AcctInv
  <2>3. CASE pending[e] # None
    <3> DEFINE l == [[flow[r] EXCEPT !.pc = "ver_create"] EXCEPT !.app = pending[e]]
    <3>1. /\ l \in Flow /\ l.pc = "ver_create" /\ l.mail = e /\ l.key = flow[r].key
          /\ l.app = pending[e]
      BY ZenonT(60), <1>0, <2>e, <2>1 DEF Flow
    <3>2. flow' = [flow EXCEPT ![r] = l]
      BY <1>0, <2>e, <1>5, <2>3 DEF VerPending
    <3>. HIDE DEF l
    <3>3. e \in Calm => InStep(r, e)'
      BY <1>0, <2>e, <2>1, <2>3, <3>1, <3>2 DEF InStep
    <3>4. RegInv'
      BY <1>0, <2>e, <1>m, <2>1, <3>1, <3>2, <3>3, RegStep DEF OfRegistration
    <3>5. LinkInv'
      BY <1>0, <2>e, <2>1, <3>1, <3>2, RegLinks
    <3>. QED  BY <1>0, <2>e, <3>4, <3>5 DEF AcctInv
  <2>. QED  BY <2>2, <2>3
<1>6. ASSUME NEW r \in Requests, VerCreate(r) PROVE AcctInv'
  <2>e. PICK e \in Emails : e = flow[r].mail
    BY <1>0, <1>6 DEF VerCreate, FlowAt, FlowNamed, OfRegistration
  <2>1. /\ Reg(r, e) /\ e \in Emails /\ flow[r].pc = "ver_create"
        /\ flow[r].key \in Apps /\ AppEmail[flow[r].key] = e /\ flow[r].app \in Apps
        /\ UNCHANGED <<pending, otp>>
        /\ e \in Calm => pending[e] \in {None, otp[e]} /\ flow[r].app = flow[r].key
    BY <1>0, <2>e, <1>6 DEF VerCreate, FlowAt, Reg, FlowNamed, OfRegistration, Keyed, RegInv, InStep
  <2>2. CASE Holders(e) # {}
    <3>1. flow' = [flow EXCEPT ![r] = NoFlow] /\ UNCHANGED <<accts, past>>
      BY <2>e, <1>6, <2>2 DEF VerCreate, FlowEnds
    <3>2. RegInv'
      BY <1>0, <2>e, <1>m, <2>1, <3>1, NoFlowType, RegStep DEF OfRegistration
    <3>3. LinkInv'
      BY <1>0, <2>e, <2>1, <3>1, NoFlowType, RegLinks
    <3>. QED  BY <1>0, <2>e, <3>2, <3>3 DEF AcctInv
  <2>3. CASE Holders(e) = {}
    <3> DEFINE l == [flow[r] EXCEPT !.pc = "ver_clean"]
               row == [NoAcct EXCEPT !.state = "live", !.email = e, !.app = flow[r].app]
    <3>1. l \in Flow /\ l.pc = "ver_clean" /\ l.mail = e
      BY <1>0, <2>e DEF Flow
    <3>2. /\ row.state = "live" /\ row.app = flow[r].app /\ row.google = None /\ row.apple = None
      BY DEF NoAcct
    <3>3. PICK i \in Ids : /\ accts[i].state = "free"
                           /\ accts' = [accts EXCEPT ![i] = row]
                           /\ past' = [past EXCEPT !.made = @ \cup {<<flow[r].key, i>>}]
      BY <2>e, <1>6, <2>3 DEF VerCreate
    <3>4. flow' = [flow EXCEPT ![r] = l]
      BY <2>e, <1>6, <2>3 DEF VerCreate, FlowTo
    <3>5. /\ past'.made = past.made \cup {<<flow[r].key, i>>}
          /\ past'.torn = past.torn /\ past'.logins = past.logins
      BY <1>0, <2>e, <3>3 DEF Past
    <3>. HIDE DEF l, row
    <3>6. \A j \in Ids : accts'[j] = IF j = i THEN row ELSE accts[j]
      BY <1>0, <2>e, <3>3
    <3>7. \A j \in Ids, a \in Apps : <<a, j>> \in past'.made =>
             accts'[j].state # "free" /\ (accts'[j].app = a \/ AppEmail[a] \in past'.torn)
      <4>. SUFFICES ASSUME NEW j \in Ids, NEW a \in Apps, <<a, j>> \in past'.made
                    PROVE  accts'[j].state # "free" /\ (accts'[j].app = a \/ AppEmail[a] \in past'.torn)
        OBVIOUS
      <4>1. CASE <<a, j>> \in past.made
        BY <1>0, <2>e, <3>3, <3>5, <3>6, <4>1 DEF RegInv
      <4>2. CASE a = flow[r].key /\ j = i
        BY <2>1, <3>2, <3>5, <3>6, <4>2 DEF Calm
      <4>. QED  BY <3>5, <4>1, <4>2
    <3>8. e \in Calm => InStep(r, e)'
      BY <1>0, <2>e, <2>1, <3>1, <3>4 DEF InStep
    <3>9. \A q \in Requests : flow'[q].pc = "soc_link" => flow'[q] = flow[q]
      BY <1>0, <2>e, <3>1, <3>4
    <3>10. RegInv'
      BY <1>0, <2>e, <2>1, <3>1, <3>4, <3>5, <3>7, <3>8, RegStep DEF OfRegistration
    <3>11. LinkInv'
      BY <1>0, <2>e, <3>2, <3>3, <3>5, <3>6, <3>9, LinkKept
    <3>. QED  BY <1>0, <2>e, <3>10, <3>11 DEF AcctInv
  <2>. QED  BY <2>2, <2>3
<1>7. ASSUME NEW r \in Requests, VerClean(r) PROVE AcctInv'
  <2>e. PICK e \in Emails : e = flow[r].mail
    BY <1>0, <1>7 DEF VerClean, FlowAt, FlowNamed, OfRegistration
  <2> DEFINE l == [flow[r] EXCEPT !.pc = "ver_clean_otp"]
  <2>1. /\ l \in Flow /\ l.pc = "ver_clean_otp" /\ l.mail = e /\ Reg(r, e) /\ e \in Emails
    BY <1>0, <2>e, <1>7 DEF VerClean, FlowAt, Flow, Reg, FlowNamed, OfRegistration
  <2>2. /\ flow' = [flow EXCEPT ![r] = l] /\ UNCHANGED <<accts, otp, past>>
        /\ pending' = [pending EXCEPT ![e] = None]
    BY <2>e, <1>7 DEF VerClean, FlowTo
  <2>. HIDE DEF l
  <2>3. flow'[r] = l /\ pending'[e] = None
    BY <1>0, <2>e, <2>1, <2>2
  <2>4. InStep(r, e)'
    BY <2>e, <2>1, <2>3 DEF InStep
  <2>5. RegInv'
    BY <1>0, <2>e, <1>m, <2>1, <2>2, <2>4, RegStep DEF OfRegistration
  <2>6. LinkInv'
    BY <1>0, <2>e, <2>1, <2>2, RegLinks
  <2>. QED  BY <1>0, <2>e, <2>5, <2>6 DEF AcctInv
<1>8. ASSUME NEW r \in Requests, VerCleanOtp(r) PROVE AcctInv'
  <2>e. PICK e \in Emails : e = flow[r].mail
    BY <1>0, <1>8 DEF VerCleanOtp, FlowAt, FlowNamed, OfRegistration
  <2>1. Reg(r, e) /\ e \in Emails /\ flow[r].pc = "ver_clean_otp"
    BY <1>0, <2>e, <1>8 DEF VerCleanOtp, FlowAt, Reg, FlowNamed, OfRegistration
  <2>2. /\ flow' = [flow EXCEPT ![r] = NoFlow] /\ UNCHANGED <<accts, pending, past>>
        /\ otp' = [otp EXCEPT ![e] = None]
    BY <2>e, <1>8 DEF VerCleanOtp, FlowEnds
  <2>3. e \in Calm => pending'[e] \in {None, otp'[e]}
    BY <1>0, <2>e, <2>1, <2>2 DEF RegInv, InStep
  <2>5. RegInv'
    BY <1>0, <2>e, <1>m, <2>1, <2>2, <2>3, NoFlowType, RegStep DEF OfRegistration
  <2>6. LinkInv'
    BY <1>0, <2>e, <2>2, NoFlowType, RegLinks
  <2>. QED  BY <1>0, <2>e, <2>5, <2>6 DEF AcctInv
<1>9. ASSUME NEW r \in Requests, NEW s \in Socials, NEW mail \in Emails \cup {None},
             SocialFind(r, s, mail)
      PROVE  AcctInv'
  <2>0. UNCHANGED <<accts, pending, otp>> /\ flow[r].pc = "idle"
    BY <1>9 DEF SocialFind, FlowAt
  <2>i. \A i \in Ids : Grown(i)
    BY <2>0 DEF Grown
  <2>1. ASSUME NEW i \in Linked(s), past' = [past EXCEPT !.logins = @ \cup {<<s, i>>}],
               UNCHANGED flow
        PROVE  AcctInv'
    <3>1. /\ past'.logins = past.logins \cup {<<s, i>>} /\ past'.made = past.made
          /\ past'.torn = past.torn
      BY <1>0, <2>1 DEF Past
    <3>2. i \in Ids /\ accts[i].state # "free" /\ LinkOf(i, s) # None
      BY <1>0 DEF Linked, LiveIds
    <3>3. RegInv'
      BY <1>0, <2>0, <2>1, <2>i, <3>1, RegKept
    <3>4. \A t \in Socials, j \in Ids : <<t, j>> \in past'.logins =>
              accts[j].state # "free" /\ LinkOf(j, t) # None
      BY <1>0, <3>1, <3>2 DEF LinkInv
    <3>5. LinkInv'
      BY <1>0, <2>0, <2>1, <3>4 DEF LinkInv, Linked, LiveIds, LinkOf
    <3>. QED  BY <1>0, <3>3, <3>5 DEF AcctInv
  <2>2. ASSUME NEW l \in Flow, l.pc \in {"soc_link", "soc_create"}, UNCHANGED past,
               l.pc = "soc_link" =>
                  (l.saw # None => (l.saw \in GoogleIds <=> l.key \in GoogleIds)),
               flow' = [flow EXCEPT ![r] = l]
        PROVE  AcctInv'
    <3>1. \A q \in Requests : flow'[q] = IF q = r THEN l ELSE flow[q]
      BY <1>0, <2>2
    <3>2. \A q \in Requests : flow'[q] = flow[q]
                \/ (flow[q].pc \notin OfRegistration /\ flow'[q].pc \notin OfRegistration)
      BY <2>0, <2>2, <3>1 DEF OfRegistration
    <3>3. RegInv'
      BY <1>0, <2>0, <2>2, <2>i, <3>2, RegKept
    <3>4. \A q \in Requests : flow'[q].pc = "soc_link" =>
            (flow'[q].saw # None => (flow'[q].saw \in GoogleIds <=> flow'[q].key \in GoogleIds))
      BY <1>0, <2>2, <3>1 DEF LinkInv
    <3>5. LinkInv'
      BY <1>0, <2>0, <2>2, <3>4 DEF LinkInv, Linked, LiveIds, LinkOf
    <3>. QED  BY <1>0, <3>3, <3>5 DEF AcctInv
  <2>3. ASSUME NEW i \in Holders(mail), UNCHANGED past,
               flow' = [flow EXCEPT ![r] = [NoFlow EXCEPT !.pc = "soc_link", !.key = s,
                                                !.user = i, !.saw = LinkOf(i, s), !.mail = mail]]
        PROVE  AcctInv'
    <3> DEFINE l == [NoFlow EXCEPT !.pc = "soc_link", !.key = s,
                                   !.user = i, !.saw = LinkOf(i, s), !.mail = mail]
    <3>1. /\ i \in Ids /\ LinkOf(i, s) \in Socials \cup {None}
          /\ LinkOf(i, s) # None => (LinkOf(i, s) \in GoogleIds <=> s \in GoogleIds)
      BY <1>0, ProvidersDiffer DEF Holders, LiveIds, LinkOf, Acct, Socials
    <3>2. l \in Flow /\ l.pc = "soc_link" /\ l.saw = LinkOf(i, s) /\ l.key = s
      BY <3>1 DEF NoFlow, Flow
    <3>3. flow' = [flow EXCEPT ![r] = l]
      BY <2>3
    <3>. HIDE DEF l
    <3>. QED  BY <2>2, <2>3, <3>1, <3>2, <3>3
  <2>4. CASE UNCHANGED past /\ flow' = [flow EXCEPT ![r] =
                        [NoFlow EXCEPT !.pc = "soc_create", !.key = s, !.mail = mail]]
    <3> DEFINE l == [NoFlow EXCEPT !.pc = "soc_create", !.key = s, !.mail = mail]
    <3>2. l \in Flow /\ l.pc = "soc_create"
      BY DEF NoFlow, Flow
    <3>3. flow' = [flow EXCEPT ![r] = l]
      BY <2>4
    <3>. HIDE DEF l
    <3>. QED  BY <2>2, <2>4, <3>2, <3>3
  <2>. QED  BY <1>9, <2>1, <2>3, <2>4 DEF SocialFind
<1>10. ASSUME NEW r \in Requests, SocialLink(r) PROVE AcctInv'
  <2> DEFINE i == flow[r].user
             t == flow[r].key
             link == IF flow[r].saw # None THEN flow[r].saw ELSE t
  <2>0. /\ flow[r].pc = "soc_link" /\ t \in Socials /\ i \in Ids
        /\ flow[r].saw \in Socials \cup {None} /\ UNCHANGED <<pending, otp>>
        /\ flow' = [flow EXCEPT ![r] = NoFlow]
        /\ link \in Socials /\ (link \in GoogleIds <=> t \in GoogleIds)
    BY <1>0, <1>10 DEF SocialLink, FlowAt, FlowNamed, FlowEnds, Flow, LinkInv
  <2>1. \/ /\ accts' = [accts EXCEPT ![i] = WithLink(accts[i], link)]
           /\ past' = [past EXCEPT !.logins = @ \cup {<<t, i>>}]
           /\ accts[i].state = "live" /\ Linked(link) \subseteq {i}
        \/ UNCHANGED <<accts, past>>
    BY <1>0, <1>10, <2>0 DEF SocialLink, Login, LiveIds
  <2>. HIDE DEF i, t, link
  <2>2. UNCHANGED <<past.made, past.torn>>
    BY <1>0, <2>1 DEF Past
  <2>3. \A j \in Ids : Grown(j)
    <3>1. accts[i] \in Acct
      BY <1>0, <2>0
    <3>2. WithLink(accts[i], link).state = accts[i].state
          /\ WithLink(accts[i], link).app = accts[i].app
      BY <2>0, <3>1, LinkTypes
    <3>3. CASE accts' = [accts EXCEPT ![i] = WithLink(accts[i], link)]
      BY <1>0, <2>0, <3>2, <3>3 DEF Grown
    <3>4. CASE UNCHANGED accts
      BY <3>4 DEF Grown
    <3>. QED  BY <2>1, <3>3, <3>4
  <2>4. \A q \in Requests : flow'[q] = IF q = r THEN NoFlow ELSE flow[q]
    BY <1>0, <2>0
  <2>5. \A q \in Requests : flow'[q] = flow[q]
              \/ (flow[q].pc \notin OfRegistration /\ flow'[q].pc \notin OfRegistration)
    BY <2>0, <2>4, NoFlowType DEF OfRegistration
  <2>6. RegInv'
    BY <1>0, <2>0, <2>2, <2>3, <2>5, RegKept
  <2>7. \A q \in Requests : flow'[q].pc = "soc_link" => flow'[q] = flow[q]
    BY <2>4, NoFlowType
  <2>8. CASE UNCHANGED <<accts, past>>
    BY <1>0, <2>6, <2>7, <2>8, LinkKept DEF AcctInv
  <2>9. CASE /\ accts' = [accts EXCEPT ![i] = WithLink(accts[i], link)]
             /\ past' = [past EXCEPT !.logins = @ \cup {<<t, i>>}]
             /\ accts[i].state = "live" /\ Linked(link) \subseteq {i}
    <3>1. accts[i] \in Acct
      BY <1>0, <2>0
    <3>2. LinkInv'
      BY <1>0, <2>0, <2>7, <2>9, <3>1, LinkStep
    <3>. QED  BY <1>0, <2>6, <3>2 DEF AcctInv
  <2>. QED  BY <2>1, <2>8, <2>9
<1>11. ASSUME NEW r \in Requests, SocialCreate(r) PROVE AcctInv'
  <2> DEFINE s == flow[r].key
             Row(mail) == [NoAcct EXCEPT !.state = "live", !.email = mail]
  <2>0. /\ flow[r].pc = "soc_create" /\ s \in Socials
        /\ flow[r].mail \in Emails \cup {None} /\ UNCHANGED <<pending, otp>>
        /\ flow' = [flow EXCEPT ![r] = NoFlow]
    BY <1>0, <1>11 DEF SocialCreate, FlowAt, FlowNamed, FlowEnds, Flow
  <2>1. \/ \E i \in Ids, mail \in {None, flow[r].mail} :
              /\ Linked(s) = {}
              /\ accts[i].state = "free"
              /\ accts' = [accts EXCEPT ![i] = WithLink(Row(mail), s)]
              /\ past' = [past EXCEPT !.logins = @ \cup {<<s, i>>}]
        \/ \E i \in Linked(s) : past' = [past EXCEPT !.logins = @ \cup {<<s, i>>}] /\ UNCHANGED accts
        \/ UNCHANGED <<accts, past>>
    BY <1>11 DEF SocialCreate, Login
  <2>2. \A mail \in {None, flow[r].mail} :
           /\ Row(mail) \in Acct /\ Row(mail).state = "live"
           /\ Row(mail).google = None /\ Row(mail).apple = None
    BY <2>0 DEF NoAcct, Acct
  <2>. HIDE DEF s, Row
  <2>3. UNCHANGED <<past.made, past.torn>>
    BY <1>0, <2>1 DEF Past
  <2>4. \A j \in Ids : Grown(j)
    BY <1>0, <2>1 DEF Grown
  <2>5. \A q \in Requests : flow'[q] = IF q = r THEN NoFlow ELSE flow[q]
    BY <1>0, <2>0
  <2>6. \A q \in Requests : flow'[q] = flow[q]
              \/ (flow[q].pc \notin OfRegistration /\ flow'[q].pc \notin OfRegistration)
    BY <2>0, <2>5, NoFlowType DEF OfRegistration
  <2>7. RegInv'
    BY <1>0, <2>0, <2>3, <2>4, <2>6, RegKept
  <2>8. \A q \in Requests : flow'[q].pc = "soc_link" => flow'[q] = flow[q]
    BY <2>5, NoFlowType
  <2>9. CASE UNCHANGED <<accts, past>>
    BY <1>0, <2>7, <2>8, <2>9, LinkKept DEF AcctInv
  <2>10. ASSUME NEW i \in Linked(s), past' = [past EXCEPT !.logins = @ \cup {<<s, i>>}],
                UNCHANGED accts
         PROVE  LinkInv'
    <3>1. past'.logins = past.logins \cup {<<s, i>>}
      BY <1>0, <2>10 DEF Past
    <3>2. i \in Ids /\ accts[i].state # "free" /\ LinkOf(i, s) # None
      BY <1>0, <2>0 DEF Linked, LiveIds
    <3>3. \A t \in Socials, j \in Ids : <<t, j>> \in past'.logins =>
              accts[j].state # "free" /\ LinkOf(j, t) # None
      BY <1>0, <3>1, <3>2 DEF LinkInv
    <3>4. \A q \in Requests : flow'[q].pc = "soc_link" =>
            (flow'[q].saw # None => (flow'[q].saw \in GoogleIds <=> flow'[q].key \in GoogleIds))
      BY <1>0, <2>8 DEF LinkInv
    <3>. QED  BY <1>0, <2>10, <3>3, <3>4 DEF LinkInv, Linked, LiveIds, LinkOf
  <2>11. ASSUME NEW i \in Ids, NEW mail \in {None, flow[r].mail},
                Linked(s) = {}, accts[i].state = "free",
                accts' = [accts EXCEPT ![i] = WithLink(Row(mail), s)],
                past' = [past EXCEPT !.logins = @ \cup {<<s, i>>}]
         PROVE  LinkInv'
    <3>1. Linked(s) \subseteq {i}
      BY <2>11
    <3>. QED  BY <1>0, <2>0, <2>2, <2>8, <2>11, <3>1, LinkStep
  <2>. QED  BY <1>0, <2>1, <2>7, <2>9, <2>10, <2>11 DEF AcctInv
<1>12. ASSUME NEW r \in Requests, FlowStops(r) PROVE AcctInv'
  <2>0. flow' = [flow EXCEPT ![r] = NoFlow] /\ UNCHANGED <<accts, pending, otp>>
    BY <1>12 DEF FlowStops, FlowEnds
  <2>1. \A q \in Requests : flow'[q] = IF q = r THEN NoFlow ELSE flow[q]
    BY <1>0, <2>0
  <2>2. /\ past'.logins = past.logins /\ past'.made = past.made
        /\ past'.torn = IF flow[r].pc \in OfRegistration
                        THEN past.torn \cup {flow[r].mail} ELSE past.torn
    BY <1>0, <1>12 DEF FlowStops, Past
  <2>3. LinkInv'
    BY <1>0, <2>0, <2>2, NoFlowType, RegLinks
  <2>4. \A q \in Requests, e \in Calm' : /\ e \in Calm /\ e \in Emails
                                         /\ (Reg(q, e)' <=> Reg(q, e))
                                         /\ (Reg(q, e)' => flow'[q] = flow[q])
    BY <2>1, <2>2, NoFlowType DEF Calm, Reg, OfRegistration
  <2>5. Calm' \subseteq Calm
    BY <2>2 DEF Calm
  <2>6. \A q \in Requests, e \in Calm' : Reg(q, e)' => InStep(q, e)'
    BY <1>0, <2>0, <2>4 DEF RegInv, InStep
  <2>7. \A i \in Ids, a \in Apps : <<a, i>> \in past'.made =>
            accts'[i].state # "free" /\ (accts'[i].app = a \/ AppEmail[a] \in past'.torn)
    BY <1>0, <2>0, <2>2 DEF RegInv
  <2>8. \A e \in Calm' : \A q, o \in Requests : Reg(q, e)' /\ Reg(o, e)' => q = o
    BY <1>0, <2>4, <2>5 DEF RegInv
  <2>9. \A e \in Calm' : (\A q \in Requests : ~Reg(q, e)') => pending'[e] \in {None, otp'[e]}
    BY <1>0, <2>0, <2>4, <2>5 DEF RegInv
  <2>10. RegInv'
    BY <2>6, <2>7, <2>8, <2>9 DEF RegInv
  <2>. QED  BY <1>0, <2>3, <2>10 DEF AcctInv
<1>13. ASSUME NEW e \in Emails, PendingExpires(e) \/ OtpExpires(e) PROVE AcctInv'
  <2>0. UNCHANGED <<accts, flow, past>>
    BY <1>13 DEF PendingExpires, OtpExpires
  <2>1. \A f \in Emails : \/ pending'[f] = pending[f] /\ otp'[f] = otp[f]
                          \/ pending'[f] = None
    BY <1>0, <1>13 DEF PendingExpires, OtpExpires
  <2>2. \A r \in Requests, f \in Calm : Reg(r, f) => InStep(r, f)'
    BY <1>0, <2>0, <2>1 DEF RegInv, InStep, Calm
  <2>3. RegInv'
    BY <1>0, <2>0, <2>1, <2>2 DEF RegInv, Reg, Calm
  <2>4. LinkInv'
    BY <1>0, <2>0 DEF LinkInv, Linked, LiveIds, LinkOf
  <2>. QED  BY <1>0, <2>3, <2>4 DEF AcctInv
<1>14. ASSUME UNCHANGED <<pending, otp, flow, past>>, \A i \in Ids : Grown(i),
              \A i \in Ids :
                 /\ accts[i].state # "free" =>
                      /\ accts'[i].state = "live" => accts[i].state = "live"
                      /\ accts'[i].google = accts[i].google /\ accts'[i].apple = accts[i].apple
                 /\ accts[i].state = "free" =>
                      accts'[i] = accts[i] \/ (accts'[i].google = None /\ accts'[i].apple = None)
       PROVE  AcctInv'
  <2>1. RegInv'
    BY <1>0, <1>14, RegKept
  <2>2. LinkInv'
    BY <1>0, <1>14, LinkKept DEF Grown
  <2>. QED  BY <1>0, <2>1, <2>2 DEF AcctInv
<1>15. ASSUME NEW e \in Emails, AdminCreate(e) PROVE AcctInv'
  <2> DEFINE row == [NoAcct EXCEPT !.state = "live", !.email = e]
  <2>1. row.google = None /\ row.apple = None
    BY DEF NoAcct
  <2>2. PICK i \in Ids : accts[i].state = "free" /\ accts' = [accts EXCEPT ![i] = row]
    BY <1>15 DEF AdminCreate
  <2>3. UNCHANGED <<pending, otp, flow, past>>
    BY <1>15 DEF AdminCreate
  <2>. HIDE DEF row
  <2>4. \A j \in Ids : accts'[j] = IF j = i THEN row ELSE accts[j]
    BY <1>0, <2>2
  <2>. QED  BY <1>14, <2>1, <2>2, <2>3, <2>4 DEF Grown
<1>16. ASSUME NEW i \in Ids, Remove(i) \/ (\E e \in Emails : EmailChanges(i, e)) PROVE AcctInv'
  <2>1. accts[i].state = "live" /\ UNCHANGED <<pending, otp, flow, past>>
    BY <1>16 DEF Remove, EmailChanges, LiveIds
  <2>2. \A j \in Ids : j # i => accts'[j] = accts[j]
    BY <1>0, <1>16 DEF Remove, EmailChanges
  <2>3. /\ accts'[i].state # "free" /\ accts'[i].app = accts[i].app
        /\ accts'[i].google = accts[i].google /\ accts'[i].apple = accts[i].apple
    BY <1>0, <1>16, <2>1 DEF Remove, EmailChanges, Acct
  <2>. QED  BY <1>14, <2>1, <2>2, <2>3 DEF Grown
<1>17. CASE UNCHANGED acctVars
  BY <1>14, <1>17 DEF acctVars, Grown
<1>. QED
  BY <1>1, <1>2, <1>3, <1>4, <1>5, <1>6, <1>7, <1>8, <1>9, <1>10, <1>11, <1>12, <1>13,
     <1>15, <1>16, <1>17 DEF AcctNext

\* verifyAndRegister makes an account from the form whose code was entered, for any
\* number of applications for one address and with keys that expire, unless two calls
\* for the address overlapped or one ended half-way.
THEOREM AccountFromItsForm == AcctSpec => []RegisteredAsMailed
<1>1. AcctInv => RegisteredAsMailed
  BY DEF AcctInv, RegInv, RegisteredAsMailed
<1>. QED
  BY <1>1, AcctInitInv, AcctNextInv, PTL DEF AcctSpec

\* handleGoogleProfile and handleAppleProfile sign one id in to one account, whatever
\* overlapping sign-ins write the link they read before.
THEOREM OneAccountPerSocialId == AcctSpec => []SocialLoginStable
<1>1. AcctInv => SocialLoginStable
  <2>. SUFFICES ASSUME AcctInv, NEW s \in Socials, NEW i \in LiveIds, NEW j \in LiveIds,
                       <<s, i>> \in past.logins, <<s, j>> \in past.logins,
                       {LinkOf(i, s), LinkOf(j, s)} \subseteq {None, s}
                PROVE  i = j
    BY DEF SocialLoginStable
  <2>1. i \in Ids /\ j \in Ids
    BY DEF LiveIds
  <2>2. LinkOf(i, s) # None /\ LinkOf(j, s) # None
    BY <2>1 DEF AcctInv, LinkInv
  <2>3. i \in Linked(s) /\ j \in Linked(s)
    BY <2>2 DEF Linked
  <2>. QED  BY <2>3 DEF AcctInv, LinkInv
<1>. QED
  BY <1>1, AcctInitInv, AcctNextInv, PTL DEF AcctSpec

-----------------------------------------------------------------------------
(* Codes: the types, and the one user an address has.                      *)

MayMove == {"verify_write", "mail_write"}

CodeTypeInv ==
    /\ CodeTypeOK
    /\ \A x \in Calls : calls[x].pc \in MayMove => calls[x].user \in Users
    /\ \A k \in UcodeIds : \A c, d \in ucodes[k] : c = d
    /\ \A u, v \in Users : u # v /\ address[u] = address[v] => address[u] = Nil

\* Whoever has the address of a code or of a call is the one it was made for, took
\* the address since, or asked to have it.
Entitled(r) == \A u \in UserAt(r.email) : u = r.user \/ u \in r.taken \/ r.asked

MayWrite == {"reset_write", "pw_check", "pw_write"}

OwnerInv ==
    /\ \A k \in UcodeIds : \A c \in ucodes[k] : Entitled(c)
    /\ \A x \in Calls : calls[x].pc \in MayWrite => Entitled(calls[x])
    /\ stray = {}

CodeInv == CodeTypeInv /\ OwnerInv

\* A call about passwords that is not running holds nothing.
LEMMA NoCallType == NoCall \in Call /\ NoCall.pc = "idle"
  BY DEF NoCall, Call

\* A step of one call that leaves addresses and codes alone.
LEMMA CallStep ==
  ASSUME CodeInv, NEW x \in Calls, NEW l \in Call, calls' = [calls EXCEPT ![x] = l],
         UNCHANGED <<address, ucodes>>, verified' \subseteq Users, stray' = {},
         l.pc \in MayMove => l.user \in Users,
         l.pc \in MayWrite => Entitled(l)
  PROVE  CodeInv'
<1>0. calls \in [Calls -> Call] /\ \A y \in Calls : calls'[y] = IF y = x THEN l ELSE calls[y]
  BY DEF CodeInv, CodeTypeInv, CodeTypeOK
<1>1. CodeTypeInv'
  BY <1>0 DEF CodeInv, CodeTypeInv, CodeTypeOK
<1>3. \A y \in Calls : calls'[y].pc \in MayWrite => Entitled(calls[y])'
  BY <1>0 DEF CodeInv, OwnerInv, Entitled, UserAt
<1>4. \A k \in UcodeIds : \A c \in ucodes'[k] : Entitled(c)'
  BY DEF CodeInv, OwnerInv, Entitled, UserAt
<1>. QED
  BY <1>1, <1>3, <1>4 DEF CodeInv, OwnerInv

\* The end of a call that changed nothing but the verified users.
LEMMA CallEndStep ==
  ASSUME CodeInv, NEW x \in Calls, CallEnds(x),
         UNCHANGED <<address, ucodes>>, verified' \subseteq Users, stray' = {}
  PROVE  CodeInv'
  BY NoCallType, CallStep DEF CallEnds, MayMove, MayWrite

\* Codes are only taken away.
LEMMA FewerCodes ==
  ASSUME CodeInv, UNCHANGED <<address, verified, stray>>,
         ucodes' \in [UcodeIds -> SUBSET Ucode], \A k \in UcodeIds : ucodes'[k] \subseteq ucodes[k],
         calls' = calls \/ \E x \in Calls : CallEnds(x)
  PROVE  CodeInv'
<1>0. calls \in [Calls -> Call]
  BY DEF CodeInv, CodeTypeInv, CodeTypeOK
<1>1. /\ calls' \in [Calls -> Call]
      /\ \A y \in Calls : calls'[y] = calls[y] \/ calls'[y].pc = "idle"
  BY <1>0, NoCallType DEF CallEnds
<1>2. CodeTypeInv'
  BY <1>1 DEF CodeInv, CodeTypeInv, CodeTypeOK, MayMove
<1>3. \A y \in Calls : calls'[y].pc \in MayWrite => Entitled(calls[y])'
  BY <1>1 DEF CodeInv, OwnerInv, Entitled, UserAt, MayWrite
<1>4. \A k \in UcodeIds : \A c \in ucodes'[k] : Entitled(c)'
  BY DEF CodeInv, OwnerInv, Entitled, UserAt
<1>. QED
  BY <1>2, <1>3, <1>4 DEF CodeInv, OwnerInv

\* A password that is set is that of whoever is entitled to it.
LEMMA PasswordSet ==
  ASSUME CodeInv, NEW x \in Calls, calls[x].pc \in MayWrite, SetPassword(x)
  PROVE  stray' = {}
  BY DEF CodeInv, OwnerInv, Entitled, SetPassword

\* A code is mailed to the user who has the address, or for one who asked for it.
LEMMA TokenCreated ==
  ASSUME CodeInv, NEW u \in Users, NEW e \in Addresses, NEW asked \in BOOLEAN,
         asked \/ u \in UserAt(e), CreateToken(u, e, asked)
  PROVE  CodeInv'
<1>0. /\ ucodes \in [UcodeIds -> SUBSET Ucode] /\ UNCHANGED <<address, verified, calls, stray>>
      /\ \A v, w \in Users : v # w /\ address[v] = address[w] => address[v] = Nil
  BY DEF CodeInv, CodeTypeInv, CodeTypeOK, CreateToken
<1>1. PICK k \in UcodeIds, t \in Tokens :
        ucodes' = [ucodes EXCEPT ![k] =
                     {[user |-> u, email |-> e, token |-> t, asked |-> asked, taken |-> {}]}]
  BY DEF CreateToken
<1> DEFINE c == [user |-> u, email |-> e, token |-> t, asked |-> asked, taken |-> {}]
<1>2. c \in Ucode /\ c.user = u /\ c.email = e /\ c.asked = asked
  BY DEF Ucode
<1>3. ucodes' = [ucodes EXCEPT ![k] = {c}]
  BY <1>1
<1>. HIDE DEF c
<1>4. \A v \in UserAt(e) : asked \/ v = u
  BY <1>0, NilIsNoKey DEF UserAt
<1>5. Entitled(c)
  BY <1>2, <1>4 DEF Entitled
<1>6. ucodes' \in [UcodeIds -> SUBSET Ucode]
  BY <1>0, <1>2, <1>3
<1>7. \A j \in UcodeIds : ucodes'[j] = IF j = k THEN {c} ELSE ucodes[j]
  BY <1>0, <1>3
<1>8. CodeTypeInv'
  BY <1>0, <1>6, <1>7 DEF CodeInv, CodeTypeInv, CodeTypeOK
<1>9. \A j \in UcodeIds : \A d \in ucodes'[j] : Entitled(d)'
  BY <1>0, <1>5, <1>7 DEF CodeInv, OwnerInv, Entitled, UserAt
<1>10. \A y \in Calls : calls'[y].pc \in MayWrite => Entitled(calls[y])'
  BY <1>0 DEF CodeInv, OwnerInv, Entitled, UserAt
<1>. QED
  BY <1>0, <1>8, <1>9, <1>10 DEF CodeInv, OwnerInv

\* An address passes to a user: the codes and the calls for it see him take it.
LEMMA AddressMoves ==
  ASSUME CodeInv, NEW u \in Users, NEW e \in Addresses \cup {Nil}, UserAt(e) \subseteq {u},
         Moves(u, e), UNCHANGED <<verified, stray>>,
         \/ calls' = CallsSee(u, e)
         \/ \E x \in Calls : /\ calls[x].pc = "mail_write"
                             /\ calls' = [CallsSee(u, e) EXCEPT ![x].pc = "mail_delete"]
  PROVE  CodeInv'
<1>. USE NilIsNoKey
<1> DEFINE Took(r) == IF r.email = e THEN [r EXCEPT !.taken = @ \cup ({u} \ {r.user})] ELSE r
           See(l) == IF l.pc \in MayWrite /\ l.email = e
                     THEN [l EXCEPT !.taken = @ \cup ({u} \ {l.user})] ELSE l
           HoldersNow(f) == {v \in Users : f # Nil /\ address'[v] = f}
           EntitledNow(r) == \A v \in HoldersNow(r.email) : v = r.user \/ v \in r.taken \/ r.asked
<1>0. /\ address \in [Users -> Addresses \cup {Nil}] /\ ucodes \in [UcodeIds -> SUBSET Ucode]
      /\ calls \in [Calls -> Call]
      /\ \A v, w \in Users : v # w /\ address[v] = address[w] => address[v] = Nil
      /\ \A k \in UcodeIds : \A c \in ucodes[k] : Entitled(c)
      /\ \A x \in Calls : calls[x].pc \in MayWrite => Entitled(calls[x])
  BY DEF CodeInv, CodeTypeInv, CodeTypeOK, OwnerInv
<1>1. /\ address' = [address EXCEPT ![u] = e]
      /\ ucodes' = [k \in UcodeIds |-> {Took(c) : c \in ucodes[k]}]
  BY DEF Moves
<1>2. /\ address' \in [Users -> Addresses \cup {Nil}]
      /\ \A v, w \in Users : v # w /\ address'[v] = address'[w] => address'[v] = Nil
  BY <1>0, <1>1 DEF UserAt
<1>3. \A f : HoldersNow(f) \subseteq UserAt(f) \cup (IF f = e THEN {u} ELSE {})
  BY <1>0, <1>1 DEF UserAt
<1>4. ASSUME NEW r \in Ucode, Entitled(r) PROVE Took(r) \in Ucode /\ EntitledNow(Took(r))
  <2>1. CASE r.email = e
    <3> DEFINE q == [r EXCEPT !.taken = r.taken \cup ({u} \ {r.user})]
    <3>1. /\ q \in Ucode /\ q.email = e /\ q.user = r.user /\ q.asked = r.asked
          /\ q.taken = r.taken \cup ({u} \ {r.user})
      BY <2>1 DEF Ucode
    <3>2. Took(r) = q
      BY <2>1
    <3>. HIDE DEF q, Took
    <3>3. EntitledNow(q)
      BY <1>3, <1>4, <2>1, <3>1 DEF Entitled
    <3>. QED  BY <3>1, <3>2, <3>3
  <2>2. CASE r.email # e
    <3>1. Took(r) = r
      BY <2>2
    <3>. HIDE DEF Took
    <3>2. EntitledNow(r)
      BY <1>3, <1>4, <2>2 DEF Entitled
    <3>. QED  BY <3>1, <3>2
  <2>. QED  BY <2>1, <2>2
<1>5. ASSUME NEW l \in Call, l.pc \in MayWrite => Entitled(l)
      PROVE  /\ See(l) \in Call /\ See(l).pc = l.pc /\ See(l).user = l.user
             /\ l.pc \in MayWrite => EntitledNow(See(l))
  <2>1. CASE l.pc \in MayWrite /\ l.email = e
    <3> DEFINE q == [l EXCEPT !.taken = l.taken \cup ({u} \ {l.user})]
    <3>1. /\ q \in Call /\ q.pc = l.pc /\ q.email = e /\ q.user = l.user /\ q.asked = l.asked
          /\ q.taken = l.taken \cup ({u} \ {l.user})
      BY <2>1 DEF Call
    <3>2. See(l) = q
      BY <2>1
    <3>. HIDE DEF q, See
    <3>3. EntitledNow(q)
      BY <1>3, <1>5, <2>1, <3>1 DEF Entitled
    <3>. QED  BY <3>1, <3>2, <3>3
  <2>2. CASE ~(l.pc \in MayWrite /\ l.email = e)
    <3>1. See(l) = l
      BY <2>2
    <3>. HIDE DEF See
    <3>2. l.pc \in MayWrite => EntitledNow(l)
      BY <1>3, <1>5, <2>2 DEF Entitled
    <3>. QED  BY <3>1, <3>2
  <2>. QED  BY <2>1, <2>2
<1>6. CallsSee(u, e) = [y \in Calls |-> See(calls[y])]
  BY DEF CallsSee, MayWrite
<1>7. /\ ucodes' \in [UcodeIds -> SUBSET Ucode]
      /\ \A k \in UcodeIds : \A c \in ucodes'[k] : EntitledNow(c)
      /\ \A k \in UcodeIds : \A c, d \in ucodes'[k] : c = d
  <2>1. \A k \in UcodeIds : \A c \in ucodes[k] : Took(c) \in Ucode /\ EntitledNow(Took(c))
    BY <1>0, <1>4
  <2>. HIDE DEF Took, EntitledNow
  <2>. QED  BY <1>0, <1>1, <2>1 DEF CodeInv, CodeTypeInv
<1>8. /\ calls' \in [Calls -> Call]
      /\ \A y \in Calls : /\ calls'[y].pc \in MayMove => calls'[y].user \in Users
                          /\ calls'[y].pc \in MayWrite => EntitledNow(calls'[y])
  <2>1. \A y \in Calls : /\ See(calls[y]) \in Call /\ See(calls[y]).pc = calls[y].pc
                         /\ See(calls[y]).user = calls[y].user
                         /\ calls[y].pc \in MayWrite => EntitledNow(See(calls[y]))
    BY <1>0, <1>5
  <2>2. \A y \in Calls : calls[y].pc \in MayMove => calls[y].user \in Users
    BY DEF CodeInv, CodeTypeInv
  <2>. HIDE DEF See, EntitledNow
  <2>3. CASE calls' = CallsSee(u, e)
    BY <1>6, <2>1, <2>2, <2>3
  <2>4. ASSUME NEW x \in Calls, calls' = [CallsSee(u, e) EXCEPT ![x].pc = "mail_delete"]
        PROVE  /\ calls' \in [Calls -> Call]
               /\ \A y \in Calls : /\ calls'[y].pc \in MayMove => calls'[y].user \in Users
                                   /\ calls'[y].pc \in MayWrite => EntitledNow(calls'[y])
    <3> DEFINE m == [See(calls[x]) EXCEPT !.pc = "mail_delete"]
    <3>1. m \in Call /\ m.pc = "mail_delete"
      BY <2>1 DEF Call
    <3>2. \A y \in Calls : calls'[y] = IF y = x THEN m ELSE See(calls[y])
      BY <1>6, <2>4
    <3>3. calls' = [y \in Calls |-> IF y = x THEN m ELSE See(calls[y])]
      BY <1>6, <2>4
    <3>. HIDE DEF m
    <3>4. calls' \in [Calls -> Call]
      BY <2>1, <3>1, <3>3
    <3>. QED  BY <2>1, <2>2, <3>1, <3>2, <3>4 DEF MayMove, MayWrite
  <2>. QED  BY <2>3, <2>4
<1>9. /\ \A k \in UcodeIds : \A c \in ucodes'[k] : Entitled(c)'
      /\ \A y \in Calls : calls'[y].pc \in MayWrite => Entitled(calls[y])'
  BY <1>7, <1>8 DEF Entitled, UserAt
<1>. QED
  BY <1>2, <1>7, <1>8, <1>9 DEF CodeInv, CodeTypeInv, CodeTypeOK, OwnerInv

\* A call goes on with a row of ucodes, or with the address its user has.
LEMMA ResetBegins ==
  ASSUME CodeInv, NEW x \in Calls, NEW e \in Addresses, NEW t \in Tokens, ResetBegin(x, e, t)
  PROVE  CodeInv'
<1>0. PICK k \in UcodeIds : k \in Matching(e, t) /\ \E c \in ucodes[k] :
          calls' = [calls EXCEPT ![x] = [pc |-> "reset_write", user |-> c.user, email |-> e,
                                         token |-> t, asked |-> c.asked, taken |-> c.taken]]
  BY DEF ResetBegin, Matching, RowsOf
<1>1. PICK c \in ucodes[k] :
          calls' = [calls EXCEPT ![x] = [pc |-> "reset_write", user |-> c.user, email |-> e,
                                         token |-> t, asked |-> c.asked, taken |-> c.taken]]
  BY <1>0
<1>2. c \in Ucode /\ c.email = e /\ Entitled(c)
  BY <1>0 DEF Matching, RowsOf, CodeInv, CodeTypeInv, CodeTypeOK, OwnerInv
<1> DEFINE l == [pc |-> "reset_write", user |-> c.user, email |-> e,
                 token |-> t, asked |-> c.asked, taken |-> c.taken]
<1>3. /\ l \in Call /\ l.pc = "reset_write" /\ l.user = c.user /\ l.email = c.email
      /\ l.asked = c.asked /\ l.taken = c.taken
  BY <1>2 DEF Ucode, Call
<1>4. calls' = [calls EXCEPT ![x] = l]
  BY <1>1
<1>. HIDE DEF l
<1>5. Entitled(l)
  BY <1>2, <1>3 DEF Entitled
<1>6. UNCHANGED <<address, ucodes>> /\ verified' \subseteq Users /\ stray' = {}
  BY DEF ResetBegin, CodeInv, CodeTypeInv, CodeTypeOK, OwnerInv
<1>. QED
  BY <1>3, <1>4, <1>5, <1>6, CallStep DEF MayMove

\* Changing a password, when it begins and checks, keeps the invariant of the codes.
LEMMA PasswordCalls ==
  ASSUME CodeInv, NEW x \in Calls, (\E u \in Users : PwBegin(x, u)) \/ PwCheck(x)
  PROVE  CodeInv'
<1>0. /\ address \in [Users -> Addresses \cup {Nil}] /\ calls[x] \in Call
      /\ \A v, w \in Users : v # w /\ address[v] = address[w] => address[v] = Nil
      /\ UNCHANGED <<address, ucodes>> /\ verified' \subseteq Users /\ stray' = {}
  BY DEF PwBegin, PwCheck, CodeInv, CodeTypeInv, CodeTypeOK, OwnerInv
<1>1. ASSUME NEW u \in Users, PwBegin(x, u) PROVE CodeInv'
  <2> DEFINE l == [NoCall EXCEPT !.pc = "pw_check", !.user = u, !.email = address[u]]
  <2>1. l \in Call /\ l.pc = "pw_check" /\ l.user = u /\ l.email = address[u]
    BY <1>0 DEF NoCall, Call
  <2>2. calls' = [calls EXCEPT ![x] = l]
    BY <1>1 DEF PwBegin
  <2>. HIDE DEF l
  <2>3. Entitled(l)
    BY <1>0, <2>1 DEF Entitled, UserAt
  <2>. QED  BY <1>0, <2>1, <2>2, <2>3, CallStep DEF MayMove
<1>2. CASE calls' = [calls EXCEPT ![x].pc = "pw_write"] /\ calls[x].pc = "pw_check"
  <2> DEFINE l == [calls[x] EXCEPT !.pc = "pw_write"]
  <2>1. /\ l \in Call /\ l.pc = "pw_write" /\ l.user = calls[x].user /\ l.email = calls[x].email
        /\ l.asked = calls[x].asked /\ l.taken = calls[x].taken
    BY <1>0 DEF Call
  <2>2. calls' = [calls EXCEPT ![x] = l]
    BY <1>2
  <2>3. Entitled(calls[x])
    BY <1>2 DEF CodeInv, OwnerInv, MayWrite
  <2>. HIDE DEF l
  <2>4. Entitled(l)
    BY <2>1, <2>3 DEF Entitled
  <2>. QED  BY <1>0, <2>1, <2>2, <2>4, CallStep DEF MayMove
<1>3. CASE CallEnds(x)
  BY <1>0, <1>3, CallEndStep
<1>. QED
  BY <1>1, <1>2, <1>3 DEF PwCheck, CallAt

\* Before the first code the invariant of the codes holds.
LEMMA CodeInitInv == CodeInit => CodeInv
  BY NoCallType DEF CodeInit, CodeInv, CodeTypeInv, CodeTypeOK, OwnerInv, MayMove, MayWrite

\* Every step keeps it.
LEMMA CodeNextInv == CodeInv /\ [CodeNext]_codeVars => CodeInv'
<1>. SUFFICES ASSUME CodeInv, [CodeNext]_codeVars PROVE CodeInv'
  OBVIOUS
<1>0. /\ address \in [Users -> Addresses \cup {Nil}] /\ ucodes \in [UcodeIds -> SUBSET Ucode]
      /\ calls \in [Calls -> Call] /\ verified \subseteq Users /\ stray = {}
      /\ \A x \in Calls : calls[x].pc \in MayMove => calls[x].user \in Users
  BY DEF CodeInv, CodeTypeInv, CodeTypeOK, OwnerInv
<1>1. ASSUME NEW e \in Addresses, ForgotPassword(e) \/ ResendVerificationEmail(e) PROVE CodeInv'
  BY <1>1, TokenCreated DEF ForgotPassword, ResendVerificationEmail, UserAt
<1>2. ASSUME NEW e \in Addresses, NEW u \in Users, RequestEmailChange(u, e) PROVE CodeInv'
  BY <1>2, TokenCreated DEF RequestEmailChange
<1>3. ASSUME NEW u \in Users, NEW e \in Addresses \cup {Nil}, Readdress(u, e),
             UserAt(e) \subseteq {u}
      PROVE  CodeInv'
  BY <1>3, AddressMoves DEF Readdress
<1>4. ASSUME NEW e \in Addresses, NEW u \in Users, UpdateUser(u, e) \/ UpdatedUser(u, e)
      PROVE  CodeInv'
  BY <1>3, <1>4 DEF UpdateUser, UpdatedUser
<1>5. ASSUME NEW u \in Users, DeleteUser(u) PROVE CodeInv'
  BY <1>3, <1>5 DEF DeleteUser, UserAt
<1>6. ASSUME NEW k \in UcodeIds, UcodeExpires(k) PROVE CodeInv'
  BY <1>0, <1>6, FewerCodes DEF UcodeExpires
<1>7. ASSUME NEW x \in Calls, ResetDelete(x) \/ MailDelete(x) PROVE CodeInv'
  <2>1. /\ ucodes' \in [UcodeIds -> SUBSET Ucode]
        /\ \A k \in UcodeIds : ucodes'[k] \subseteq ucodes[k]
        /\ UNCHANGED <<address, verified, stray>> /\ CallEnds(x)
    BY <1>0, <1>7 DEF ResetDelete, MailDelete, DeleteToken
  <2>. QED  BY <2>1, FewerCodes
<1>8. ASSUME NEW x \in Calls, NEW e \in Addresses, NEW t \in Tokens,
             ResetBegin(x, e, t) \/ VerifyBegin(x, e, t)
      PROVE  CodeInv'
  <2>1. CASE VerifyBegin(x, e, t)
    <3>1. PICK u \in Users :
            calls' = [calls EXCEPT ![x] = [NoCall EXCEPT !.pc = "verify_write", !.user = u]]
      BY <2>1 DEF VerifyBegin, UserAt
    <3> DEFINE l == [NoCall EXCEPT !.pc = "verify_write", !.user = u]
    <3>2. l \in Call /\ l.pc = "verify_write" /\ l.user = u
      BY DEF NoCall, Call
    <3>3. calls' = [calls EXCEPT ![x] = l]
      BY <3>1
    <3>. HIDE DEF l
    <3>. QED  BY <1>0, <2>1, <3>2, <3>3, CallStep DEF VerifyBegin, MayMove, MayWrite
  <2>. QED  BY <1>8, <2>1, ResetBegins
<1>9. ASSUME NEW x \in Calls, NEW u \in Users, NEW e \in Addresses, NEW t \in Tokens,
             MailBegin(x, u, e, t)
      PROVE  CodeInv'
  <2> DEFINE l == [NoCall EXCEPT !.pc = "mail_write", !.user = u, !.email = e, !.token = t]
  <2>1. l \in Call /\ l.pc = "mail_write" /\ l.user = u
    BY DEF NoCall, Call
  <2>2. calls' = [calls EXCEPT ![x] = l]
    BY <1>9 DEF MailBegin
  <2>. HIDE DEF l
  <2>. QED  BY <1>0, <1>9, <2>1, <2>2, CallStep DEF MailBegin, MayMove, MayWrite
<1>10. ASSUME NEW x \in Calls, (\E u \in Users : PwBegin(x, u)) \/ PwCheck(x) PROVE CodeInv'
  BY <1>10, PasswordCalls
<1>11. ASSUME NEW x \in Calls, ResetWrite(x) PROVE CodeInv'
  <2>1. CASE UserAt(calls[x].email) = {}
    BY <1>0, <1>11, <2>1, CallEndStep DEF ResetWrite
  <2>2. CASE UserAt(calls[x].email) # {}
    <3> DEFINE l == [NoCall EXCEPT !.pc = "reset_delete", !.email = calls[x].email,
                                   !.token = calls[x].token]
    <3>1. l \in Call /\ l.pc = "reset_delete"
      BY <1>0 DEF NoCall, Call
    <3>2. calls' = [calls EXCEPT ![x] = l] /\ SetPassword(x)
      BY <1>11, <2>2 DEF ResetWrite
    <3>3. stray' = {}
      BY <1>11, <3>2, PasswordSet DEF ResetWrite, CallAt, MayWrite
    <3>. HIDE DEF l
    <3>. QED  BY <1>0, <1>11, <3>1, <3>2, <3>3, CallStep DEF ResetWrite, MayMove, MayWrite
  <2>. QED  BY <2>1, <2>2
<1>12. ASSUME NEW x \in Calls, PwWrite(x) PROVE CodeInv'
  <2>1. stray' = {}
    BY <1>12, PasswordSet DEF PwWrite, CallAt, MayWrite
  <2>. QED  BY <1>0, <1>12, <2>1, CallEndStep DEF PwWrite
<1>13. ASSUME NEW x \in Calls, VerifyWrite(x) PROVE CodeInv'
  <2>1. calls[x].user \in Users
    BY <1>0, <1>13 DEF VerifyWrite, CallAt, MayMove
  <2>. QED  BY <1>0, <1>13, <2>1, CallEndStep DEF VerifyWrite
<1>14. ASSUME NEW x \in Calls, MailWrite(x) PROVE CodeInv'
  <2>1. calls[x].user \in Users /\ calls[x].email \in Addresses \cup {Nil}
        /\ calls[x].pc = "mail_write"
    BY <1>0, <1>14 DEF MailWrite, CallAt, MayMove, Call
  <2>2. CASE UserAt(calls[x].email) \subseteq {calls[x].user}
    BY <1>14, <2>1, <2>2, AddressMoves DEF MailWrite
  <2>3. CASE ~(UserAt(calls[x].email) \subseteq {calls[x].user})
    BY <1>0, <1>14, <2>3, CallEndStep DEF MailWrite
  <2>. QED  BY <2>2, <2>3
<1>15. CASE UNCHANGED codeVars
  BY <1>15 DEF codeVars, CodeInv, CodeTypeInv, CodeTypeOK, OwnerInv, Entitled, UserAt
<1>. QED
  BY <1>1, <1>2, <1>4, <1>5, <1>6, <1>7, <1>8, <1>9, <1>10, <1>11, <1>12, <1>13, <1>14, <1>15
  DEF CodeNext

\* Users, codes and the locals of every call keep their types.
THEOREM CodeTypesKept == CodeSpec => []CodeTypeOK
<1>1. CodeInv => CodeTypeOK
  BY DEF CodeInv, CodeTypeInv
<1>. QED
  BY <1>1, CodeInitInv, CodeNextInv, PTL DEF CodeSpec

\* Whatever calls, expiries and changes of address overlap, a password is set by its
\* owner's call or by a code mailed for him, but for a user who took the address
\* since or whose address another user had asked for.
THEOREM PasswordIsOwners == CodeSpec => []PasswordKeepsToOwner
<1>1. CodeInv => PasswordKeepsToOwner
  BY DEF CodeInv, OwnerInv, PasswordKeepsToOwner
<1>. QED
  BY <1>1, CodeInitInv, CodeNextInv, PTL DEF CodeSpec

-----------------------------------------------------------------------------
(* CoachCalendar: the types, and what a cleaning is about to drop.         *)

CalInv ==
    /\ CalTypeOK
    /\ \A x \in Workers : work[x].pc = "clean_write" => \A d \in work[x].asked : d < today

\* A call about the calendar that is not running holds nothing.
LEMMA NoJobType == NoJob \in Job /\ NoJob.pc = "idle"
  BY DEF NoJob, Job

\* A step of one call that leaves the clock alone.
LEMMA JobStep ==
  ASSUME CalInv, NEW x \in Workers, NEW j \in Job, work' = [work EXCEPT ![x] = j], today' = today,
         j.pc = "clean_write" => \A d \in j.asked : d < today
  PROVE  /\ work' \in [Workers -> Job]
         /\ \A y \in Workers : work'[y].pc = "clean_write" => \A d \in work'[y].asked : d < today'
  BY DEF CalInv, CalTypeOK

\* It may end.
LEMMA JobEnds ==
  ASSUME CalInv, NEW x \in Workers, Done(x), today' = today
  PROVE  /\ work' \in [Workers -> Job]
         /\ \A y \in Workers : work'[y].pc = "clean_write" => \A d \in work'[y].asked : d < today'
  BY NoJobType, JobStep DEF Done

\* What follows a clean-up keeps the types of the calls.
LEMMA CleaningEnds ==
  ASSUME CalInv, NEW x \in Workers, AfterCleaning(x), today' = today
  PROVE  /\ work' \in [Workers -> Job]
         /\ \A y \in Workers : work'[y].pc = "clean_write" => \A d \in work'[y].asked : d < today'
         /\ work'[x].pc \in {"idle", "available_read"}
<1>0. work \in [Workers -> Job]
  BY DEF CalInv, CalTypeOK
<1>1. CASE work[x].asks
  <2> DEFINE j == [[NoJob EXCEPT !.asks = TRUE] EXCEPT !.pc = "available_read"]
  <2>1. j \in Job /\ j.pc = "available_read"
    BY DEF NoJob, Job
  <2>2. work' = [work EXCEPT ![x] = j]
    BY <1>1 DEF AfterCleaning, GoOn
  <2>. HIDE DEF j
  <2>. QED  BY <1>0, <2>1, <2>2, JobStep
<1>2. CASE ~work[x].asks
  BY <1>0, <1>2, NoJobType, JobEnds DEF AfterCleaning, Done
<1>. QED
  BY <1>1, <1>2

\* Before the first blocked day the invariant of the calendar holds.
LEMMA CalInitInv == CalInit => CalInv
  BY NoJobType, CalendarBounds DEF CalInit, CalInv, CalTypeOK, Weekend

\* Every step keeps it.
LEMMA CalNextInv == CalInv /\ [CalNext]_calVars => CalInv'
<1>. SUFFICES ASSUME CalInv, [CalNext]_calVars PROVE CalInv'
  OBVIOUS
<1>. USE CalendarBounds
<1>0. /\ today \in 0..LastToday /\ blocked \subseteq Days /\ weekend \in Weekend
      /\ available \subseteq WeekDays /\ slots \subseteq Slot /\ work \in [Workers -> Job]
      /\ Writers \subseteq Workers /\ LastToday \in Nat /\ LastDay \in Nat
  BY DEF CalInv, CalTypeOK, Workers
<1>1. ASSUME NEW x \in Writers, NEW asked \in SUBSET Days, SetBlockedDays(x, asked) PROVE CalInv'
  <2> DEFINE j == [[NoJob EXCEPT !.days = blocked, !.asked = asked] EXCEPT !.pc = "block_write"]
  <2>1. j \in Job /\ j.pc = "block_write"
    BY <1>0 DEF NoJob, Job
  <2>2. work' = [work EXCEPT ![x] = j] /\ UNCHANGED <<today, blocked, weekend, available, slots>>
    BY <1>1 DEF SetBlockedDays, GoOn
  <2>. HIDE DEF j
  <2>. QED  BY <1>0, <2>1, <2>2, JobStep DEF CalInv, CalTypeOK
<1>2. ASSUME NEW x \in Writers, NEW s \in Slot, SetBlockedTimeSlot(x, s) PROVE CalInv'
  <2> DEFINE j == [[NoJob EXCEPT !.slot = {s}] EXCEPT !.pc = "slot_create"]
  <2>1. j \in Job /\ j.pc = "slot_create"
    BY <1>0 DEF NoJob, Job
  <2>2. work' = [work EXCEPT ![x] = j] /\ UNCHANGED <<today, blocked, weekend, available, slots>>
    BY <1>2 DEF SetBlockedTimeSlot, GoOn
  <2>. HIDE DEF j
  <2>. QED  BY <1>0, <2>1, <2>2, JobStep DEF CalInv, CalTypeOK
<1>3. CASE SetWeekendDay
  <2>1. weekend' \in Weekend
    BY <1>3 DEF SetWeekendDay, Weekend
  <2>. QED  BY <1>0, <1>3, <2>1 DEF SetWeekendDay, CalInv, CalTypeOK
<1>4. ASSUME NEW x \in Workers, NEW asks \in BOOLEAN, CleanBegin(x, asks) PROVE CalInv'
  <2> DEFINE j == [[NoJob EXCEPT !.asks = asks] EXCEPT !.pc = "clean_read"]
  <2>1. j \in Job /\ j.pc = "clean_read"
    BY DEF NoJob, Job
  <2>2. work' = [work EXCEPT ![x] = j] /\ UNCHANGED <<today, blocked, weekend, available>>
        /\ slots' \subseteq slots
    BY <1>4 DEF CleanBegin, GoOn
  <2>. HIDE DEF j
  <2>. QED  BY <1>0, <2>1, <2>2, JobStep DEF CalInv, CalTypeOK
<1>5. ASSUME NEW x \in Workers, WriteBlockedDays(x) PROVE CalInv'
  <2>1. blocked' \subseteq Days
    BY <1>0, <1>5 DEF WriteBlockedDays, Job
  <2>. QED  BY <1>0, <1>5, <2>1, JobEnds DEF WriteBlockedDays, CalInv, CalTypeOK
<1>6. ASSUME NEW x \in Workers, CreateSlot(x) PROVE CalInv'
  <2>1. slots' \subseteq Slot
    BY <1>0, <1>6 DEF CreateSlot, Job
  <2>. QED  BY <1>0, <1>6, <2>1, JobEnds DEF CreateSlot, CalInv, CalTypeOK
<1>7. ASSUME NEW x \in Workers, CleanRead(x) PROVE CalInv'
  <2>0. UNCHANGED <<today, blocked, weekend, available, slots>>
    BY <1>7 DEF CleanRead
  <2>1. CASE StillBlocked(blocked) # blocked
    <3> DEFINE j == [[work[x] EXCEPT !.days = StillBlocked(blocked),
                                     !.asked = blocked \ StillBlocked(blocked)]
                        EXCEPT !.pc = "clean_write"]
    <3>1. StillBlocked(blocked) \subseteq Days
          /\ \A d \in blocked \ StillBlocked(blocked) : d < today
      <4>1. ASSUME NEW d \in blocked, d \notin StillBlocked(blocked) PROVE d < today
        <5>1. ~(d >= today)
          BY <4>1 DEF StillBlocked
        <5>2. d \in Nat /\ today \in Nat
          BY <1>0, <4>1 DEF Days
        <5>. QED  BY <5>1, <5>2
      <4>2. StillBlocked(blocked) \subseteq Days
        BY <1>0 DEF StillBlocked
      <4>. QED  BY <4>1, <4>2
    <3>2. j \in Job /\ j.asked = blocked \ StillBlocked(blocked)
      BY <1>0, <3>1 DEF Job
    <3>3. work' = [work EXCEPT ![x] = j]
      BY <1>7, <2>1 DEF CleanRead, GoOn
    <3>. HIDE DEF j
    <3>. QED  BY <1>0, <2>0, <3>1, <3>2, <3>3, JobStep DEF CalInv, CalTypeOK
  <2>2. CASE StillBlocked(blocked) = blocked
    BY <1>0, <1>7, <2>0, <2>2, CleaningEnds DEF CleanRead, CalInv, CalTypeOK
  <2>. QED  BY <2>1, <2>2
<1>8. ASSUME NEW x \in Workers, CleanWrite(x) PROVE CalInv'
  <2>1. blocked' \subseteq Days
    BY <1>0, <1>8 DEF CleanWrite, Job
  <2>. QED  BY <1>0, <1>8, <2>1, CleaningEnds DEF CleanWrite, CalInv, CalTypeOK
<1>9. ASSUME NEW x \in Workers, AvailableRead(x) PROVE CalInv'
  <2> DEFINE j == [[work[x] EXCEPT !.week = AvailableNow] EXCEPT !.pc = "available_write"]
  <2>1. AvailableNow \subseteq WeekDays
    BY DEF AvailableNow
  <2>2. j \in Job /\ j.pc = "available_write"
    BY <1>0, <2>1 DEF Job
  <2>3. work' = [work EXCEPT ![x] = j] /\ UNCHANGED <<today, blocked, weekend, available, slots>>
    BY <1>9 DEF AvailableRead, GoOn
  <2>. HIDE DEF j
  <2>. QED  BY <1>0, <2>2, <2>3, JobStep DEF CalInv, CalTypeOK
<1>10. ASSUME NEW x \in Workers, AvailableWrite(x) PROVE CalInv'
  <2>1. available' \subseteq WeekDays
    BY <1>0, <1>10 DEF AvailableWrite, Job
  <2>. QED  BY <1>0, <1>10, <2>1, JobEnds DEF AvailableWrite, CalInv, CalTypeOK
<1>11. ASSUME NEW x \in Writers, CalStop(x) PROVE CalInv'
  BY <1>0, <1>11, JobEnds DEF CalStop, CalInv, CalTypeOK
<1>12. CASE Tick
  <2>1. today' \in 0..LastToday /\ today' = today + 1 /\ work' = work
    BY <1>0, <1>12 DEF Tick
  <2>2. \A x \in Workers : work[x].asked \subseteq Days
    BY <1>0 DEF Job
  <2>3. \A x \in Workers : work[x].pc = "clean_write" => \A d \in work[x].asked : d < today'
    BY <1>0, <2>1, <2>2 DEF CalInv, Days
  <2>. QED  BY <1>0, <1>12, <2>1, <2>3 DEF Tick, CalInv, CalTypeOK
<1>13. CASE UNCHANGED calVars
  BY <1>13 DEF calVars, CalInv, CalTypeOK
<1>. QED
  BY <1>1, <1>2, <1>3, <1>4, <1>5, <1>6, <1>7, <1>8, <1>9, <1>10, <1>11, <1>12, <1>13
  DEF CalNext, GoesOn

\* The calendar and the locals of every call keep their types.
THEOREM CalendarTypesKept == CalSpec => []CalTypeOK
<1>1. CalInv => CalTypeOK
  BY DEF CalInv
<1>. QED
  BY <1>1, CalInitInv, CalNextInv, PTL DEF CalSpec

\* A step that opens a blocked day that has not passed is the write of a call that
\* read the days before that one was blocked: a cleaning drops past days only.
LEMMA StaleWrite ==
  ASSUME CalInv, CalNext, NEW d \in blocked \ blocked', d >= today
  PROVE  \E x \in Workers : /\ work[x].pc \in {"block_write", "clean_write"}
                            /\ work'[x] # work[x]
                            /\ d \notin work[x].days \cup work[x].asked
<1>. USE CalendarBounds
<1>0. /\ work \in [Workers -> Job] /\ today \in 0..LastToday /\ blocked \subseteq Days
      /\ Writers \subseteq Workers
  BY DEF CalInv, CalTypeOK, Workers
<1>1. ASSUME NEW x \in Workers, WriteBlockedDays(x)
      PROVE  work[x].pc = "block_write" /\ work'[x] # work[x]
             /\ d \notin work[x].days \cup work[x].asked
  <2>1. work'[x] = NoJob /\ blocked' = work[x].days \cup work[x].asked
        /\ work[x].pc = "block_write"
    BY <1>0, <1>1 DEF WriteBlockedDays, Done, Doing
  <2>. QED  BY <2>1, NoJobType
<1>2. ASSUME NEW x \in Workers, CleanWrite(x)
      PROVE  work[x].pc = "clean_write" /\ work'[x] # work[x]
             /\ d \notin work[x].days \cup work[x].asked
  <2>1. blocked' = work[x].days /\ work[x].pc = "clean_write" /\ today' = today
        /\ AfterCleaning(x)
    BY <1>2 DEF CleanWrite, Doing
  <2>2. \A c \in work[x].asked : c < today
    BY <2>1 DEF CalInv
  <2>3. d \notin work[x].asked
    BY <1>0, <2>2 DEF Days
  <2>4. work'[x].pc \in {"idle", "available_read"}
    BY <2>1, CleaningEnds
  <2>. QED  BY <2>1, <2>3, <2>4
<1>3. blocked' # blocked
  OBVIOUS
<1>4. \E x \in Workers : WriteBlockedDays(x) \/ CleanWrite(x)
  BY <1>3 DEF CalNext, GoesOn, SetBlockedDays, SetBlockedTimeSlot, SetWeekendDay, CleanBegin,
              CreateSlot, CleanRead, AvailableRead, AvailableWrite, CalStop, Tick
<1>. QED
  BY <1>1, <1>2, <1>4

\* With overlapping calls and cleanings, a blocked day that has not passed is opened
\* only by the late write of a call that read the days before it was blocked
\* (setBlockedDays and the clean-up write the whole array).
THEOREM CleaningOpensNothing == CalSpec => OnlyStaleWritesOpen
<1>1. CalInv /\ [CalNext]_calVars =>
        [\A d \in blocked \ blocked' :
            d >= today => \E x \in Workers : /\ work[x].pc \in {"block_write", "clean_write"}
                                             /\ work'[x] # work[x]
                                             /\ d \notin work[x].days \cup work[x].asked]_calVars
  BY StaleWrite
<1>. QED
  BY <1>1, CalInitInv, CalNextInv, PTL DEF CalSpec, OnlyStaleWritesOpen

-----------------------------------------------------------------------------
(* SessionTimes: one edit at a time keeps the live sessions apart.         *)

Disjoint(iv, jv) == iv.to <= jv.from \/ jv.to <= iv.from

\* Edits in flight name a booking that exists, and there is at most one.
EditsNamed ==
    /\ \A x \in Editors : edits[x].pc # "idle" =>
          edits[x].b \in Appointments /\ appts[edits[x].b].status # "ABSENT"
    /\ \A x, y \in Editors : edits[x].pc # "idle" /\ edits[y].pc # "idle" => x = y

\* An offer with a time is made for a booking that exists.
OffersNamed ==
    \A p \in Proposals : offered[p].terms # {} =>
        offered[p].b \in Appointments /\ appts[offered[p].b].status # "ABSENT"

\* A session whose time was compared is on the date of its booking.
SessionOnDate ==
    \A b \in Appointments \ loose : \A s \in appts[b].session : s.date = appts[b].date

\* What the conflict check found out about an edit stays true until it writes.
Compared ==
    \A x \in Editors : edits[x].pc = "edit_write" =>
        \A d \in EditDate(x), iv \in edits[x].iv, o \in Appointments \ (loose \cup {edits[x].b}) :
            appts[o].status \in Live /\ Together(edits[x].b, o) =>
                \A s \in appts[o].session : s.date = d => Disjoint(iv, s.iv)

\* What it found out about an offer stays true as long as no other session of its coach or
\* athlete is written on its date.
OfferCompared ==
    \A p \in Proposals \ loose :
        \A t \in offered[p].terms, o \in Appointments \ (loose \cup {offered[p].b}) :
            appts[o].status \in Live /\ Together(offered[p].b, o) =>
                \A s \in appts[o].session : s.date = t.date => Disjoint(t.iv, s.iv)

SessInv == /\ SessTypeOK /\ EditsNamed /\ OffersNamed
           /\ SessionOnDate /\ Compared /\ OfferCompared /\ NoDoubleSession

\* Before the first session the invariant of the sessions holds.
LEMMA SessInitInv == SessInit => SessInv
<1>. SUFFICES ASSUME SessInit PROVE SessInv
  OBVIOUS
<1>1. NoEdit \in Edit /\ NoEdit.pc = "idle"
  BY DEF NoEdit, Edit
<1>2. (CHOOSE d \in Dates : TRUE) \in Dates
  BY SomeDate
<1>3. offered \in [Proposals -> ProposalRow] /\ \A p \in Proposals : offered[p].terms = {}
  BY DEF SessInit, ProposalRow
<1>4. SessTypeOK
  BY <1>1, <1>2, <1>3 DEF SessInit, SessTypeOK, ApptRow
<1>5. \A b \in Appointments : appts[b].session = {} /\ appts[b].status = "ABSENT"
  BY DEF SessInit
<1>6. \A x \in Editors : edits[x].pc = "idle"
  BY <1>1 DEF SessInit
<1>. QED
  BY <1>3, <1>4, <1>5, <1>6 DEF SessInv, EditsNamed, OffersNamed, SessionOnDate, Compared,
                                OfferCompared, NoDoubleSession, Live

\* A step that writes no session: a booking whose date changes or that becomes live by it
\* is set aside, and a new one has no session.
LEMMA RowsStep ==
  ASSUME SessInv, SessTypeOK', loose \subseteq loose',
         \/ /\ edits' = edits
            /\ \A b \in Appointments : appts[b].status # "ABSENT" => UNCHANGED appts[b].date
         \/ \A x \in Editors : edits'[x].pc = "idle",
         \A p \in Proposals : UNCHANGED <<offered[p].b, offered[p].terms>>,
         \A b \in Appointments :
            /\ appts[b].status # "ABSENT" =>
                  /\ UNCHANGED <<appts[b].trainer, appts[b].trainee>>
                  /\ appts'[b].status # "ABSENT"
                  /\ b \notin loose' => /\ UNCHANGED appts[b].date
                                        /\ \/ UNCHANGED appts[b].session
                                           \/ appts'[b].session = {}
                                        /\ appts'[b].status \in Live => appts[b].status \in Live
            /\ appts[b].status = "ABSENT" =>
                  appts'[b] = appts[b] \/ appts'[b].session = {}
  PROVE  SessInv'
<1>. DEFINE Same(b) == /\ appts'[b].trainer = appts[b].trainer
                       /\ appts'[b].trainee = appts[b].trainee
                       /\ appts'[b].date = appts[b].date
                       /\ appts'[b].session = appts[b].session
<1>0. "ABSENT" \notin Live
  BY DEF Live
<1>1. ASSUME NEW b \in Appointments \ loose' PROVE Same(b) \/ appts'[b].session = {}
  OBVIOUS
<1>2. ASSUME NEW b \in Appointments \ loose', appts'[b].status \in Live, appts'[b].session # {}
      PROVE  Same(b) /\ appts[b].status \in Live /\ b \notin loose
  BY <1>0, <1>2
<1>3. EditsNamed'
  BY DEF SessInv, EditsNamed
<1>4. OffersNamed'
  BY DEF SessInv, OffersNamed
<1>5. SessionOnDate'
  BY <1>1 DEF SessInv, SessionOnDate
<1>6. NoDoubleSession'
  <2>. SUFFICES ASSUME NEW b \in Appointments \ loose', NEW o \in Appointments \ loose', b # o,
                       appts'[b].status \in Live, appts'[o].status \in Live, Together(b, o)',
                       NEW s \in appts'[b].session, NEW r \in appts'[o].session, s.date = r.date
                PROVE  s.iv.to <= r.iv.from \/ r.iv.to <= s.iv.from
    BY DEF NoDoubleSession
  <2>1. Same(b) /\ Same(o) /\ appts[b].status \in Live /\ appts[o].status \in Live
        /\ b \notin loose /\ o \notin loose
    BY <1>2
  <2>2. Together(b, o)
    BY <2>1 DEF Together
  <2>. QED
    BY <2>1, <2>2 DEF SessInv, NoDoubleSession
<1>7. Compared'
  <2>. SUFFICES ASSUME NEW x \in Editors, edits'[x].pc = "edit_write",
                       NEW d \in EditDate(x)', NEW iv \in edits'[x].iv,
                       NEW o \in Appointments \ (loose' \cup {edits'[x].b}),
                       appts'[o].status \in Live, Together(edits[x].b, o)',
                       NEW s \in appts'[o].session, s.date = d
                PROVE  Disjoint(iv, s.iv)
    BY DEF Compared, Disjoint, Together
  <2>0. /\ edits' = edits
        /\ \A b \in Appointments : appts[b].status # "ABSENT" => UNCHANGED appts[b].date
    OBVIOUS
  <2>1. Same(o) /\ appts[o].status \in Live /\ o \notin loose
    BY <1>2
  <2>2. /\ edits[x].b \in Appointments /\ appts[edits[x].b].status # "ABSENT"
        /\ UNCHANGED <<appts[edits[x].b].trainer, appts[edits[x].b].trainee,
                       appts[edits[x].b].date>>
    BY <2>0 DEF SessInv, EditsNamed
  <2>3. d \in EditDate(x) /\ Together(edits[x].b, o)
    BY <2>0, <2>1, <2>2 DEF EditDate, Together
  <2>. QED
    BY <2>0, <2>1, <2>3 DEF SessInv, Compared
<1>8. OfferCompared'
  <2>. SUFFICES ASSUME NEW p \in Proposals \ loose', NEW t \in offered'[p].terms,
                       NEW o \in Appointments \ (loose' \cup {offered'[p].b}),
                       appts'[o].status \in Live, Together(offered[p].b, o)',
                       NEW s \in appts'[o].session, s.date = t.date
                PROVE  Disjoint(t.iv, s.iv)
    BY DEF OfferCompared, Disjoint, Together
  <2>1. Same(o) /\ appts[o].status \in Live /\ o \notin loose
    BY <1>2
  <2>2. UNCHANGED <<appts[offered[p].b].trainer, appts[offered[p].b].trainee>>
    BY DEF SessInv, OffersNamed
  <2>3. Together(offered[p].b, o)
    BY <2>1, <2>2 DEF Together
  <2>. QED
    BY <2>1, <2>3 DEF SessInv, OfferCompared
<1>. QED
  BY <1>3, <1>4, <1>5, <1>6, <1>7, <1>8 DEF SessInv

\* A session is written, by an edit or an offer: if it is not set aside it was compared
\* with those that stand.
LEMMA SessionWritten ==
  ASSUME SessInv, SessTypeOK', NEW b \in Appointments, appts[b].status # "ABSENT",
         NEW d \in Dates, NEW S \in SUBSET Session, \A s \in S : s.date = d,
         UNCHANGED <<appts[b].trainer, appts[b].trainee>>,
         appts'[b].date = d, appts'[b].session = S, appts'[b].status # "ABSENT",
         \A o \in Appointments \ {b} : appts'[o] = appts[o],
         \A x \in Editors : edits'[x].pc = "idle",
         \A p \in Proposals : UNCHANGED <<offered[p].b, offered[p].terms>>,
         \/ loose' = (loose \cup {b}) \cup Overtaken(b, d)
         \/ /\ loose' = (loose \ {b}) \cup Overtaken(b, d)
            /\ \A o \in Appointments \ (loose \cup {b}) :
                  appts[o].status \in Live /\ Together(b, o) =>
                     \A s \in S, r \in appts[o].session : r.date = d => Disjoint(s.iv, r.iv)
  PROVE  SessInv'
<1>0. Overtaken(b, d) \subseteq Proposals /\ Appointments \cap Overtaken(b, d) = {}
  BY ProposalsAreNoBookings DEF Overtaken
<1>1. \A o \in Appointments \ {b} : o \notin loose' => o \notin loose
  OBVIOUS
<1>2. EditsNamed' /\ Compared'
  <2>1. \A y \in Editors : edits'[y].pc # "edit_write"
    OBVIOUS
  <2>. QED  BY <2>1 DEF EditsNamed, Compared
<1>3. OffersNamed'
  BY DEF SessInv, OffersNamed
<1>4. SessionOnDate'
  BY <1>1 DEF SessInv, SessionOnDate
<1>5. \A o, q \in Appointments : Together(o, q)' <=> Together(o, q)
  <2>1. \A o \in Appointments : UNCHANGED <<appts[o].trainer, appts[o].trainee>>
    OBVIOUS
  <2>. QED  BY <2>1 DEF Together
\* The booking against any other one.
<1>6. ASSUME NEW o \in Appointments \ loose', o # b, b \notin loose', appts[o].status \in Live,
             Together(b, o), NEW s \in S, NEW r \in appts[o].session, s.date = r.date
      PROVE  Disjoint(s.iv, r.iv)
  <2>1. o \notin loose
    BY <1>1, <1>6
  <2>2. b \notin loose \cup {b} \cup Overtaken(b, d) => FALSE
    OBVIOUS
  <2>3. /\ loose' # (loose \cup {b}) \cup Overtaken(b, d)
        /\ r.date = d
    BY <1>6
  <2>. QED  BY <1>6, <2>1, <2>3
<1>7. NoDoubleSession'
  <2>. SUFFICES ASSUME NEW p \in Appointments \ loose', NEW o \in Appointments \ loose', p # o,
                       appts'[p].status \in Live, appts'[o].status \in Live, Together(p, o)',
                       NEW s \in appts'[p].session, NEW r \in appts'[o].session, s.date = r.date
                PROVE  s.iv.to <= r.iv.from \/ r.iv.to <= s.iv.from
    BY DEF NoDoubleSession
  <2>1. Together(p, o) /\ Together(o, p)
    BY <1>5 DEF Together
  <2>2. CASE p = b
    BY <1>6, <2>1, <2>2 DEF Disjoint
  <2>3. CASE o = b
    BY <1>6, <2>1, <2>3 DEF Disjoint
  <2>4. CASE p # b /\ o # b
    BY <1>1, <2>1, <2>4 DEF SessInv, NoDoubleSession
  <2>. QED  BY <2>2, <2>3, <2>4
<1>8. OfferCompared'
  <2>. SUFFICES ASSUME NEW p \in Proposals \ loose', NEW t \in offered[p].terms,
                       NEW o \in Appointments \ (loose' \cup {offered[p].b}),
                       appts'[o].status \in Live, Together(offered[p].b, o)',
                       NEW s \in appts'[o].session, s.date = t.date
                PROVE  Disjoint(t.iv, s.iv)
    BY DEF OfferCompared, Disjoint, Together
  <2>1. p \notin loose /\ p \notin Overtaken(b, d) /\ offered[p].b \in Appointments
    BY ProposalsAreNoBookings DEF SessInv, OffersNamed
  <2>2. Together(offered[p].b, o)
    BY <1>5, <2>1
  <2>3. CASE o # b
    BY <1>1, <2>1, <2>2, <2>3 DEF SessInv, OfferCompared
  <2>4. CASE o = b
    <3>1. offered[p].b \in Appointments \ {b} /\ Together(b, offered[p].b) /\ t.date = d
      BY <2>1, <2>2, <2>4 DEF Together
    <3>. QED  BY <2>1, <3>1 DEF Overtaken
  <2>. QED  BY <2>3, <2>4
<1>. QED
  BY <1>2, <1>3, <1>4, <1>7, <1>8 DEF SessInv

\* A time the conflict check lets pass overlaps no live session that was compared.
LEMMA NoConflict ==
  ASSUME SessInv, NEW b \in Appointments, NEW d \in Dates, NEW iv \in Interval, ~Conflict(b, d, iv),
         NEW o \in Appointments \ (loose \cup {b}), appts[o].status \in Live, Together(b, o),
         NEW s \in appts[o].session, s.date = d
  PROVE  Disjoint(iv, s.iv)
<1>1. appts[o].date = d
  BY DEF SessInv, SessionOnDate
<1>2. ~Overlapping(iv, s.iv)
  BY <1>1 DEF Conflict
<1>3. s.iv \in Interval
  BY DEF SessInv, SessTypeOK, ApptRow, Session
<1>. QED  BY <1>2, <1>3, HoursIsCount DEF Overlapping, Disjoint, Interval

\* An edit that ends without a write.
LEMMA EditGone ==
  ASSUME SessInv, NEW x \in Editors, edits' = [edits EXCEPT ![x] = NoEdit],
         UNCHANGED <<appts, offered, loose>>
  PROVE  SessInv'
<1>0. edits \in [Editors -> Edit] /\ NoEdit \in Edit /\ NoEdit.pc = "idle"
  BY DEF SessInv, SessTypeOK, NoEdit, Edit
<1>1. \A y \in Editors : edits'[y] = IF y = x THEN NoEdit ELSE edits[y]
  BY <1>0
<1>2. SessTypeOK'
  BY <1>0 DEF SessInv, SessTypeOK
<1>3. EditsNamed'
  BY <1>0, <1>1 DEF SessInv, EditsNamed
<1>4. \A y \in Editors : y # x => EditDate(y)' = EditDate(y)
  BY <1>1 DEF EditDate
<1>5. Compared'
  <2>. SUFFICES ASSUME NEW y \in Editors, edits'[y].pc = "edit_write"
                PROVE  /\ y # x /\ edits'[y] = edits[y] /\ EditDate(y)' = EditDate(y)
    BY DEF SessInv, Compared, Together
  <2>. QED  BY <1>0, <1>1, <1>4
<1>. QED
  BY <1>2, <1>3, <1>5 DEF SessInv, OffersNamed, SessionOnDate, OfferCompared, NoDoubleSession,
                          Together

\* What the write of an edit leaves behind has its types.
LEMMA EditWriteTypes ==
  ASSUME SessTypeOK, NEW x \in Editors, EditWrite(x), edits[x].b \in Appointments
  PROVE  SessTypeOK'
<1>. DEFINE e == edits[x]
            a == appts[e.b]
<1>0. /\ appts \in [Appointments -> ApptRow] /\ edits \in [Editors -> Edit]
      /\ loose \subseteq Appointments \cup Proposals /\ NoEdit \in Edit
      /\ e \in Edit /\ e.b \in Appointments /\ a \in ApptRow
  BY DEF SessTypeOK, NoEdit, Edit
<1>1. PICK d \in EditDate(x), st \in IF e.status = {} THEN {a.status} ELSE e.status :
            /\ appts' = [appts EXCEPT ![e.b] =
                  [a EXCEPT !.date = d, !.status = st,
                            !.session = IF e.iv = {} THEN @
                                        ELSE {[date |-> d, iv |-> iv] : iv \in e.iv}]]
            /\ loose' = IF e.iv # {} THEN (loose \ {e.b}) \cup Overtaken(e.b, d)
                        ELSE IF d # a.date \/ (st \in Live /\ a.status \notin Live)
                        THEN loose \cup {e.b}
                        ELSE loose
  BY DEF EditWrite
<1>2. d \in Dates /\ st \in Statuses \cup {"ABSENT"}
  BY <1>0, <1>1 DEF EditDate, Edit, ApptRow
<1>. DEFINE session == IF e.iv = {} THEN a.session ELSE {[date |-> d, iv |-> iv] : iv \in e.iv}
            row == [a EXCEPT !.date = d, !.status = st, !.session = session]
<1>3. session \in SUBSET Session
  BY <1>0, <1>2 DEF ApptRow, Edit, Session
<1>4. appts' = [appts EXCEPT ![e.b] = row]
  BY <1>1
<1>5. loose' \subseteq Appointments \cup Proposals
  BY <1>0, <1>1 DEF Overtaken
<1>6. edits' = [edits EXCEPT ![x] = NoEdit] /\ offered' = offered
  BY DEF EditWrite
<1>. HIDE DEF e, a, session
<1>7. row \in ApptRow
  BY <1>0, <1>2, <1>3 DEF ApptRow
<1>. HIDE DEF row
<1>. QED  BY <1>0, <1>4, <1>5, <1>6, <1>7 DEF SessTypeOK

\* The write of an edit: with a new time, the one that was compared; without, a booking
\* whose date or status is new is set aside.
LEMMA EditWrites ==
  ASSUME SessInv, NEW x \in Editors, EditWrite(x)
  PROVE  SessInv'
<1>. DEFINE e == edits[x]
            a == appts[e.b]
<1>0. /\ appts \in [Appointments -> ApptRow] /\ edits \in [Editors -> Edit]
      /\ loose \subseteq Appointments \cup Proposals /\ NoEdit \in Edit /\ NoEdit.pc = "idle"
      /\ "ABSENT" \notin Statuses /\ "ABSENT" \notin Live
      /\ e \in Edit /\ e.pc = "edit_write" /\ e.b \in Appointments /\ a \in ApptRow
      /\ a.status # "ABSENT"
  BY StatusesKnown DEF SessInv, SessTypeOK, NoEdit, Edit, Live, EditWrite, EditAt, EditsNamed
<1>1. PICK d \in EditDate(x), st \in IF e.status = {} THEN {a.status} ELSE e.status :
        /\ appts' = [appts EXCEPT ![e.b] =
                [a EXCEPT !.date = d, !.status = st,
                          !.session = IF e.iv = {} THEN @
                                      ELSE {[date |-> d, iv |-> iv] : iv \in e.iv}]]
        /\ loose' = IF e.iv # {} THEN (loose \ {e.b}) \cup Overtaken(e.b, d)
                    ELSE IF d # a.date \/ (st \in Live /\ a.status \notin Live)
                    THEN loose \cup {e.b}
                    ELSE loose
  BY <1>0 DEF EditWrite
<1>2. edits' = [edits EXCEPT ![x] = NoEdit] /\ offered' = offered
  BY DEF EditWrite
<1>3. \A y \in Editors : edits'[y].pc = "idle"
  BY <1>0, <1>2 DEF SessInv, EditsNamed
<1>4. d \in Dates /\ st \in Statuses
  BY <1>0, <1>1 DEF EditDate, Edit, ApptRow
<1>5. /\ appts'[e.b].trainer = a.trainer /\ appts'[e.b].trainee = a.trainee
      /\ appts'[e.b].date = d /\ appts'[e.b].status = st
      /\ appts'[e.b].session = IF e.iv = {} THEN a.session
                               ELSE {[date |-> d, iv |-> iv] : iv \in e.iv}
      /\ \A o \in Appointments : o # e.b => appts'[o] = appts[o]
  BY <1>0, <1>1 DEF ApptRow
<1>6. SessTypeOK'
  BY <1>0, EditWriteTypes DEF SessInv
<1>7. CASE e.iv = {}
  <2>1. /\ loose \subseteq loose'
        /\ e.b \notin loose' => d = a.date /\ (st \in Live => a.status \in Live)
    BY <1>1, <1>7
  <2>. HIDE DEF e, a
  <2>2. \A b \in Appointments :
            /\ appts[b].status # "ABSENT" =>
                  /\ UNCHANGED <<appts[b].trainer, appts[b].trainee>>
                  /\ appts'[b].status # "ABSENT"
                  /\ b \notin loose' => /\ UNCHANGED appts[b].date
                                        /\ UNCHANGED appts[b].session
                                        /\ appts'[b].status \in Live => appts[b].status \in Live
            /\ appts[b].status = "ABSENT" => appts'[b] = appts[b]
    BY <1>0, <1>4, <1>5, <1>7, <2>1 DEF a
  <2>. QED  BY <1>2, <1>3, <1>6, <2>1, <2>2, RowsStep
<1>8. CASE e.iv # {}
  <2> DEFINE S == {[date |-> d, iv |-> iv] : iv \in e.iv}
  <2>1. S \in SUBSET Session /\ \A s \in S : s.date = d
    BY <1>0, <1>4 DEF Edit, Session
  <2>2. loose' = (loose \ {e.b}) \cup Overtaken(e.b, d)
    BY <1>1, <1>8
  <2>3. \A o \in Appointments \ (loose \cup {e.b}) :
                  appts[o].status \in Live /\ Together(e.b, o) =>
                     \A s \in S, r \in appts[o].session : r.date = d => Disjoint(s.iv, r.iv)
    BY <1>0, <1>1 DEF SessInv, Compared
  <2>4. appts'[e.b].session = S
    BY <1>5, <1>8
  <2>. HIDE DEF S, e
  <2>5. appts'[e.b].status # "ABSENT"
    BY <1>0, <1>4, <1>5
  <2>. QED  BY <1>0, <1>2, <1>3, <1>4, <1>5, <1>6, <2>1, <2>2, <2>3, <2>4, <2>5, SessionWritten
<1>. QED  BY <1>7, <1>8

\* What an offer that is accepted writes has its types.
LEMMA ApplyTypes ==
  ASSUME SessTypeOK, NEW p \in Proposals, NEW st \in Statuses \cup {"ABSENT"}, Apply(p, st),
         offered[p].terms # {} => offered[p].b \in Appointments
  PROVE  /\ appts' \in [Appointments -> ApptRow]
         /\ loose' \subseteq Appointments \cup Proposals
<1>. DEFINE b == offered[p].b
<1>1. PICK s \in offered[p].terms :
        /\ appts' = [appts EXCEPT ![b] = [@ EXCEPT !.date = s.date, !.session = {s}, !.status = st]]
        /\ loose' = (IF p \in loose THEN loose \cup {b} ELSE loose \ {b}) \cup Overtaken(b, s.date)
  BY DEF Apply
<1>2. b \in Appointments /\ s \in Session /\ s.date \in Dates
  BY <1>1 DEF SessTypeOK, ProposalRow, Session
<1>3. appts \in [Appointments -> ApptRow] /\ loose \subseteq Appointments \cup Proposals
  BY DEF SessTypeOK
<1>4. loose' \subseteq Appointments \cup Proposals
  BY <1>1, <1>2, <1>3 DEF Overtaken
<1>. HIDE DEF b
<1>5. [appts[b] EXCEPT !.date = s.date, !.session = {s}, !.status = st] \in ApptRow
  BY <1>2, <1>3 DEF ApptRow
<1>. QED  BY <1>1, <1>2, <1>3, <1>4, <1>5

\* An accepted offer writes the booking: with the time that was compared when it was sent,
\* or it is set aside.
LEMMA OfferWrites ==
  ASSUME SessInv, SessTypeOK', NEW p \in Proposals, NEW st \in Statuses, Apply(p, st),
         \A q \in Proposals : UNCHANGED <<offered[q].b, offered[q].terms>>,
         \A x \in Editors : edits'[x].pc = "idle"
  PROVE  SessInv'
<1>0. /\ appts \in [Appointments -> ApptRow] /\ st # "ABSENT"
      /\ offered[p] \in ProposalRow
  BY StatusesKnown DEF SessInv, SessTypeOK
<1>1. PICK b \in Appointments, s \in offered[p].terms :
        /\ b = offered[p].b /\ appts[b].status # "ABSENT"
        /\ appts' = [appts EXCEPT ![b] = [@ EXCEPT !.date = s.date, !.session = {s}, !.status = st]]
        /\ loose' = (IF p \in loose THEN loose \cup {b} ELSE loose \ {b}) \cup Overtaken(b, s.date)
  BY DEF Apply, SessInv, OffersNamed
<1>2. PICK d \in Dates, S \in SUBSET Session : d = s.date /\ S = {s}
  BY <1>0, <1>1 DEF ProposalRow, Session
<1>3. /\ UNCHANGED <<appts[b].trainer, appts[b].trainee>>
      /\ appts'[b].date = d /\ appts'[b].session = S /\ appts'[b].status # "ABSENT"
      /\ \A o \in Appointments \ {b} : appts'[o] = appts[o]
  BY <1>0, <1>1, <1>2 DEF ApptRow
<1>4. \/ loose' = (loose \cup {b}) \cup Overtaken(b, d)
      \/ /\ loose' = (loose \ {b}) \cup Overtaken(b, d)
         /\ \A o \in Appointments \ (loose \cup {b}) :
               appts[o].status \in Live /\ Together(b, o) =>
                  \A t \in S, r \in appts[o].session : r.date = d => Disjoint(t.iv, r.iv)
  <2>1. CASE p \in loose
    BY <1>1, <1>2, <2>1
  <2>2. CASE p \notin loose
    <3>1. loose' = (loose \ {b}) \cup Overtaken(b, d)
      BY <1>1, <1>2, <2>2
    <3>. QED  BY <1>1, <1>2, <2>2, <3>1 DEF SessInv, OfferCompared
  <2>. QED  BY <2>1, <2>2
<1>5. \A t \in S : t.date = d
  BY <1>2
<1>6. b \in Appointments /\ appts[b].status # "ABSENT" /\ d \in Dates /\ S \in SUBSET Session
  BY <1>1, <1>2
<1>. QED  BY <1>3, <1>4, <1>5, <1>6, SessionWritten

\* A step of an offer that writes its booking or leaves it alone.
LEMMA OfferSteps ==
  ASSUME SessInv, NEW p \in Proposals, NEW st \in Statuses \cup {"ABSENT"},
         offered' \in [Proposals -> ProposalRow],
         \A q \in Proposals : UNCHANGED <<offered[q].b, offered[q].terms>>,
         UNCHANGED edits, \A x \in Editors : edits[x].pc = "idle",
         st = "ABSENT" /\ offered[p].terms # {} => appts[offered[p].b].status = "ABSENT",
         Apply(p, st) \/ UNCHANGED <<appts, loose>>
  PROVE  SessInv'
<1>1. CASE UNCHANGED <<appts, loose>>
  <2>1. SessTypeOK'
    BY <1>1 DEF SessInv, SessTypeOK
  <2>. QED  BY <1>1, <2>1, RowsStep
<1>2. CASE Apply(p, st)
  <2>1. offered[p].terms # {} /\ appts[offered[p].b].status # "ABSENT"
    BY <1>2 DEF Apply, SessInv, OffersNamed
  <2>2. st \in Statuses /\ offered[p].b \in Appointments
    BY <2>1 DEF SessInv, OffersNamed
  <2>3. SessTypeOK'
    BY <1>2, <2>2, ApplyTypes DEF SessInv, SessTypeOK
  <2>. QED  BY <1>2, <2>2, <2>3, OfferWrites
<1>. QED  BY <1>1, <1>2

\* Every step keeps it, when edits come one at a time.
LEMMA SessNextInv == ASSUME ~TwoEditors, SessInv, [SessNext]_sessVars PROVE SessInv'
<1>0. /\ appts \in [Appointments -> ApptRow] /\ edits \in [Editors -> Edit]
      /\ offered \in [Proposals -> ProposalRow]
      /\ loose \subseteq Appointments \cup Proposals /\ NoEdit \in Edit /\ NoEdit.pc = "idle"
      /\ "ABSENT" \notin Statuses /\ "ABSENT" \notin Live
  BY StatusesKnown DEF SessInv, SessTypeOK, NoEdit, Edit, Live
<1>1. ASSUME NEW t \in Trainers, NEW a \in Trainees, NEW d \in Dates, Book(t, a, d) PROVE SessInv'
  <2> DEFINE row == [status |-> "PENDING", trainer |-> t, trainee |-> a, date |-> d, session |-> {}]
  <2>1. /\ row \in ApptRow /\ row.session = {} /\ row.status = "PENDING"
        /\ row.trainer = t /\ row.trainee = a /\ row.date = d
    BY StatusesKnown DEF ApptRow
  <2>2. PICK b \in Appointments :
          /\ \/ appts[b].status = "ABSENT"
             \/ /\ appts[b].trainer = t /\ appts[b].trainee = a /\ appts[b].date = d
                /\ appts[b].status = "PENDING"
          /\ appts' = [appts EXCEPT ![b] = row]
    BY <1>1 DEF Book
  <2>3. UNCHANGED <<edits, offered, loose>>
    BY <1>1 DEF Book
  <2>. HIDE DEF row
  <2>4. SessTypeOK'
    BY <1>0, <2>1, <2>2, <2>3 DEF SessInv, SessTypeOK
  <2>5. appts'[b] = row /\ \A o \in Appointments : o # b => appts'[o] = appts[o]
    BY <1>0, <2>2
  <2>6. "PENDING" \in Live
    BY DEF Live
  <2>. QED  BY <2>1, <2>2, <2>3, <2>4, <2>5, <2>6, RowsStep
<1>2. ASSUME NEW x \in Editors, NEW b \in Appointments, NEW date \in SmallSubsets(Dates),
             NEW iv \in SmallSubsets(Interval), NEW status \in SmallSubsets(Statuses),
             EditBegin(x, b, date, iv, status)
      PROVE  SessInv'
  <2> DEFINE e == [pc |-> IF iv = {} THEN "edit_write" ELSE "edit_check",
                   b |-> b, date |-> date, iv |-> iv, status |-> status]
  <2>1. e \in Edit /\ e.b = b /\ (e.pc = "edit_write" => e.iv = {})
    BY DEF Edit, SmallSubsets
  <2>2. /\ edits' = [edits EXCEPT ![x] = e] /\ appts[b].status # "ABSENT"
        /\ \A y \in Editors : edits[y].pc = "idle"
        /\ UNCHANGED <<appts, offered, loose>>
    BY <1>2 DEF EditBegin, EditAt, MayBegin
  <2>. HIDE DEF e
  <2>3. \A y \in Editors : edits'[y] = IF y = x THEN e ELSE edits[y]
    BY <1>0, <2>2
  <2>4. SessTypeOK'
    BY <1>0, <2>1, <2>2 DEF SessInv, SessTypeOK
  <2>5. EditsNamed'
    BY <2>1, <2>2, <2>3 DEF EditsNamed
  <2>6. Compared'
    BY <2>1, <2>2, <2>3 DEF Compared
  <2>. QED
    BY <2>2, <2>4, <2>5, <2>6 DEF SessInv, OffersNamed, SessionOnDate, OfferCompared,
                                  NoDoubleSession, Together
<1>3. ASSUME NEW x \in Editors, EditCheck(x) PROVE SessInv'
  <2>0. /\ edits[x].pc = "edit_check" /\ edits[x].b \in Appointments
        /\ UNCHANGED <<appts, offered, loose>>
    BY <1>3 DEF EditCheck, EditAt, SessInv, EditsNamed
  <2>1. CASE \E d \in EditDate(x), iv \in edits[x].iv : Conflict(edits[x].b, d, iv)
    <3>1. edits' = [edits EXCEPT ![x] = NoEdit]
      BY <1>3, <2>1 DEF EditCheck
    <3>. QED  BY <1>0, <2>0, <3>1, EditGone
  <2>2. CASE ~\E d \in EditDate(x), iv \in edits[x].iv : Conflict(edits[x].b, d, iv)
    <3> DEFINE e == [edits[x] EXCEPT !.pc = "edit_write"]
    <3>1. /\ e \in Edit /\ e.b = edits[x].b /\ e.date = edits[x].date /\ e.iv = edits[x].iv
          /\ e.pc = "edit_write"
      BY <1>0 DEF Edit
    <3>2. edits' = [edits EXCEPT ![x] = e]
      BY <1>3, <2>2 DEF EditCheck
    <3>. HIDE DEF e
    <3>3. \A y \in Editors : edits'[y] = IF y = x THEN e ELSE edits[y]
      BY <1>0, <3>2
    <3>4. SessTypeOK'
      BY <1>0, <2>0, <3>1, <3>2 DEF SessInv, SessTypeOK
    <3>5. EditsNamed'
      BY <2>0, <3>1, <3>3 DEF SessInv, EditsNamed
    <3>6. \A y \in Editors : edits'[y].pc = "edit_write" => y = x
      BY <2>0, <3>1, <3>3 DEF SessInv, EditsNamed
    <3>7. EditDate(x)' = EditDate(x)
      BY <2>0, <3>1, <3>3 DEF EditDate
    <3>8. ASSUME NEW d \in EditDate(x), NEW iv \in edits[x].iv,
                 NEW o \in Appointments \ (loose \cup {edits[x].b}),
                 appts[o].status \in Live, Together(edits[x].b, o),
                 NEW s \in appts[o].session, s.date = d
          PROVE  Disjoint(iv, s.iv)
      <4>1. ~Conflict(edits[x].b, d, iv) /\ iv \in Interval /\ d \in Dates
        BY <1>0, <2>0, <2>2 DEF Edit, EditDate, ApptRow
      <4>. QED  BY <2>0, <3>8, <4>1, NoConflict
    <3>9. Compared'
      <4>. SUFFICES ASSUME NEW d \in EditDate(x), NEW iv \in edits[x].iv,
                           NEW o \in Appointments \ (loose \cup {edits[x].b}),
                           appts[o].status \in Live, Together(edits[x].b, o),
                           NEW s \in appts[o].session, s.date = d
                    PROVE  Disjoint(iv, s.iv)
        BY <2>0, <3>1, <3>3, <3>6, <3>7 DEF Compared, Together, Disjoint
      <4>. QED  BY <3>8
    <3>. QED
      BY <2>0, <3>4, <3>5, <3>9 DEF SessInv, OffersNamed, SessionOnDate, OfferCompared,
                                    NoDoubleSession, Together
  <2>. QED  BY <2>1, <2>2
<1>4. ASSUME NEW x \in Editors, EditWrite(x) PROVE SessInv'
  BY <1>4, EditWrites
<1>5. ASSUME NEW b \in Appointments, NEW st \in Statuses, SetStatus(b, st) PROVE SessInv'
  <2>1. /\ UNCHANGED <<edits, offered>> /\ loose \subseteq loose'
        /\ loose' \subseteq Appointments \cup Proposals
        /\ appts' = [appts EXCEPT ![b].status = st]
        /\ appts[b].status \in Statuses
        /\ st \in Live => appts[b].status \in Live \/ b \in loose'
    BY <1>0, <1>5 DEF SetStatus
  <2>2. SessTypeOK'
    BY <1>0, <2>1 DEF SessInv, SessTypeOK, ApptRow
  <2>3. \A o \in Appointments : o # b => appts'[o] = appts[o]
    BY <1>0, <2>1
  <2>4. /\ appts'[b].status = st
        /\ UNCHANGED <<appts[b].trainer, appts[b].trainee, appts[b].date, appts[b].session>>
    BY <1>0, <2>1 DEF ApptRow
  <2>. QED  BY <1>0, <2>1, <2>2, <2>3, <2>4, RowsStep
<1>6. ASSUME NEW p \in Proposals, NEW b \in Appointments, NEW date \in Dates, NEW iv \in Interval,
             Propose(p, b, date, iv)
      PROVE  SessInv'
  <2> DEFINE row == [status |-> "PENDING", b |-> b, paid |-> FALSE,
                     terms |-> {[date |-> date, iv |-> iv]}]
  <2>1. /\ row \in ProposalRow /\ row.b = b
        /\ \A t \in row.terms : t.date = date /\ t.iv = iv
    BY DEF ProposalRow, Session
  <2>2. /\ offered' = [offered EXCEPT ![p] = row] /\ UNCHANGED <<appts, edits, loose>>
        /\ appts[b].status # "ABSENT" /\ ~Conflict(b, date, iv)
    BY <1>6 DEF Propose
  <2>. HIDE DEF row
  <2>3. \A q \in Proposals : offered'[q] = IF q = p THEN row ELSE offered[q]
    BY <1>0, <2>2
  <2>4. SessTypeOK'
    BY <1>0, <2>1, <2>2 DEF SessInv, SessTypeOK
  <2>5. OffersNamed'
    BY <2>1, <2>2, <2>3 DEF SessInv, OffersNamed
  <2>6. OfferCompared'
    <3>. SUFFICES ASSUME NEW q \in Proposals \ loose, NEW t \in offered'[q].terms,
                         NEW o \in Appointments \ (loose \cup {offered'[q].b}),
                         appts[o].status \in Live, Together(offered[q].b, o)',
                         NEW s \in appts[o].session, s.date = t.date
                  PROVE  Disjoint(t.iv, s.iv)
      BY <2>2 DEF OfferCompared, Disjoint, Together
    <3>1. CASE q = p
      <4>1. offered'[q].b = b /\ t.date = date /\ t.iv = iv
        BY <2>1, <2>3, <3>1
      <4>2. Together(b, o)
        BY <2>2, <4>1 DEF Together
      <4>. QED  BY <2>2, <4>1, <4>2, NoConflict
    <3>2. CASE q # p
      <4>1. offered'[q] = offered[q] /\ Together(offered[q].b, o)
        BY <2>2, <2>3, <3>2 DEF Together
      <4>. QED  BY <4>1 DEF SessInv, OfferCompared
    <3>. QED  BY <3>1, <3>2
  <2>. QED
    BY <2>2, <2>4, <2>5, <2>6 DEF SessInv, EditsNamed, SessionOnDate, Compared, NoDoubleSession,
                                  EditDate, Together
<1>7. ASSUME NEW p \in Proposals, NEW status \in {"ACCEPTED", "PAYMENT_PENDING", "DECLINED"},
             NEW paid \in BOOLEAN, MayBegin, UNCHANGED edits,
             offered' = [offered EXCEPT ![p] = [@ EXCEPT !.status = status, !.paid = paid]],
             \/ Apply(p, appts[offered[p].b].status)
             \/ Apply(p, "CONFIRMED")
             \/ UNCHANGED <<appts, loose>>
      PROVE  SessInv'
  <2> DEFINE row == [offered[p] EXCEPT !.status = status, !.paid = paid]
  <2>1. row \in ProposalRow /\ row.b = offered[p].b /\ row.terms = offered[p].terms
    BY <1>0 DEF ProposalRow
  <2>2. offered' = [offered EXCEPT ![p] = row]
    BY <1>0, <1>7
  <2>. HIDE DEF row
  <2>3. /\ offered' \in [Proposals -> ProposalRow]
        /\ \A q \in Proposals : UNCHANGED <<offered[q].b, offered[q].terms>>
    BY <1>0, <2>1, <2>2
  <2>4. UNCHANGED edits /\ \A x \in Editors : edits[x].pc = "idle"
    BY <1>7 DEF MayBegin, EditAt
  <2>5. "CONFIRMED" \in Statuses /\ "CONFIRMED" # "ABSENT"
    BY StatusesKnown
  <2>6. CASE Apply(p, "CONFIRMED") \/ UNCHANGED <<appts, loose>>
    BY <2>3, <2>4, <2>5, <2>6, OfferSteps
  <2>7. CASE Apply(p, appts[offered[p].b].status)
    <3>1. offered[p].b \in Appointments
      BY <2>7 DEF Apply, SessInv, OffersNamed
    <3>2. appts[offered[p].b].status \in Statuses \cup {"ABSENT"}
      BY <1>0, <3>1 DEF ApptRow
    <3>. QED  BY <2>3, <2>4, <2>7, <3>2, OfferSteps
  <2>. QED  BY <1>7, <2>6, <2>7
<1>8. ASSUME NEW p \in Proposals,
             \/ AcceptProposal(p, "ACCEPTED") \/ AcceptProposal(p, "PAYMENT_PENDING")
             \/ DeclineProposal(p) \/ ProposalCapturable(p) \/ ProposalSucceeded(p)
      PROVE  SessInv'
  <2>0. offered[p] \in ProposalRow
    BY <1>0
  <2>1. CASE AcceptProposal(p, "ACCEPTED") \/ AcceptProposal(p, "PAYMENT_PENDING")
    BY <1>7, <2>1 DEF AcceptProposal
  <2>2. CASE DeclineProposal(p)
    <3>1. offered' = [offered EXCEPT ![p] = [@ EXCEPT !.status = "DECLINED",
                                                     !.paid = offered[p].paid]]
      BY <1>0, <2>0, <2>2 DEF DeclineProposal, ProposalRow
    <3>. QED  BY <1>7, <2>0, <2>2, <3>1 DEF DeclineProposal, ProposalRow
  <2>3. CASE ProposalCapturable(p) \/ ProposalSucceeded(p)
    <3>1. offered' = [offered EXCEPT ![p] = [@ EXCEPT !.status = "ACCEPTED",
                                                     !.paid = offered[p].paid]]
      BY <1>0, <2>0, <2>3 DEF ProposalCapturable, ProposalSucceeded, ProposalRow
    <3>. QED  BY <1>7, <2>0, <2>3, <3>1 DEF ProposalCapturable, ProposalSucceeded, ProposalRow
  <2>. QED  BY <1>8, <2>1, <2>2, <2>3
<1>9. CASE UNCHANGED sessVars
  <2>1. UNCHANGED <<appts, edits, offered, loose>>
    BY <1>9 DEF sessVars
  <2>2. SessTypeOK' /\ EditsNamed' /\ OffersNamed' /\ SessionOnDate'
    BY <2>1 DEF SessInv, SessTypeOK, EditsNamed, OffersNamed, SessionOnDate
  <2>3. Compared' /\ OfferCompared' /\ NoDoubleSession'
    BY <2>1 DEF SessInv, Compared, OfferCompared, NoDoubleSession, EditDate, Together
  <2>. QED  BY <2>2, <2>3 DEF SessInv
<1>. QED
  BY <1>1, <1>2, <1>3, <1>4, <1>5, <1>6, <1>8, <1>9 DEF SessNext

\* Neither a coach nor an athlete is in two live sessions at one time whose times were
\* compared, for any number of bookings and offers, as long as updateBooking's check and
\* write are not interleaved with those of another edit or with an offer; bookings may be
\* made and change their status in between.
THEOREM NobodyInTwoSessions == ASSUME ~TwoEditors PROVE SessSpec => []NoDoubleSession
<1>1. SessInv => NoDoubleSession
  BY DEF SessInv
<1>2. SessInv /\ [SessNext]_sessVars => SessInv'
  BY SessNextInv
<1>. QED
  BY <1>1, <1>2, SessInitInv, PTL DEF SessSpec

-----------------------------------------------------------------------------
(* Packages: what was paid for is what the package was at one moment.      *)

\* What a booking is for was what its package was for at one moment; its charge is
\* for that price; and a confirmed booking has a charge that was held.
Agreed(b) ==
    /\ sold[b].bundle # NoKey => sold[b].terms \in was.ever[sold[b].bundle]
    /\ sold[b].charge # NoKey => charges[sold[b].charge].amount = sold[b].terms.price
    /\ sold[b].state = "CONFIRMED" =>
          sold[b].charge # NoKey /\ charges[sold[b].charge].state # "open"

KeysInv ==
    /\ \A k \in DOMAIN packages : packages[k] \in was.ever[k]
    /\ was.odd \subseteq was.used /\ DOMAIN sold \subseteq was.used
    /\ \A c \in DOMAIN charges : charges[c].event # "none" => charges[c].state # "open"
    /\ \A b \in DOMAIN sold : sold[b].charge \in DOMAIN charges \cup {NoKey}

\* A call l that nobody met is the only one at its row, and the row is as it wrote it.
BuyFits(l, x) ==
    l.pc # "idle" =>
        /\ l.bundle # NoKey => l.terms \in was.ever[l.bundle]
        /\ l.b \in was.used \cup {NoKey}
        /\ l.pc # "buy_write" => l.b # NoKey
        /\ l.c \in DOMAIN charges \cup {NoKey}
        /\ l.pc = "buy_link" => l.c \in DOMAIN charges /\ charges[l.c].amount = l.terms.price
        /\ ~l.alone => l.b \in was.odd
        /\ l.alone /\ l.b # NoKey =>
              /\ \A y \in Buyers : buying[y].pc # "idle" /\ buying[y].b = l.b => y = x
              /\ l.b \in DOMAIN sold =>
                    /\ sold[l.b].state = "PENDING"
                    /\ l.pc # "buy_write" => sold[l.b].terms = l.terms /\ sold[l.b].bundle = l.bundle

BuysInv == \A x \in Buyers : BuyFits(buying[x], x)

\* Nobody is about to write the charge of a row.
Settled(b) == \A x \in Buyers : buying[x].b = b /\ buying[x].pc # "idle" => buying[x].pc = "buy_write"

AgreedInv == \A b \in DOMAIN sold \ was.odd : Settled(b) => Agreed(b)

PackInv == PackTypeOK /\ KeysInv /\ BuysInv /\ AgreedInv

\* Before the first purchase the invariant of the packages holds.
LEMMA PackStarts == PackInit => PackInv
<1>. SUFFICES ASSUME PackInit PROVE PackInv
  OBVIOUS
<1>1. DOMAIN packages = {} /\ DOMAIN sold = {} /\ DOMAIN charges = {}
  BY DEF PackInit
<1>2. /\ packages \in [DOMAIN packages -> PackageTerms] /\ sold \in [DOMAIN sold -> SoldRow]
      /\ charges \in [DOMAIN charges -> Charge]
  BY <1>1 DEF PackInit
<1>3. NoBuy \in Buy /\ NoBuy.pc = "idle"
  BY DEF NoBuy, Buy, Terms
<1>4. PackTypeOK
  BY <1>1, <1>2, <1>3 DEF PackInit, PackTypeOK
<1>5. KeysInv
  BY <1>1 DEF PackInit, KeysInv
<1>6. BuysInv
  BY <1>3 DEF PackInit, BuysInv, BuyFits
<1>7. AgreedInv
  BY <1>1 DEF AgreedInv
<1>. QED  BY <1>4, <1>5, <1>6, <1>7 DEF PackInv

\* A coach makes or changes a package: nothing that was booked is touched.
LEMMA CoachSets ==
  ASSUME PackInv, NEW k \in Bundles, NEW t \in PackageTerms, CreatePackage(k, t) \/ UpdatePackage(k, t)
  PROVE  PackInv'
<1>0. /\ DOMAIN packages \subseteq Bundles /\ packages \in [DOMAIN packages -> PackageTerms]
      /\ was \in [ever : [Bundles -> SUBSET PackageTerms], used : SUBSET SoldRows,
                  odd : SUBSET SoldRows]
  BY DEF PackInv, PackTypeOK
<1>1. /\ DOMAIN packages' = DOMAIN packages \cup {k}
      /\ \A j \in DOMAIN packages' : packages'[j] = IF j = k THEN t ELSE packages[j]
      /\ packages' \in [DOMAIN packages' -> PackageTerms]
  BY <1>0 DEF CreatePackage, UpdatePackage, Insert
<1>2. UNCHANGED <<sold, charges, buying>>
  BY DEF CreatePackage, UpdatePackage
<1>3. /\ was'.used = was.used /\ was'.odd = was.odd
      /\ was'.ever \in [Bundles -> SUBSET PackageTerms]
      /\ \A j \in Bundles : was.ever[j] \subseteq was'.ever[j]
      /\ t \in was'.ever[k]
      /\ was' \in [ever : [Bundles -> SUBSET PackageTerms], used : SUBSET SoldRows,
                   odd : SUBSET SoldRows]
  BY <1>0 DEF CreatePackage, UpdatePackage
<1>4. PackTypeOK'
  BY <1>0, <1>1, <1>2, <1>3 DEF PackInv, PackTypeOK
<1>5. KeysInv'
  BY <1>0, <1>1, <1>2, <1>3 DEF PackInv, KeysInv
<1>6. /\ \A b \in DOMAIN sold : sold[b].bundle \in Bundles \cup {NoKey}
      /\ \A x \in Buyers : buying[x].bundle \in Bundles \cup {NoKey}
  BY DEF PackInv, PackTypeOK, SoldRow, Buy
<1>7. BuysInv'
  BY <1>2, <1>3, <1>6 DEF PackInv, BuysInv, BuyFits
<1>8. AgreedInv'
  BY <1>2, <1>3, <1>6 DEF PackInv, AgreedInv, Settled, Agreed
<1>. QED  BY <1>4, <1>5, <1>7, <1>8 DEF PackInv

\* The bookings of a package go with it.
LEMMA CoachDeletes == ASSUME PackInv, NEW k \in Bundles, DeletePackage(k) PROVE PackInv'
<1>1. /\ DOMAIN packages' \subseteq DOMAIN packages
      /\ packages' = [j \in DOMAIN packages' |-> packages[j]]
      /\ DOMAIN sold' \subseteq DOMAIN sold /\ sold' = [b \in DOMAIN sold' |-> sold[b]]
      /\ UNCHANGED <<charges, buying, was>>
  BY DEF DeletePackage, Without
<1>2. PackTypeOK'
  BY <1>1 DEF PackInv, PackTypeOK
<1>3. KeysInv'
  BY <1>1 DEF PackInv, KeysInv
<1>4. BuysInv'
  BY <1>1 DEF PackInv, BuysInv, BuyFits
<1>5. AgreedInv'
  BY <1>1 DEF PackInv, AgreedInv, Settled, Agreed
<1>. QED  BY <1>2, <1>3, <1>4, <1>5 DEF PackInv

\* A call reads the package and the row, and whoever is at that row is not alone.
LEMMA BuyReads ==
  ASSUME PackInv, NEW x \in Buyers, NEW k \in Bundles \cup {NoKey},
         NEW b \in DOMAIN sold \cup {NoKey}, BuyRead(x, k, b)
  PROVE  PackInv'
<1>. USE NoKeyIsNoKey
<1>0. /\ buying \in [Buyers -> Buy] /\ DOMAIN packages \subseteq Bundles /\ DOMAIN sold \subseteq SoldRows
      /\ packages \in [DOMAIN packages -> PackageTerms] /\ sold \in [DOMAIN sold -> SoldRow]
      /\ was \in [ever : [Bundles -> SUBSET PackageTerms], used : SUBSET SoldRows,
                  odd : SUBSET SoldRows]
      /\ UNCHANGED <<packages, sold, charges>> /\ buying[x].pc = "idle"
      /\ k # NoKey => k \in DOMAIN packages
      /\ b # NoKey => b \in DOMAIN sold /\ sold[b].state = "PENDING"
  BY DEF PackInv, PackTypeOK, BuyRead, BuyAt
<1> DEFINE t == IF k = NoKey THEN Single ELSE packages[k]
           l == [NoBuy EXCEPT !.pc = "buy_write", !.bundle = k, !.b = b,
                              !.alone = Buying(b) = {}, !.terms = t]
<1>1. t \in Terms /\ (k # NoKey => t \in was.ever[k])
  BY <1>0 DEF Terms, PackInv, KeysInv
<1>. HIDE DEF t
<1>2. /\ l \in Buy /\ l.pc = "buy_write" /\ l.bundle = k /\ l.b = b /\ l.terms = t /\ l.c = NoKey
      /\ l.alone <=> Buying(b) = {}
  <2> DEFINE a == Buying(b) = {}
  <2>1. a \in BOOLEAN /\ l = [NoBuy EXCEPT !.pc = "buy_write", !.bundle = k, !.b = b,
                                           !.alone = a, !.terms = t]
    OBVIOUS
  <2>. HIDE DEF a, l
  <2>2. /\ l \in Buy /\ l.pc = "buy_write" /\ l.bundle = k /\ l.b = b /\ l.terms = t
        /\ l.c = NoKey /\ l.alone = a
    BY <1>0, <1>1, <2>1 DEF NoBuy, Buy
  <2>. QED  BY <2>2 DEF a
<1>3. /\ was'.ever = was.ever /\ was'.used = was.used
      /\ was'.odd = was.odd \cup {c \in {b} : Buying(c) # {}}
      /\ was' \in [ever : [Bundles -> SUBSET PackageTerms], used : SUBSET SoldRows,
                   odd : SUBSET SoldRows]
  BY <1>0 DEF BuyRead, Buying
<1>4. \A y \in Buyers : /\ MetAt(b)[y] \in Buy
                        /\ MetAt(b)[y].pc = buying[y].pc /\ MetAt(b)[y].bundle = buying[y].bundle
                        /\ MetAt(b)[y].terms = buying[y].terms /\ MetAt(b)[y].b = buying[y].b
                        /\ MetAt(b)[y].c = buying[y].c
                        /\ MetAt(b)[y].alone <=> buying[y].alone /\ y \notin Buying(b)
  <2>. SUFFICES ASSUME NEW y \in Buyers
                PROVE  /\ MetAt(b)[y] \in Buy
                       /\ MetAt(b)[y].pc = buying[y].pc /\ MetAt(b)[y].bundle = buying[y].bundle
                       /\ MetAt(b)[y].terms = buying[y].terms /\ MetAt(b)[y].b = buying[y].b
                       /\ MetAt(b)[y].c = buying[y].c
                       /\ MetAt(b)[y].alone <=> buying[y].alone /\ y \notin Buying(b)
    OBVIOUS
  <2> DEFINE a == buying[y].alone /\ y \notin Buying(b)
  <2>1. MetAt(b)[y] = [buying[y] EXCEPT !.alone = a]
    BY DEF MetAt
  <2>2. a \in BOOLEAN
    OBVIOUS
  <2>. HIDE DEF a
  <2>3. /\ MetAt(b)[y] \in Buy
        /\ MetAt(b)[y].pc = buying[y].pc /\ MetAt(b)[y].bundle = buying[y].bundle
        /\ MetAt(b)[y].terms = buying[y].terms /\ MetAt(b)[y].b = buying[y].b
        /\ MetAt(b)[y].c = buying[y].c /\ MetAt(b)[y].alone = a
    BY <1>0, <2>1, <2>2 DEF Buy
  <2>. QED  BY <2>3 DEF a
<1>5. /\ buying' = [MetAt(b) EXCEPT ![x] = l]
      /\ MetAt(b) \in [Buyers -> Buy]
  BY <1>4 DEF BuyRead, t, MetAt
<1>. HIDE DEF l
<1>6. /\ buying' \in [Buyers -> Buy] /\ buying'[x] = l
      /\ \A y \in Buyers : y # x => buying'[y] = MetAt(b)[y]
  BY <1>2, <1>5
<1>7. PackTypeOK'
  BY <1>0, <1>3, <1>6 DEF PackInv, PackTypeOK
<1>8. KeysInv'
  BY <1>0, <1>3 DEF PackInv, KeysInv
<1>9. Buying(b) = {y \in Buyers : b # NoKey /\ buying[y].pc # "idle" /\ buying[y].b = b}
  BY DEF Buying, BuyAt
<1>10. BuyFits(buying[x], x)'
  <2>1. b \in was'.used \cup {NoKey}
    BY <1>0, <1>3 DEF PackInv, KeysInv
  <2>2. ~l.alone => b \in was'.odd
    BY <1>2, <1>3
  <2>3. ASSUME l.alone, b # NoKey, NEW y \in Buyers, buying'[y].pc # "idle", buying'[y].b = b
        PROVE  y = x
    <3>1. Buying(b) = {}
      BY <1>2, <2>3
    <3>. QED  BY <1>4, <1>6, <1>9, <2>3, <3>1
  <2>. QED  BY <1>0, <1>1, <1>2, <1>3, <1>6, <2>1, <2>2, <2>3 DEF BuyFits
<1>11. ASSUME NEW y \in Buyers, y # x PROVE BuyFits(buying[y], y)'
  <2>1. BuyFits(buying[y], y)
    BY DEF PackInv, BuysInv
  <2>2. /\ buying'[y].pc = buying[y].pc /\ buying'[y].bundle = buying[y].bundle
        /\ buying'[y].terms = buying[y].terms /\ buying'[y].b = buying[y].b
        /\ buying'[y].c = buying[y].c
        /\ buying'[y].alone <=> buying[y].alone /\ y \notin Buying(b)
    BY <1>4, <1>6, <1>11
  <2>3. buying[y].pc # "idle" /\ ~buying'[y].alone => buying'[y].b \in was'.odd
    BY <1>3, <1>9, <2>1, <2>2 DEF BuyFits
  <2>4. ASSUME buying[y].pc # "idle", buying'[y].alone, buying[y].b # NoKey,
               NEW z \in Buyers, buying'[z].pc # "idle", buying'[z].b = buying[y].b
        PROVE  z = y
    <3>1. z # x
      BY <1>2, <1>6, <1>9, <2>2, <2>4
    <3>2. buying[z].pc # "idle" /\ buying[z].b = buying[y].b
      BY <1>4, <1>6, <2>4, <3>1
    <3>. QED  BY <2>1, <2>2, <2>4, <3>2 DEF BuyFits
  <2>. QED  BY <1>0, <1>3, <2>1, <2>2, <2>3, <2>4 DEF BuyFits
<1>12. BuysInv'
  BY <1>10, <1>11 DEF BuysInv
<1>13. ASSUME NEW c \in DOMAIN sold, c \notin was'.odd, Settled(c)' PROVE Agreed(c)'
  <2>1. Settled(c)
    <3>. SUFFICES ASSUME NEW y \in Buyers, buying[y].b = c, buying[y].pc # "idle"
                  PROVE  buying[y].pc = "buy_write"
      BY DEF Settled
    <3>1. y # x
      BY <1>0
    <3>. QED  BY <1>4, <1>6, <1>13, <3>1 DEF Settled
  <2>2. Agreed(c)
    BY <1>3, <1>13, <2>1 DEF PackInv, AgreedInv
  <2>. QED  BY <1>0, <1>3, <2>2 DEF Agreed
<1>14. AgreedInv'
  BY <1>0, <1>13 DEF AgreedInv
<1>. QED  BY <1>7, <1>8, <1>12, <1>14 DEF PackInv

\* A step of one call, that leaves alone the rows at which others are alone.
LEMMA BuyerMoves ==
  ASSUME PackInv, NEW x \in Buyers, BuyFits(buying[x], x)',
         \A y \in Buyers : y # x => buying'[y] = buying[y],
         was'.ever = was.ever, was.used \subseteq was'.used, DOMAIN charges \subseteq DOMAIN charges',
         \A c \in DOMAIN charges : charges'[c].amount = charges[c].amount,
         \A y \in Buyers :
            y # x /\ buying[y].pc # "idle" /\ buying[y].b # NoKey =>
                /\ ~buying[y].alone => buying[y].b \in was'.odd
                /\ buying[y].alone =>
                      /\ buying'[x].pc # "idle" => buying'[x].b # buying[y].b
                      /\ buying[y].b \in DOMAIN sold' =>
                            buying[y].b \in DOMAIN sold /\ sold'[buying[y].b] = sold[buying[y].b]
  PROVE  BuysInv'
<1>1. NoKey \notin was.odd
  BY NoKeyIsNoKey DEF PackInv, PackTypeOK
<1>. SUFFICES ASSUME NEW y \in Buyers, y # x PROVE BuyFits(buying[y], y)'
  BY DEF BuysInv
<1>2. BuyFits(buying[y], y) /\ buying'[y] = buying[y]
  BY DEF PackInv, BuysInv
<1>3. ASSUME buying[y].pc # "idle", buying[y].alone, buying[y].b # NoKey,
             NEW z \in Buyers, buying'[z].pc # "idle", buying'[z].b = buying[y].b
      PROVE  z = y
  BY <1>2, <1>3 DEF BuyFits
<1>. QED  BY <1>1, <1>2, <1>3 DEF BuyFits

\* The facts about the state that every step of a call starts from.
LEMMA PackShape ==
  ASSUME PackInv
  PROVE  /\ DOMAIN packages \subseteq Bundles /\ packages \in [DOMAIN packages -> PackageTerms]
         /\ DOMAIN sold \subseteq SoldRows /\ sold \in [DOMAIN sold -> SoldRow]
         /\ DOMAIN charges \subseteq Charges /\ charges \in [DOMAIN charges -> Charge]
         /\ buying \in [Buyers -> Buy]
         /\ was \in [ever : [Bundles -> SUBSET PackageTerms], used : SUBSET SoldRows,
                     odd : SUBSET SoldRows]
         /\ NoKey \notin SoldRows /\ NoKey \notin Charges /\ NoKey \notin Bundles
         /\ \A x \in Buyers : BuyFits(buying[x], x)
  BY NoKeyIsNoKey DEF PackInv, PackTypeOK, BuysInv

\* What the end of a purchase changes: that call only.
LEMMA BuyEndsAt ==
  ASSUME PackInv, NEW x \in Buyers, BuyEnds(x)
  PROVE  /\ buying' \in [Buyers -> Buy] /\ buying'[x].pc = "idle"
         /\ \A y \in Buyers : y # x => buying'[y] = buying[y]
<1>1. NoBuy \in Buy /\ NoBuy.pc = "idle"
  BY DEF NoBuy, Buy, Terms
<1>. QED  BY <1>1, PackShape DEF BuyEnds

\* The row or the package is gone.
LEMMA BuyFailsStep == ASSUME PackInv, NEW x \in Buyers, BuyFails(x) PROVE PackInv'
<1>1. /\ UNCHANGED <<packages, sold, charges, was>> /\ buying[x].pc = "buy_write"
      /\ buying' \in [Buyers -> Buy] /\ buying'[x].pc = "idle"
      /\ \A y \in Buyers : y # x => buying'[y] = buying[y]
  BY BuyEndsAt DEF BuyFails, BuyAt
<1>2. PackTypeOK' /\ KeysInv'
  BY <1>1 DEF PackInv, PackTypeOK, KeysInv
<1>3. BuyFits(buying[x], x)'
  BY <1>1 DEF BuyFits
<1>4. BuysInv'
  BY <1>1, <1>3, PackShape, BuyerMoves DEF BuyFits
<1>5. \A b : Settled(b)' => Settled(b)
  BY <1>1 DEF Settled
<1>6. AgreedInv'
  BY <1>1, <1>5 DEF PackInv, AgreedInv, Agreed
<1>. QED  BY <1>2, <1>4, <1>6 DEF PackInv

\* The row is written, with the package and its terms as they were read.
LEMMA BuyWrites == ASSUME PackInv, NEW x \in Buyers, BuyWrite(x) PROVE PackInv'
<1>0. buying[x] \in Buy /\ buying[x].pc = "buy_write" /\ UNCHANGED <<packages, charges>>
  BY PackShape DEF BuyWrite, BuyAt
<1>1. PICK b \in SoldRows :
        /\ IF buying[x].b = NoKey THEN b \notin was.used ELSE b \in DOMAIN sold \cap {buying[x].b}
        /\ sold' = Insert(sold, b,
              [bundle |-> buying[x].bundle, terms |-> buying[x].terms, state |-> "PENDING",
               charge |-> IF b \in DOMAIN sold THEN sold[b].charge ELSE NoKey])
        /\ buying' = [buying EXCEPT ![x].b = b, ![x].pc = "buy_release",
                                    ![x].c = IF b \in DOMAIN sold THEN sold[b].charge ELSE NoKey]
        /\ was' = [was EXCEPT !.used = @ \cup {b}]
  BY DEF BuyWrite
<1> DEFINE c == IF b \in DOMAIN sold THEN sold[b].charge ELSE NoKey
           row == [bundle |-> buying[x].bundle, terms |-> buying[x].terms, state |-> "PENDING",
                   charge |-> c]
           l == [buying[x] EXCEPT !.b = b, !.pc = "buy_release", !.c = c]
<1>2. c \in DOMAIN charges \cup {NoKey} /\ c \in Charges \cup {NoKey}
  BY PackShape DEF PackInv, KeysInv
<1>3. sold' = Insert(sold, b, row) /\ buying' = [buying EXCEPT ![x] = l]
  BY <1>1, PackShape
<1>. HIDE DEF c
<1>4. /\ row \in SoldRow /\ row.bundle = buying[x].bundle /\ row.terms = buying[x].terms
      /\ row.state = "PENDING" /\ row.charge = c
  BY <1>0, <1>2, TermsAreNat DEF SoldRow, Buy, Terms
<1>5. /\ l \in Buy /\ l.pc = "buy_release" /\ l.bundle = buying[x].bundle
      /\ l.terms = buying[x].terms /\ l.b = b /\ l.c = c /\ l.alone = buying[x].alone
  BY <1>0, <1>2 DEF Buy
<1>. HIDE DEF row, l
<1>6. /\ DOMAIN sold' = DOMAIN sold \cup {b} /\ sold'[b] = row
      /\ \A d \in DOMAIN sold : d # b => sold'[d] = sold[d]
      /\ sold' \in [DOMAIN sold' -> SoldRow]
  BY <1>3, <1>4, PackShape DEF Insert
<1>7. /\ buying' \in [Buyers -> Buy] /\ buying'[x] = l
      /\ \A y \in Buyers : y # x => buying'[y] = buying[y]
  BY <1>3, <1>5, PackShape
<1>8. /\ was'.ever = was.ever /\ was'.used = was.used \cup {b} /\ was'.odd = was.odd
      /\ was' \in [ever : [Bundles -> SUBSET PackageTerms], used : SUBSET SoldRows,
                   odd : SUBSET SoldRows]
  BY <1>1, PackShape
<1>9. PackTypeOK'
  BY <1>0, <1>6, <1>7, <1>8, PackShape DEF PackTypeOK
<1>10. KeysInv'
  BY <1>0, <1>2, <1>4, <1>6, <1>8 DEF PackInv, KeysInv
<1>11. ASSUME NEW y \in Buyers, y # x, buying[y].pc # "idle", buying[y].b # NoKey
       PROVE  /\ ~buying[y].alone => buying[y].b \in was'.odd
              /\ buying[y].alone => buying[y].b # b
  <2>1. BuyFits(buying[y], y)
    BY PackShape
  <2>2. buying[y].b \in was.used
    BY <1>11, <2>1 DEF BuyFits
  <2>3. buying[y].b = b => buying[x].b = b
    BY <1>1, <2>2
  <2>. QED  BY <1>0, <1>8, <1>11, <2>1, <2>3 DEF BuyFits
<1>12. BuyFits(buying[x], x)'
  <2>1. BuyFits(buying[x], x)
    BY PackShape
  <2>2. ~l.alone => b \in was'.odd
    BY <1>0, <1>1, <1>5, <1>8, <2>1, PackShape DEF BuyFits
  <2>3. ASSUME l.alone, NEW y \in Buyers, buying'[y].pc # "idle", buying'[y].b = b PROVE y = x
    <3>1. CASE buying[x].b = NoKey
      BY <1>1, <1>7, <1>11, <2>3, <3>1, PackShape DEF BuyFits
    <3>2. CASE buying[x].b = b
      BY <1>0, <1>5, <1>7, <2>1, <2>3, <3>2, PackShape DEF BuyFits
    <3>. QED  BY <1>1, <3>1, <3>2
  <2>4. l.bundle # NoKey => l.terms \in was'.ever[l.bundle]
    BY <1>0, <1>5, <1>8, <2>1 DEF BuyFits
  <2>5. l.b # NoKey /\ l.b \in was'.used /\ l.c \in DOMAIN charges' \cup {NoKey}
    BY <1>0, <1>2, <1>5, <1>8, PackShape
  <2>6. /\ sold'[l.b].state = "PENDING" /\ sold'[l.b].terms = l.terms
        /\ sold'[l.b].bundle = l.bundle
    BY <1>4, <1>5, <1>6
  <2>. QED
    BY <1>5, <1>7, <2>2, <2>3, <2>4, <2>5, <2>6 DEF BuyFits
<1>13. BuysInv'
  BY <1>0, <1>5, <1>6, <1>7, <1>8, <1>11, <1>12, BuyerMoves
<1>14. ASSUME NEW d \in DOMAIN sold', d \notin was'.odd, Settled(d)' PROVE Agreed(d)'
  <2>1. d # b
    BY <1>5, <1>7, <1>14 DEF Settled
  <2>2. Settled(d)
    BY <1>0, <1>7, <1>14 DEF Settled
  <2>3. Agreed(d) /\ sold'[d] = sold[d]
    BY <1>6, <1>8, <1>14, <2>1, <2>2 DEF PackInv, AgreedInv
  <2>. QED  BY <1>0, <1>8, <2>3 DEF Agreed
<1>15. AgreedInv'
  BY <1>14 DEF AgreedInv
<1>. QED  BY <1>9, <1>10, <1>13, <1>15 DEF PackInv

\* Charges are only added, or change their state; what was not open never is.
ChargesGoOn ==
    /\ DOMAIN charges' \subseteq Charges /\ charges' \in [DOMAIN charges' -> Charge]
    /\ DOMAIN charges \subseteq DOMAIN charges'
    /\ \A c \in DOMAIN charges : /\ charges'[c].amount = charges[c].amount
                                 /\ charges[c].state # "open" => charges'[c].state # "open"
    /\ \A c \in DOMAIN charges' : charges'[c].event # "none" => charges'[c].state # "open"

\* The release of a hold leaves the other charges as they were.
LEMMA ReleaseGoesOn == ASSUME PackInv, NEW x \in Buyers, BuyRelease(x) PROVE ChargesGoOn
<1>1. PICK c \in DOMAIN charges \cup {NoKey} :
        /\ charges' \in {charges} \cup
               (IF c = NoKey THEN {} ELSE {[charges EXCEPT ![c].state = "canceled"]})
  BY PackShape DEF BuyRelease, BuyAt, BuyFits
<1>2. CASE charges' = charges
  BY <1>2, PackShape DEF ChargesGoOn, PackInv, KeysInv
<1>3. CASE c # NoKey /\ charges' = [charges EXCEPT ![c].state = "canceled"]
  <2>1. /\ c \in DOMAIN charges /\ DOMAIN charges' = DOMAIN charges
        /\ charges' \in [DOMAIN charges -> Charge]
    BY <1>3, PackShape DEF Charge
  <2>2. \A d \in DOMAIN charges : d # c => charges'[d] = charges[d]
    BY <1>3, <2>1
  <2>3. charges'[c].amount = charges[c].amount /\ charges'[c].state = "canceled"
    BY <1>3, <2>1, PackShape DEF Charge
  <2>. QED  BY <2>1, <2>2, <2>3, PackShape DEF ChargesGoOn, PackInv, KeysInv
<1>. QED  BY <1>1, <1>2, <1>3

\* So does a card that is held.
LEMMA HoldGoesOn == ASSUME PackInv, NEW c \in Charges, Hold(c) PROVE ChargesGoOn
<1>1. /\ c \in DOMAIN charges /\ DOMAIN charges' = DOMAIN charges
      /\ charges' \in [DOMAIN charges -> Charge]
      /\ \A d \in DOMAIN charges : d # c => charges'[d] = charges[d]
      /\ charges'[c].amount = charges[c].amount /\ charges'[c].state = "held"
  BY PackShape DEF Hold, Charge
<1>. QED  BY <1>1, PackShape DEF ChargesGoOn, PackInv, KeysInv

\* The old charge of the row is released, or Stripe refuses; a new one is made.
LEMMA BuyReleases ==
  ASSUME PackInv, NEW x \in Buyers, BuyRelease(x) \/ BuyPay(x) PROVE PackInv'
<1>0. /\ UNCHANGED <<packages, sold, was>> /\ buying[x] \in Buy
      /\ buying[x].pc \notin {"idle", "buy_write"} /\ BuyFits(buying[x], x)
  BY PackShape DEF BuyRelease, BuyPay, BuyAt
<1>1. PICK l \in Buy : /\ buying' = [buying EXCEPT ![x] = l] /\ ChargesGoOn
                       /\ l.pc \in {"buy_pay", "buy_link"}
                       /\ l.bundle = buying[x].bundle /\ l.terms = buying[x].terms
                       /\ l.b = buying[x].b /\ l.alone = buying[x].alone
                       /\ l.c \in DOMAIN charges' \cup {NoKey}
                       /\ l.pc = "buy_link" => /\ l.c \in DOMAIN charges'
                                               /\ charges'[l.c].amount = l.terms.price
  <2>1. CASE BuyRelease(x)
    <3> DEFINE l == [buying[x] EXCEPT !.pc = "buy_pay"]
    <3>1. /\ l \in Buy /\ l.pc = "buy_pay" /\ l.bundle = buying[x].bundle
          /\ l.terms = buying[x].terms /\ l.b = buying[x].b /\ l.alone = buying[x].alone
          /\ l.c = buying[x].c
      BY <1>0 DEF Buy
    <3>2. buying' = [buying EXCEPT ![x] = l] /\ ChargesGoOn
      BY <2>1, PackShape, ReleaseGoesOn DEF BuyRelease
    <3>. HIDE DEF l
    <3>3. l.c \in DOMAIN charges' \cup {NoKey}
      BY <1>0, <3>1, <3>2 DEF BuyFits, ChargesGoOn
    <3>. QED  BY <3>1, <3>2, <3>3
  <2>2. CASE BuyPay(x)
    <3>1. PICK c \in Charges \ DOMAIN charges :
             /\ charges' = Insert(charges, c, [amount |-> buying[x].terms.price, state |-> "open",
                                               secret |-> FALSE, event |-> "none"])
             /\ buying' = [buying EXCEPT ![x].c = c, ![x].pc = "buy_link"]
      BY <2>2 DEF BuyPay
    <3> DEFINE l == [buying[x] EXCEPT !.c = c, !.pc = "buy_link"]
               row == [amount |-> buying[x].terms.price, state |-> "open",
                       secret |-> FALSE, event |-> "none"]
    <3>2. /\ l \in Buy /\ l.pc = "buy_link" /\ l.bundle = buying[x].bundle
          /\ l.terms = buying[x].terms /\ l.b = buying[x].b /\ l.alone = buying[x].alone
          /\ l.c = c
      BY <1>0 DEF Buy
    <3>3. buying' = [buying EXCEPT ![x] = l] /\ charges' = Insert(charges, c, row)
      BY <3>1, PackShape
    <3>4. row \in Charge /\ row.amount = buying[x].terms.price /\ row.event = "none"
      BY <1>0, TermsAreNat DEF Charge, Buy, Terms
    <3>. HIDE DEF l, row
    <3>5. /\ DOMAIN charges' = DOMAIN charges \cup {c} /\ charges'[c] = row
          /\ \A d \in DOMAIN charges : charges'[d] = charges[d]
          /\ charges' \in [DOMAIN charges' -> Charge]
      BY <3>3, <3>4, PackShape DEF Insert
    <3>6. ChargesGoOn
      BY <3>4, <3>5, PackShape DEF ChargesGoOn, PackInv, KeysInv
    <3>. QED  BY <3>2, <3>3, <3>4, <3>5, <3>6
  <2>. QED  BY <2>1, <2>2
<1>2. /\ buying' \in [Buyers -> Buy] /\ buying'[x] = l
      /\ \A y \in Buyers : y # x => buying'[y] = buying[y]
  BY <1>1, PackShape
<1>3. PackTypeOK' /\ KeysInv'
  BY <1>0, <1>1, <1>2 DEF PackInv, PackTypeOK, KeysInv, ChargesGoOn
<1>4. BuyFits(buying[x], x)'
  BY <1>0, <1>1, <1>2 DEF BuyFits
<1>5. \A y \in Buyers : /\ buying'[y].pc # "idle" <=> buying[y].pc # "idle"
                        /\ buying'[y].b = buying[y].b
  BY <1>0, <1>1, <1>2
<1>6. BuysInv'
  BY <1>0, <1>1, <1>2, <1>4, <1>5, PackShape, BuyerMoves DEF BuyFits, ChargesGoOn
<1>7. \A b : Settled(b)' => Settled(b)
  BY <1>0, <1>1, <1>2, <1>5 DEF Settled
<1>8. AgreedInv'
  BY <1>0, <1>1, <1>7 DEF PackInv, KeysInv, AgreedInv, Agreed, ChargesGoOn
<1>. QED  BY <1>3, <1>6, <1>8 DEF PackInv

\* The client pays.
LEMMA HoldStep == ASSUME PackInv, NEW c \in Charges, Hold(c) PROVE PackInv'
<1>1. UNCHANGED <<packages, sold, buying, was>> /\ ChargesGoOn
  BY HoldGoesOn DEF Hold
<1>2. PackTypeOK' /\ KeysInv'
  BY <1>1 DEF PackInv, PackTypeOK, KeysInv, ChargesGoOn
<1>3. BuysInv'
  BY <1>1, PackShape DEF BuysInv, BuyFits, ChargesGoOn
<1>4. AgreedInv'
  BY <1>1 DEF PackInv, KeysInv, AgreedInv, Agreed, Settled, ChargesGoOn
<1>. QED  BY <1>2, <1>3, <1>4 DEF PackInv

\* The row gets its charge: its call was alone, and the row agrees with it, or the
\* row counts among those at which calls met.
LEMMA BuyLinks == ASSUME PackInv, NEW x \in Buyers, BuyLink(x) PROVE PackInv'
<1> DEFINE l == buying[x]
<1>0. /\ l \in Buy /\ l.pc = "buy_link" /\ BuyFits(l, x) /\ UNCHANGED packages
      /\ l.c \in DOMAIN charges /\ charges[l.c].amount = l.terms.price
      /\ l.b \in was.used /\ l.b # NoKey
  BY PackShape DEF BuyLink, BuyAt, BuyFits
<1>1. /\ buying' \in [Buyers -> Buy] /\ buying'[x].pc = "idle"
      /\ \A y \in Buyers : y # x => buying'[y] = buying[y]
  BY BuyEndsAt DEF BuyLink
<1>2. /\ was'.ever = was.ever /\ was'.used = was.used
      /\ was'.odd = IF l.alone THEN was.odd \ {l.b} ELSE was.odd
      /\ was' \in [ever : [Bundles -> SUBSET PackageTerms], used : SUBSET SoldRows,
                   odd : SUBSET SoldRows]
  BY PackShape DEF BuyLink
<1>3. /\ DOMAIN sold' = DOMAIN sold /\ sold' \in [DOMAIN sold -> SoldRow]
      /\ \A d \in DOMAIN sold : d # l.b => sold'[d] = sold[d]
      /\ l.b \in DOMAIN sold => /\ sold'[l.b].charge = l.c
                                /\ sold'[l.b].bundle = sold[l.b].bundle
                                /\ sold'[l.b].terms = sold[l.b].terms
                                /\ sold'[l.b].state = sold[l.b].state
  BY <1>0, PackShape DEF BuyLink, SoldRow
<1>4. /\ DOMAIN charges' = DOMAIN charges /\ charges' \in [DOMAIN charges -> Charge]
      /\ \A c \in DOMAIN charges : /\ charges'[c].amount = charges[c].amount
                                   /\ charges'[c].state = charges[c].state
                                   /\ charges'[c].event = charges[c].event
  <2>1. CASE charges' = charges
    BY <2>1, PackShape
  <2>2. CASE charges' = [charges EXCEPT ![l.c].secret = TRUE]
    <3> DEFINE row == [charges[l.c] EXCEPT !.secret = TRUE]
    <3>0. charges[l.c] \in Charge
      BY <1>0, PackShape
    <3>1. /\ row \in Charge /\ row.amount = charges[l.c].amount
          /\ row.state = charges[l.c].state /\ row.event = charges[l.c].event
      BY <3>0 DEF Charge
    <3>2. charges' = [charges EXCEPT ![l.c] = row]
      BY <2>2
    <3>. HIDE DEF row
    <3>. QED  BY <1>0, <3>1, <3>2, PackShape
  <2>. QED  BY <2>1, <2>2 DEF BuyLink
<1>. HIDE DEF l
<1>5. PackTypeOK'
  BY <1>0, <1>1, <1>2, <1>3, <1>4, PackShape DEF PackTypeOK
<1>6. \A b \in DOMAIN sold' : sold'[b].charge \in DOMAIN charges' \cup {NoKey}
  BY <1>0, <1>3, <1>4 DEF PackInv, KeysInv
<1>7. KeysInv'
  BY <1>0, <1>2, <1>3, <1>4, <1>6 DEF PackInv, KeysInv
<1>8. BuyFits(buying[x], x)'
  BY <1>1 DEF BuyFits
<1>9. ASSUME NEW y \in Buyers, y # x, buying[y].pc # "idle", buying[y].b # NoKey
      PROVE  /\ ~buying[y].alone => buying[y].b \in was'.odd
             /\ buying[y].alone => buying[y].b # l.b
  <2>1. BuyFits(buying[y], y)
    BY PackShape
  <2>2. l.alone => buying[y].b # l.b
    BY <1>0, <1>9 DEF BuyFits
  <2>. QED  BY <1>0, <1>2, <1>9, <2>1, <2>2 DEF BuyFits, l
<1>10. BuysInv'
  BY <1>1, <1>2, <1>3, <1>4, <1>8, <1>9, BuyerMoves
<1>11. ASSUME NEW b \in DOMAIN sold, b \notin was'.odd, Settled(b)' PROVE Agreed(b)'
  <2>1. CASE b = l.b
    <3>1. l.alone
      BY <1>0, <1>2, <1>11, <2>1 DEF BuyFits
    <3>2. sold[b].state = "PENDING" /\ sold[b].terms = l.terms /\ sold[b].bundle = l.bundle
      BY <1>0, <2>1, <3>1 DEF BuyFits
    <3>3. sold'[b].bundle # NoKey => sold'[b].terms \in was'.ever[sold'[b].bundle]
      BY <1>0, <1>2, <1>3, <2>1, <3>2 DEF BuyFits
    <3>4. charges'[sold'[b].charge].amount = sold'[b].terms.price /\ sold'[b].state = "PENDING"
      BY <1>0, <1>3, <1>4, <2>1, <3>2
    <3>. QED  BY <3>3, <3>4 DEF Agreed
  <2>2. CASE b # l.b
    <3>1. Settled(b)
      BY <1>1, <1>11, <2>2 DEF Settled, l
    <3>2. Agreed(b)
      BY <1>2, <1>11, <2>2, <3>1 DEF PackInv, AgreedInv
    <3>3. sold[b].charge \in DOMAIN charges \cup {NoKey}
      BY DEF PackInv, KeysInv
    <3>. QED  BY <1>2, <1>3, <1>4, <2>2, <3>2, <3>3 DEF Agreed
  <2>. QED  BY <2>1, <2>2
<1>12. AgreedInv'
  BY <1>3, <1>11 DEF AgreedInv
<1>. QED  BY <1>5, <1>7, <1>10, <1>12 DEF PackInv

\* The webhook confirms the rows of a charge that was held; a call that is at one
\* of them is not alone any more.
LEMMA ConfirmStep == ASSUME PackInv, NEW c \in Charges, Confirm(c) PROVE PackInv'
<1> DEFINE rows == {b \in DOMAIN sold : sold[b].charge = c}
<1>0. /\ c \in DOMAIN charges /\ charges[c].event = "sent" /\ charges[c].state # "open"
      /\ UNCHANGED packages /\ rows \subseteq DOMAIN sold /\ rows \subseteq SoldRows
  BY PackShape DEF Confirm, PackInv, KeysInv
<1>1. /\ DOMAIN sold' = DOMAIN sold
      /\ \A b \in DOMAIN sold : /\ sold'[b] \in SoldRow
                                /\ sold'[b].bundle = sold[b].bundle
                                /\ sold'[b].terms = sold[b].terms
                                /\ sold'[b].charge = sold[b].charge
                                /\ b \in rows => sold'[b].state = "CONFIRMED"
                                /\ b \notin rows => sold'[b].state = sold[b].state
      /\ sold' = [b \in DOMAIN sold |-> sold'[b]]
  <2>1. sold' = [b \in DOMAIN sold |->
                   IF b \in rows THEN [sold[b] EXCEPT !.state = "CONFIRMED"] ELSE sold[b]]
    BY DEF Confirm
  <2>. HIDE DEF rows
  <2>2. ASSUME NEW b \in DOMAIN sold
        PROVE  /\ sold'[b] \in SoldRow
               /\ sold'[b].bundle = sold[b].bundle
               /\ sold'[b].terms = sold[b].terms
               /\ sold'[b].charge = sold[b].charge
               /\ b \in rows => sold'[b].state = "CONFIRMED"
               /\ b \notin rows => sold'[b].state = sold[b].state
    <3>1. CASE b \in rows
      <4>1. sold'[b] = [sold[b] EXCEPT !.state = "CONFIRMED"] /\ sold[b] \in SoldRow
        BY <2>1, <3>1, PackShape
      <4>. QED  BY <3>1, <4>1 DEF SoldRow
    <3>2. CASE b \notin rows
      BY <2>1, <3>2, PackShape
    <3>. QED  BY <3>1, <3>2
  <2>3. DOMAIN sold' = DOMAIN sold /\ sold' = [b \in DOMAIN sold |-> sold'[b]]
    BY <2>1
  <2>. QED  BY <2>2, <2>3
<1>2. /\ DOMAIN charges' = DOMAIN charges /\ charges' \in [DOMAIN charges -> Charge]
      /\ \A d \in DOMAIN charges : /\ charges'[d].amount = charges[d].amount
                                   /\ charges'[d].state = charges[d].state
                                   /\ d # c => charges'[d].event = charges[d].event
  BY <1>0, PackShape DEF Confirm, Charge
<1>3. \A b \in SoldRows : Buying(b) = {x \in Buyers : buying[x].pc # "idle" /\ buying[x].b = b}
  BY PackShape DEF Buying, BuyAt
<1>4. /\ was'.ever = was.ever /\ was'.used = was.used
      /\ was'.odd = was.odd \cup {b \in rows : Buying(b) # {}}
      /\ was' \in [ever : [Bundles -> SUBSET PackageTerms], used : SUBSET SoldRows,
                   odd : SUBSET SoldRows]
  BY <1>0, PackShape DEF Confirm
<1>5. /\ buying' \in [Buyers -> Buy]
      /\ \A x \in Buyers :
            /\ buying'[x].pc = buying[x].pc /\ buying'[x].bundle = buying[x].bundle
            /\ buying'[x].terms = buying[x].terms /\ buying'[x].b = buying[x].b
            /\ buying'[x].c = buying[x].c
            /\ buying'[x].alone <=> buying[x].alone /\ \A b \in rows : x \notin Buying(b)
  <2>1. buying' = [x \in Buyers |-> [buying[x] EXCEPT !.alone =
                                        buying[x].alone /\ \A b \in rows : x \notin Buying(b)]]
    BY DEF Confirm
  <2>2. ASSUME NEW x \in Buyers
        PROVE  /\ buying'[x] \in Buy
               /\ buying'[x].pc = buying[x].pc /\ buying'[x].bundle = buying[x].bundle
               /\ buying'[x].terms = buying[x].terms /\ buying'[x].b = buying[x].b
               /\ buying'[x].c = buying[x].c
               /\ buying'[x].alone <=> buying[x].alone /\ \A b \in rows : x \notin Buying(b)
    <3> DEFINE a == buying[x].alone /\ \A b \in rows : x \notin Buying(b)
    <3>1. a \in BOOLEAN /\ buying'[x] = [buying[x] EXCEPT !.alone = a]
      BY <2>1
    <3>. HIDE DEF a
    <3>2. /\ buying'[x] \in Buy
          /\ buying'[x].pc = buying[x].pc /\ buying'[x].bundle = buying[x].bundle
          /\ buying'[x].terms = buying[x].terms /\ buying'[x].b = buying[x].b
          /\ buying'[x].c = buying[x].c /\ buying'[x].alone = a
      BY <3>1, PackShape DEF Buy
    <3>. QED  BY <3>2 DEF a
  <2>3. buying' = [x \in Buyers |-> buying'[x]]
    BY <2>1
  <2>. QED  BY <2>2, <2>3
<1>. HIDE DEF rows
<1>6. PackTypeOK'
  BY <1>0, <1>1, <1>2, <1>4, <1>5, PackShape DEF PackTypeOK
<1>7. KeysInv'
  BY <1>0, <1>1, <1>2, <1>4 DEF PackInv, KeysInv
<1>8. ASSUME NEW x \in Buyers PROVE BuyFits(buying[x], x)'
  <2>1. BuyFits(buying[x], x)
    BY PackShape
  <2>2. buying[x].b \in SoldRows \cup {NoKey} /\ NoKey \notin SoldRows
    BY PackShape DEF Buy
  <2>3. buying[x].pc # "idle" /\ ~buying'[x].alone => buying'[x].b \in was'.odd
    BY <1>0, <1>3, <1>4, <1>5, <2>1 DEF BuyFits
  <2>4. buying[x].pc # "idle" /\ buying'[x].alone => buying[x].alone /\ buying[x].b \notin rows
    BY <1>0, <1>3, <1>5
  <2>. QED  BY <1>1, <1>2, <1>4, <1>5, <2>1, <2>2, <2>3, <2>4 DEF BuyFits
<1>9. BuysInv'
  BY <1>8 DEF BuysInv
<1>10. ASSUME NEW b \in DOMAIN sold, b \notin was'.odd, Settled(b)' PROVE Agreed(b)'
  <2>1. Settled(b) /\ b \notin was.odd
    BY <1>4, <1>5, <1>10 DEF Settled
  <2>2. Agreed(b)
    BY <1>10, <2>1 DEF PackInv, AgreedInv
  <2>3. sold[b].charge \in DOMAIN charges \cup {NoKey}
    BY DEF PackInv, KeysInv
  <2>4. b \in rows => sold[b].charge = c
    BY DEF rows
  <2>5. NoKey # c
    BY PackShape
  <2>. QED  BY <1>0, <1>1, <1>2, <1>4, <2>2, <2>3, <2>4, <2>5 DEF Agreed
<1>11. AgreedInv'
  BY <1>1, <1>10 DEF AgreedInv
<1>. QED  BY <1>6, <1>7, <1>9, <1>11 DEF PackInv

\* Every step keeps the invariant of the packages.
LEMMA PackNextInv == PackInv /\ [PackNext]_packVars => PackInv'
<1>. SUFFICES ASSUME PackInv, [PackNext]_packVars PROVE PackInv'
  OBVIOUS
<1>1. ASSUME NEW k \in Bundles, DeletePackage(k) \/ \E t \in PackageTerms : CreatePackage(k, t) \/ UpdatePackage(k, t)
      PROVE  PackInv'
  BY <1>1, CoachDeletes, CoachSets
<1>2. ASSUME NEW x \in Buyers, NEW k \in Bundles \cup {NoKey}, NEW b \in DOMAIN sold \cup {NoKey},
             BuyRead(x, k, b)
      PROVE  PackInv'
  BY <1>2, BuyReads
<1>3. ASSUME NEW x \in Buyers, BuyFails(x) \/ BuyWrite(x) \/ BuyRelease(x) \/ BuyPay(x) \/ BuyLink(x)
      PROVE  PackInv'
  BY <1>3, BuyFailsStep, BuyWrites, BuyReleases, BuyLinks
<1>4. ASSUME NEW c \in Charges, Hold(c) \/ Confirm(c) PROVE PackInv'
  BY <1>4, HoldStep, ConfirmStep
<1>5. CASE UNCHANGED packVars
  BY <1>5 DEF packVars, PackInv, PackTypeOK, KeysInv, BuysInv, BuyFits, AgreedInv, Settled, Agreed
<1>. QED  BY <1>1, <1>2, <1>3, <1>4, <1>5 DEF PackNext

\* The packages, the bookings, their charges and the calls have their types, however
\* many there are.
THEOREM PackTypesKept == PackSpec => []PackTypeOK
<1>1. PackInv => PackTypeOK
  BY DEF PackInv
<1>. QED  BY <1>1, PackStarts, PackNextInv, PTL DEF PackSpec

\* A confirmed booking has the price and the number of sessions that its package had
\* together at one moment, and its charge was held for that price, for any number of
\* packages, bookings, charges and overlapping calls.
THEOREM PaidWhatWasAgreed == PackSpec => []PaidAsBooked
<1>1. ASSUME PackInv, NEW b \in DOMAIN sold \ was.odd, sold[b].state = "CONFIRMED"
      PROVE  Agreed(b) /\ sold[b].charge # NoKey
  <2>. SUFFICES ASSUME NEW x \in Buyers, buying[x].b = b, buying[x].pc # "idle",
                       buying[x].pc # "buy_write"
                PROVE  FALSE
    BY <1>1 DEF PackInv, AgreedInv, Settled, Agreed
  <2>1. BuyFits(buying[x], x) /\ b # NoKey
    BY <1>1, PackShape
  <2>. QED  BY <1>1, <2>1 DEF BuyFits
<1>2. PackInv => PaidAsBooked
  BY <1>1 DEF PaidAsBooked, Agreed
<1>. QED  BY <1>2, PackStarts, PackNextInv, PTL DEF PackSpec

-----------------------------------------------------------------------------
(* Agenda: the calendar and the tabs of one person.                        *)

\* A set of natural numbers has a least one.
LEMMA LeastOfSet ==
  ASSUME NEW T \in SUBSET Nat, T # {}
  PROVE  \E n \in T : \A m \in T : n <= m
<1> DEFINE R == {ss \in Nat \X Nat : ss[1] < ss[2]}
<1>1. IsWellFoundedOn(R, Nat)
  BY NatLessThanWellFounded DEF OpToRel
<1>2. PICK n \in T : \A m \in T : ~(<<m, n>> \in R)
  BY <1>1, WFMin
<1>3. \A m \in T : ~(m < n)
  BY <1>2
<1>. QED  BY <1>3

\* A moment is of the date whose first moment it follows, and of no other.
LEMMA DateIsOne ==
  ASSUME NEW t \in Nat, NEW d \in Nat
  PROVE  d * HoursPerDay <= t /\ t < (d + 1) * HoursPerDay <=> DateOf(t) = d
  BY DayHasHours DEF DateOf

\* A moment has a date.
LEMMA MomentsAreDated ==
  ASSUME NEW t \in Moments PROVE t \in Nat /\ DateOf(t) \in 0..LastDate
<1>1. t \in Nat
  BY DEF Moments
<1>2. DateOf(t) \in Nat /\ DateOf(t) * HoursPerDay <= t
  BY <1>1, DayHasHours DEF DateOf
<1>3. \A a, b \in Nat : a > b => a * HoursPerDay >= (b + 1) * HoursPerDay
  BY DayHasHours
<1>4. (LastDate + 1) * HoursPerDay \in Nat /\ t < (LastDate + 1) * HoursPerDay
  BY DayHasHours DEF Moments
<1>5. ~(DateOf(t) > LastDate)
  BY <1>1, <1>2, <1>3, <1>4, DayHasHours
<1>. QED  BY <1>1, <1>2, <1>5, DayHasHours

\* There is a first moment.
LEMMA MomentsBegin == 0 \in Moments
<1>1. (LastDate + 1) * HoursPerDay \in Nat /\ (LastDate + 1) * HoursPerDay >= 1
  BY DayHasHours
<1>. QED  BY <1>1 DEF Moments

\* The calendar has shown the sure bookings of the dates it went through, once each.
DaysInv ==
    look.pc = "days" =>
        /\ look.date <= LastDate
        /\ \A b \in look.sure :
              /\ b \in Wanted(look.only)
              /\ look.shown[b] = IF DateOf(plan[b].at) < look.date THEN 1 ELSE 0

\* A sure booking that was on no tab yet is on one that is still to be read.
TabsInv ==
    /\ look.pc \in Tabs => look.date = 0 /\ \A b \in look.sure : OnSomeTab(b, plan, hour)
    /\ look.pc \in {"next", "upcoming"} => \A b \in Dated : look.shown[b] = 0
    /\ look.pc = "upcoming" =>
          \A b \in look.sure : plan[b].at >= hour => \E t \in look.first : t <= plan[b].at
    /\ look.pc = "completed" =>
          \A b \in look.sure : look.shown[b] = 0 => plan[b].at < hour
    /\ look.pc = "cancelled" =>
          \A b \in look.sure : look.shown[b] = 0 => plan[b].state = "CANCELLED"

AgendaInv == AgendaTypeOK /\ DaysInv /\ TabsInv /\ CalendarShowsOnce /\ TabsMissNothing /\ NextIsFirst

\* A reader of the calendar who has not begun holds nothing.
LEMMA NoLookType ==
  /\ NoLook \in Look /\ NoLook.pc = "idle" /\ NoLook.only = {} /\ NoLook.date = 0
  /\ NoLook.shown = [b \in Dated |-> 0] /\ NoLook.sure = {} /\ NoLook.first = {}
  BY DayHasHours DEF NoLook, Look

\* Before the first booking the invariant of the agenda holds.
LEMMA AgendaStarts == AgendaInit => AgendaInv
<1>. SUFFICES ASSUME AgendaInit PROVE AgendaInv
  OBVIOUS
<1>1. AgendaTypeOK
  BY MomentsBegin, NoLookType DEF AgendaInit, AgendaTypeOK, PlanRow
<1>. QED
  BY <1>1, NoLookType DEF AgendaInit, AgendaInv, DaysInv, TabsInv, CalendarShowsOnce,
                          TabsMissNothing, NextIsFirst, LookedThrough, Tabs

\* What a query shows is added to what was shown.
LEMMA AlsoCounts ==
  ASSUME AgendaTypeOK, NEW rows
  PROVE  /\ Also(rows) \in [Dated -> Nat]
         /\ \A b \in Dated : Also(rows)[b] = look.shown[b] + IF b \in rows THEN 1 ELSE 0
  BY DEF AgendaTypeOK, Look, Also

\* What the state is made of.
LEMMA AgendaShape ==
  ASSUME AgendaInv
  PROVE  /\ hour \in Moments /\ hour \in Nat /\ plan \in [Dated -> PlanRow] /\ look \in Look
         /\ look.shown \in [Dated -> Nat] /\ look.date \in Nat /\ look.sure \subseteq Dated
         /\ \A b \in Dated : plan[b].at \in Moments /\ plan[b].at \in Nat
  BY MomentsAreDated, DayHasHours DEF AgendaInv, AgendaTypeOK, Look, PlanRow

\* Beginning to read a calendar keeps it.
LEMMA LookUps ==
  ASSUME AgendaInv, LookUpTabs \/ \E only \in {{}} \cup {{s} : s \in Filters} : LookUpDates(only)
  PROVE  AgendaInv'
<1>0. UNCHANGED <<hour, plan>>
  BY DEF LookUpTabs, LookUpDates
<1>1. ASSUME NEW only \in {{}} \cup {{s} : s \in Filters}, LookUpDates(only) PROVE AgendaInv'
  <2>1. /\ look' \in Look /\ look'.pc = "days" /\ look'.only = only /\ look'.date = 0
        /\ look'.shown = [b \in Dated |-> 0] /\ look'.sure = Wanted(only)
    <3>1. Wanted(only) \in SUBSET Dated /\ only \in SUBSET Filters
      BY DEF Wanted, Planned
    <3>. QED  BY <1>1, <3>1, NoLookType DEF LookUpDates, Look
  <2>2. \A b \in Dated : DateOf(plan[b].at) >= 0
    BY AgendaShape, MomentsAreDated
  <2>3. DaysInv'
    <3>1. \A b \in Wanted(only) : /\ b \in Dated /\ look'.shown[b] = 0
                                  /\ ~(DateOf(plan[b].at) < look'.date)
      BY <2>1, <2>2, AgendaShape, MomentsAreDated DEF Wanted, Planned
    <3>2. Wanted(look.only)' = Wanted(only)
      BY <1>0, <2>1 DEF Wanted, Planned
    <3>. QED  BY <1>0, <2>1, <3>1, <3>2, DayHasHours DEF DaysInv
  <2>. QED
    BY <1>0, <2>1, <2>3 DEF AgendaInv, AgendaTypeOK, TabsInv, CalendarShowsOnce, TabsMissNothing,
                            NextIsFirst, LookedThrough, Tabs
<1>2. CASE LookUpTabs
  <2>1. /\ look' \in Look /\ look'.pc = "next" /\ look'.date = 0
        /\ look'.shown = [b \in Dated |-> 0]
        /\ look'.sure = {b \in Dated : OnSomeTab(b, plan, hour)}
    <3>1. {b \in Dated : OnSomeTab(b, plan, hour)} \in SUBSET Dated
      OBVIOUS
    <3>. QED  BY <1>2, <3>1, NoLookType DEF LookUpTabs, Look, Tabs
  <2>. QED
    BY <1>0, <2>1 DEF AgendaInv, AgendaTypeOK, DaysInv, TabsInv, OnSomeTab, CalendarShowsOnce,
                      TabsMissNothing, NextIsFirst, LookedThrough, Tabs
<1>. QED  BY <1>1, <1>2

\* One date of the calendar.
LEMMA ReadDateStep == ASSUME AgendaInv, ReadDate PROVE AgendaInv'
<1>0. UNCHANGED <<hour, plan>> /\ look.pc = "days"
  BY DEF ReadDate
<1>1. look' = [look EXCEPT !.shown = Also(AthleteOnDate(look.date, look.only)), !.date = look.date + 1,
                           !.pc = IF look.date = LastDate THEN "done" ELSE look.pc]
  BY DEF ReadDate, CoachOnDate
<1> DEFINE rows == AthleteOnDate(look.date, look.only)
           pc == IF look.date = LastDate THEN "done" ELSE "days"
<1>2. look.date \in 0..LastDate
  BY <1>0, AgendaShape, DayHasHours DEF AgendaInv, DaysInv
<1>3. /\ look' \in Look /\ look'.pc = pc /\ look'.only = look.only /\ look'.date = look.date + 1
      /\ look'.shown = Also(rows) /\ look'.sure = look.sure
  <2>1. pc \in {"done", "days"} /\ look.date + 1 \in 0..(LastDate + 1)
    BY <1>2, DayHasHours
  <2>2. Also(rows) \in [Dated -> Nat]
    BY AlsoCounts DEF AgendaInv
  <2>3. look' = [look EXCEPT !.shown = Also(rows), !.date = look.date + 1, !.pc = pc]
    BY <1>0, <1>1
  <2>. HIDE DEF rows, pc
  <2>. QED  BY <2>1, <2>2, <2>3, AgendaShape DEF Look
<1>4. ASSUME NEW b \in look.sure
      PROVE  /\ b \in Dated /\ b \in Wanted(look.only) /\ DateOf(plan[b].at) \in 0..LastDate
             /\ Also(rows)[b] = IF DateOf(plan[b].at) < look.date + 1 THEN 1 ELSE 0
  <2>1. b \in Dated /\ b \in Wanted(look.only)
    BY <1>0, <1>4, AgendaShape DEF AgendaInv, DaysInv
  <2>2. DateOf(plan[b].at) \in 0..LastDate /\ plan[b].at \in Nat
    BY <2>1, AgendaShape, MomentsAreDated
  <2>3. b \in rows <=> DateOf(plan[b].at) = look.date
    BY <1>2, <2>1, <2>2, DateIsOne DEF AthleteOnDate
  <2>4. Also(rows)[b] = look.shown[b] + IF b \in rows THEN 1 ELSE 0
    BY <2>1, AlsoCounts DEF AgendaInv
  <2>5. look.shown[b] = IF DateOf(plan[b].at) < look.date THEN 1 ELSE 0
    BY <1>0, <1>4 DEF AgendaInv, DaysInv
  <2>. HIDE DEF rows
  <2>. QED  BY <1>2, <2>1, <2>2, <2>3, <2>4, <2>5
<1>. HIDE DEF rows
<1>5. AgendaTypeOK'
  BY <1>0, <1>3 DEF AgendaInv, AgendaTypeOK
<1>6. DaysInv'
  <2>1. Wanted(look.only)' = Wanted(look.only)
    BY <1>0, <1>3 DEF Wanted, Planned
  <2>2. pc = "days" => look.date + 1 <= LastDate
    BY <1>2, DayHasHours
  <2>. QED  BY <1>0, <1>3, <1>4, <2>1, <2>2 DEF DaysInv
<1>7. CalendarShowsOnce'
  BY <1>2, <1>3, <1>4 DEF CalendarShowsOnce, LookedThrough
<1>8. TabsMissNothing'
  BY <1>2, <1>3, <1>4 DEF TabsMissNothing, LookedThrough
<1>. QED
  BY <1>3, <1>5, <1>6, <1>7, <1>8 DEF AgendaInv, TabsInv, NextIsFirst, Tabs

\* The tabs, one after the other.
LEMMA ReadTabs ==
  ASSUME AgendaInv, ReadNextSession \/ ReadUpcoming \/ ReadCompleted \/ ReadCancelled
  PROVE  AgendaInv'
<1>0. UNCHANGED <<hour, plan>> /\ look.pc \in Tabs
  BY DEF ReadNextSession, ReadUpcoming, ReadCompleted, ReadCancelled, Tabs
<1>. USE DEF AgendaInv, AgendaTypeOK, DaysInv, TabsInv, CalendarShowsOnce, TabsMissNothing,
             NextIsFirst, LookedThrough, Tabs, OnSomeTab
<1>1. CASE ReadNextSession
  <2>1. NextSession \in SUBSET Moments
    BY AgendaShape DEF NextSession, UpcomingTab, Planned
  <2>2. /\ look' \in Look /\ look'.pc = "upcoming" /\ look'.date = look.date
        /\ look'.sure = look.sure /\ look'.first = NextSession /\ look'.shown = look.shown
    BY <1>1, <2>1, AgendaShape DEF ReadNextSession, Look
  <2>3. ASSUME NEW b \in UpcomingTab PROVE \E t \in NextSession : t <= plan[b].at
    <3> DEFINE T == {plan[c].at : c \in UpcomingTab}
    <3>1. T \in SUBSET Nat /\ T # {} /\ plan[b].at \in T
      <4>1. UpcomingTab \subseteq Dated /\ b \in UpcomingTab
        BY <2>3 DEF UpcomingTab, Planned
      <4>. QED  BY <4>1, AgendaShape
    <3>2. PICK n \in T : \A m \in T : n <= m
      BY <3>1, LeastOfSet
    <3>. QED  BY <3>1, <3>2 DEF NextSession
  <2>4. \A b \in look.sure : plan[b].at >= hour => b \in UpcomingTab
    BY <1>0, AgendaShape DEF UpcomingTab, Planned
  <2>. QED  BY <1>0, <1>1, <2>2, <2>3, <2>4 DEF ReadNextSession
<1>2. CASE ReadUpcoming
  <2>1. /\ look' \in Look /\ look'.pc = "completed" /\ look'.date = look.date
        /\ look'.sure = look.sure /\ look'.first = look.first /\ look'.shown = Also(UpcomingTab)
    BY <1>2, AgendaShape, AlsoCounts DEF ReadUpcoming, Look
  <2>2. \A b \in look.sure : /\ b \in UpcomingTab <=> plan[b].at >= hour
                             /\ look'.shown[b] = look.shown[b] + IF b \in UpcomingTab THEN 1 ELSE 0
    BY <1>0, <2>1, AgendaShape, AlsoCounts DEF UpcomingTab, Planned
  <2>3. \A b \in look.sure : look'.shown[b] = 0 => plan[b].at < hour
    BY <2>2, AgendaShape
  <2>4. \A b \in look.sure : look'.shown[b] > 0 => \E t \in look.first : t <= plan[b].at
    BY <1>2, <2>2, AgendaShape DEF ReadUpcoming
  <2>. QED  BY <1>0, <1>2, <2>1, <2>3, <2>4
<1>3. CASE ReadCompleted
  <2>1. /\ look' \in Look /\ look'.pc = "cancelled" /\ look'.date = look.date
        /\ look'.sure = look.sure /\ look'.shown = Also(CompletedTab)
    BY <1>3, AgendaShape, AlsoCounts DEF ReadCompleted, Look
  <2>. QED  BY <1>0, <1>3, <2>1, AgendaShape, AlsoCounts DEF ReadCompleted, CompletedTab
<1>4. CASE ReadCancelled
  <2>1. /\ look' \in Look /\ look'.pc = "done" /\ look'.date = look.date
        /\ look'.sure = look.sure /\ look'.shown = Also(CancelledTab)
    BY <1>4, AgendaShape, AlsoCounts DEF ReadCancelled, Look
  <2>. QED  BY <1>0, <1>4, <2>1, AgendaShape, AlsoCounts, DayHasHours DEF ReadCancelled, CancelledTab
<1>. QED  BY <1>1, <1>2, <1>3, <1>4

\* The clock goes on, or a booking is written: whoever is still sure was not moved.
LEMMA AgendaElapses ==
  ASSUME AgendaInv, NEW after \in [Dated -> PlanRow], NEW t \in Moments, t >= hour, Elapses(after, t),
         \A b \in Planned : after[b].state # "ABSENT"
  PROVE  AgendaInv'
<1> DEFINE sure == {b \in look.sure : StaysSure(b, after, t)}
<1>0. look.pc # "done" /\ plan' = after /\ hour' = t /\ t \in Nat /\ look' = [look EXCEPT !.sure = sure]
  BY MomentsAreDated DEF Elapses
<1>1. /\ look' \in Look /\ look'.pc = look.pc /\ look'.only = look.only /\ look'.date = look.date
      /\ look'.shown = look.shown /\ look'.first = look.first /\ look'.sure = sure
      /\ sure \subseteq look.sure /\ sure \subseteq Dated
  BY <1>0, AgendaShape DEF Look
<1>2. \A b \in sure : /\ b \in look.sure /\ b \in Dated /\ after[b].at = plan[b].at
                      /\ plan[b].at \in Nat /\ look.shown[b] \in Nat
                      /\ look.pc = "days" => look.only = {} \/ after[b].state \in look.only
                      /\ look.pc # "days" =>
                            /\ OnSomeTab(b, after, t)
                            /\ plan[b].state = "CANCELLED" => after[b].state = "CANCELLED"
  BY <1>1, AgendaShape DEF StaysSure
<1>. HIDE DEF sure
<1>3. AgendaTypeOK'
  BY <1>0, <1>1 DEF AgendaTypeOK
<1>4. DaysInv'
  <2>. SUFFICES ASSUME look.pc = "days"
                PROVE  \A b \in sure : /\ b \in Wanted(look.only)'
                                       /\ look.shown[b] = IF DateOf(after[b].at) < look.date THEN 1 ELSE 0
    BY <1>0, <1>1 DEF DaysInv, AgendaInv
  <2>1. \A b \in sure : b \in Wanted(look.only)'
    BY <1>0, <1>1, <1>2 DEF AgendaInv, DaysInv, Wanted, Planned
  <2>. QED  BY <1>2, <2>1 DEF AgendaInv, DaysInv
<1>5. ASSUME look.pc \in Tabs, NEW b \in sure PROVE OnSomeTab(b, plan, hour)'
  BY <1>0, <1>2, <1>5 DEF Tabs, OnSomeTab
<1>6. TabsInv'
  <2>1. look.pc = "upcoming" =>
          \A b \in sure : after[b].at >= t => \E f \in look.first : f <= after[b].at
    BY <1>0, <1>2, AgendaShape DEF AgendaInv, TabsInv
  <2>2. look.pc = "completed" => \A b \in sure : look.shown[b] = 0 => after[b].at < t
    BY <1>0, <1>2, AgendaShape DEF AgendaInv, TabsInv
  <2>3. look.pc = "cancelled" => \A b \in sure : look.shown[b] = 0 => after[b].state = "CANCELLED"
    BY <1>0, <1>2 DEF AgendaInv, TabsInv
  <2>. QED  BY <1>0, <1>1, <1>5, <2>1, <2>2, <2>3 DEF AgendaInv, TabsInv
<1>7. NextIsFirst'
  BY <1>0, <1>1, <1>2 DEF AgendaInv, NextIsFirst
<1>. QED
  BY <1>0, <1>1, <1>3, <1>4, <1>6, <1>7 DEF AgendaInv, CalendarShowsOnce, TabsMissNothing, LookedThrough

\* Every step does.
LEMMA AgendaNextInv == AgendaInv /\ [AgendaNext]_agendaVars => AgendaInv'
<1>. SUFFICES ASSUME AgendaInv, [AgendaNext]_agendaVars PROVE AgendaInv'
  OBVIOUS
<1>1. CASE LookUpTabs \/ \E only \in {{}} \cup {{s} : s \in Filters} : LookUpDates(only)
  BY <1>1, LookUps
<1>2. CASE ReadDate
  BY <1>2, ReadDateStep
<1>3. CASE ReadNextSession \/ ReadUpcoming \/ ReadCompleted \/ ReadCancelled
  BY <1>3, ReadTabs
<1>4. CASE Passes
  BY <1>4, AgendaShape, AgendaElapses DEF Passes, Planned
<1>5. ASSUME NEW b \in Dated, NEW t \in Moments, Appointed(b, t) \/ Moved(b, t) PROVE AgendaInv'
  <2>1. CASE Appointed(b, t)
    <3> DEFINE q == [plan EXCEPT ![b] = [state |-> "PENDING", at |-> t]]
    <3>1. q \in [Dated -> PlanRow] /\ \A c \in Planned : q[c].state # "ABSENT"
      BY AgendaShape DEF PlanRow, PlanStates, Planned
    <3>2. Elapses(q, hour)
      BY <2>1 DEF Appointed
    <3>. HIDE DEF q
    <3>. QED  BY <3>1, <3>2, AgendaShape, AgendaElapses
  <2>2. CASE Moved(b, t)
    <3> DEFINE q == [plan EXCEPT ![b].at = t]
    <3>1. q \in [Dated -> PlanRow] /\ \A c \in Planned : q[c].state # "ABSENT"
      BY AgendaShape DEF PlanRow, PlanStates, Planned
    <3>2. Elapses(q, hour)
      BY <2>2 DEF Moved
    <3>. HIDE DEF q
    <3>. QED  BY <3>1, <3>2, AgendaShape, AgendaElapses
  <2>. QED  BY <1>5, <2>1, <2>2
<1>6. ASSUME NEW b \in Dated, NEW s \in PlanStates, Restated(b, s) PROVE AgendaInv'
  <2> DEFINE q == [plan EXCEPT ![b].state = s]
  <2>1. q \in [Dated -> PlanRow] /\ \A c \in Planned : q[c].state # "ABSENT"
    BY AgendaShape DEF PlanRow, PlanStates, Planned
  <2>2. Elapses(q, hour)
    BY <1>6 DEF Restated
  <2>. HIDE DEF q
  <2>. QED  BY <2>1, <2>2, AgendaShape, AgendaElapses
<1>7. CASE UNCHANGED agendaVars
  BY <1>7 DEF agendaVars, AgendaInv, AgendaTypeOK, DaysInv, TabsInv, CalendarShowsOnce,
              TabsMissNothing, NextIsFirst, LookedThrough, Wanted, Planned, OnSomeTab
<1>. QED  BY <1>1, <1>2, <1>3, <1>4, <1>5, <1>6, <1>7 DEF AgendaNext

\* The clock, the bookings and the client who looks them up have their types.
THEOREM AgendaTypesKept == AgendaSpec => []AgendaTypeOK
<1>1. AgendaInv => AgendaTypeOK
  BY DEF AgendaInv
<1>. QED  BY <1>1, AgendaStarts, AgendaNextInv, PTL DEF AgendaSpec

\* The calendar shows a booking on one date, the tabs miss none that was on one all
\* the time, and nothing comes before the next session: for any number of bookings,
\* dates and moments of a day, whatever happens between the calls.
THEOREM AgendaIsTrue == AgendaSpec => [](CalendarShowsOnce /\ TabsMissNothing /\ NextIsFirst)
<1>1. AgendaInv => CalendarShowsOnce /\ TabsMissNothing /\ NextIsFirst
  BY DEF AgendaInv
<1>. QED  BY <1>1, AgendaStarts, AgendaNextInv, PTL DEF AgendaSpec

-----------------------------------------------------------------------------
(* SessionTimes: the types, however many edits are interleaved.            *)

SessTypeInv ==
    /\ SessTypeOK
    /\ \A x \in Editors : edits[x].pc # "idle" => edits[x].b \in Appointments
    /\ \A p \in Proposals : offered[p].terms # {} => offered[p].b \in Appointments

\* Every step keeps the types of the sessions.
LEMMA SessTypeNext == SessTypeInv /\ [SessNext]_sessVars => SessTypeInv'
<1>. SUFFICES ASSUME SessTypeInv, [SessNext]_sessVars PROVE SessTypeInv'
  OBVIOUS
<1>0. /\ appts \in [Appointments -> ApptRow] /\ edits \in [Editors -> Edit]
      /\ offered \in [Proposals -> ProposalRow]
      /\ loose \subseteq Appointments \cup Proposals /\ NoEdit \in Edit /\ NoEdit.pc = "idle"
  BY DEF SessTypeInv, SessTypeOK, NoEdit, Edit
<1>1. ASSUME NEW t \in Trainers, NEW a \in Trainees, NEW d \in Dates, Book(t, a, d) PROVE SessTypeInv'
  <2> DEFINE row == [status |-> "PENDING", trainer |-> t, trainee |-> a, date |-> d, session |-> {}]
  <2>1. row \in ApptRow
    BY StatusesKnown DEF ApptRow
  <2>2. /\ \E b \in Appointments : appts' = [appts EXCEPT ![b] = row]
        /\ UNCHANGED <<edits, offered, loose>>
    BY <1>1 DEF Book
  <2>. HIDE DEF row
  <2>. QED  BY <1>0, <2>1, <2>2 DEF SessTypeInv, SessTypeOK
<1>2. ASSUME NEW x \in Editors, NEW b \in Appointments, NEW date \in SmallSubsets(Dates),
             NEW iv \in SmallSubsets(Interval), NEW status \in SmallSubsets(Statuses),
             EditBegin(x, b, date, iv, status)
      PROVE  SessTypeInv'
  <2> DEFINE e == [pc |-> IF iv = {} THEN "edit_write" ELSE "edit_check",
                   b |-> b, date |-> date, iv |-> iv, status |-> status]
  <2>1. e \in Edit /\ e.b = b
    BY DEF Edit, SmallSubsets
  <2>2. edits' = [edits EXCEPT ![x] = e] /\ UNCHANGED <<appts, offered, loose>>
    BY <1>2 DEF EditBegin
  <2>. HIDE DEF e
  <2>. QED  BY <1>0, <2>1, <2>2 DEF SessTypeInv, SessTypeOK
<1>3. ASSUME NEW x \in Editors, EditCheck(x) PROVE SessTypeInv'
  <2> DEFINE e == [edits[x] EXCEPT !.pc = "edit_write"]
  <2>1. e \in Edit /\ e.b = edits[x].b /\ edits[x].b \in Appointments
    BY <1>0, <1>3 DEF EditCheck, EditAt, Edit, SessTypeInv
  <2>2. /\ edits' = [edits EXCEPT ![x] = NoEdit] \/ edits' = [edits EXCEPT ![x] = e]
        /\ UNCHANGED <<appts, offered, loose>>
    BY <1>3 DEF EditCheck
  <2>. HIDE DEF e
  <2>. QED  BY <1>0, <2>1, <2>2 DEF SessTypeInv, SessTypeOK
<1>4. ASSUME NEW x \in Editors, EditWrite(x) PROVE SessTypeInv'
  <2>1. edits[x].b \in Appointments
    BY <1>4 DEF EditWrite, EditAt, SessTypeInv
  <2>2. SessTypeOK'
    BY <1>4, <2>1, EditWriteTypes DEF SessTypeInv
  <2>3. edits' = [edits EXCEPT ![x] = NoEdit] /\ offered' = offered
    BY <1>4 DEF EditWrite
  <2>. QED  BY <1>0, <2>2, <2>3 DEF SessTypeInv
<1>5. ASSUME NEW b \in Appointments, NEW st \in Statuses, SetStatus(b, st) PROVE SessTypeInv'
  BY <1>0, <1>5 DEF SetStatus, SessTypeInv, SessTypeOK, ApptRow
<1>6. ASSUME NEW p \in Proposals, NEW b \in Appointments, NEW date \in Dates, NEW iv \in Interval,
             Propose(p, b, date, iv)
      PROVE  SessTypeInv'
  <2> DEFINE row == [status |-> "PENDING", b |-> b, paid |-> FALSE,
                     terms |-> {[date |-> date, iv |-> iv]}]
  <2>1. row \in ProposalRow /\ row.b = b
    BY DEF ProposalRow, Session
  <2>2. offered' = [offered EXCEPT ![p] = row] /\ UNCHANGED <<appts, edits, loose>>
    BY <1>6 DEF Propose
  <2>. HIDE DEF row
  <2>. QED  BY <1>0, <2>1, <2>2 DEF SessTypeInv, SessTypeOK
<1>7. ASSUME NEW p \in Proposals, NEW status \in {"ACCEPTED", "PAYMENT_PENDING", "DECLINED"},
             NEW paid \in BOOLEAN, UNCHANGED edits,
             offered' = [offered EXCEPT ![p] = [@ EXCEPT !.status = status, !.paid = paid]],
             \/ Apply(p, appts[offered[p].b].status)
             \/ Apply(p, "CONFIRMED")
             \/ UNCHANGED <<appts, loose>>
      PROVE  SessTypeInv'
  <2> DEFINE row == [offered[p] EXCEPT !.status = status, !.paid = paid]
  <2>1. row \in ProposalRow /\ row.b = offered[p].b /\ row.terms = offered[p].terms
    BY <1>0 DEF ProposalRow
  <2>2. offered' = [offered EXCEPT ![p] = row]
    BY <1>0, <1>7
  <2>. HIDE DEF row
  <2>3. /\ offered' \in [Proposals -> ProposalRow]
        /\ \A q \in Proposals : UNCHANGED <<offered[q].b, offered[q].terms>>
    BY <1>0, <2>1, <2>2
  <2>4. /\ appts' \in [Appointments -> ApptRow]
        /\ loose' \subseteq Appointments \cup Proposals
    <3>1. CASE UNCHANGED <<appts, loose>>
      BY <1>0, <3>1
    <3>2. CASE Apply(p, "CONFIRMED")
      BY <3>2, ApplyTypes, StatusesKnown DEF SessTypeInv
    <3>3. CASE Apply(p, appts[offered[p].b].status)
      <4>1. offered[p].b \in Appointments
        BY <3>3 DEF Apply, SessTypeInv
      <4>2. appts[offered[p].b].status \in Statuses \cup {"ABSENT"}
        BY <1>0, <4>1 DEF ApptRow
      <4>. QED  BY <3>3, <4>1, <4>2, ApplyTypes DEF SessTypeInv
    <3>. QED  BY <1>7, <3>1, <3>2, <3>3
  <2>. QED  BY <1>0, <1>7, <2>3, <2>4 DEF SessTypeInv, SessTypeOK
<1>8. ASSUME NEW p \in Proposals,
             \/ AcceptProposal(p, "ACCEPTED") \/ AcceptProposal(p, "PAYMENT_PENDING")
             \/ DeclineProposal(p) \/ ProposalCapturable(p) \/ ProposalSucceeded(p)
      PROVE  SessTypeInv'
  <2>0. offered[p] \in ProposalRow
    BY <1>0
  <2>1. CASE AcceptProposal(p, "ACCEPTED") \/ AcceptProposal(p, "PAYMENT_PENDING")
    BY <1>7, <2>1 DEF AcceptProposal
  <2>2. CASE DeclineProposal(p)
    <3>1. offered' = [offered EXCEPT ![p] = [@ EXCEPT !.status = "DECLINED",
                                                     !.paid = offered[p].paid]]
      BY <1>0, <2>0, <2>2 DEF DeclineProposal, ProposalRow
    <3>. QED  BY <1>7, <2>0, <2>2, <3>1 DEF DeclineProposal, ProposalRow
  <2>3. CASE ProposalCapturable(p) \/ ProposalSucceeded(p)
    <3>1. offered' = [offered EXCEPT ![p] = [@ EXCEPT !.status = "ACCEPTED",
                                                     !.paid = offered[p].paid]]
      BY <1>0, <2>0, <2>3 DEF ProposalCapturable, ProposalSucceeded, ProposalRow
    <3>. QED  BY <1>7, <2>0, <2>3, <3>1 DEF ProposalCapturable, ProposalSucceeded, ProposalRow
  <2>. QED  BY <1>8, <2>1, <2>2, <2>3
<1>9. CASE UNCHANGED sessVars
  BY <1>9 DEF sessVars, SessTypeInv, SessTypeOK
<1>. QED
  BY <1>1, <1>2, <1>3, <1>4, <1>5, <1>6, <1>8, <1>9 DEF SessNext

\* The bookings, the edits, the offers and the set of those that were not compared have
\* their types, whether or not edits are interleaved.
THEOREM SessionTypesKept == SessSpec => []SessTypeOK
<1>1. SessInit => SessTypeInv
  BY SessInitInv DEF SessInv, EditsNamed, OffersNamed, SessTypeInv
<1>2. SessTypeInv => SessTypeOK
  BY DEF SessTypeInv
<1>. QED  BY <1>1, <1>2, SessTypeNext, PTL DEF SessSpec

-----------------------------------------------------------------------------
(* CoachCalendar: the weekdays a coach is offered on.                      *)

\* A weekday is offered only if no blocked date falls on it in the rest of the week,
\* whatever moment of the day it is, and if it is not off every week.
LEMMA OfferedAreOpen == CalTypeOK => OfferedDaysAreOpen
<1>. SUFFICES ASSUME CalTypeOK, NEW i \in 1..(WeekLength - 1), WeekDay(today + i) \in AvailableNow
              PROVE  today + i \notin blocked /\ WeekDay(today + i) \notin DaysOff
  BY DEF OfferedDaysAreOpen, BlockedDay
<1>1. today \in Nat /\ i \in Nat /\ 1 <= i /\ i <= WeekLength
  BY WeekHasDays, CalendarBounds DEF CalTypeOK
<1>2. today + i \in blocked => today + i \in Upcoming
  BY <1>1, WeekHasDays DEF Upcoming
<1>. QED  BY <1>2 DEF AvailableNow

-----------------------------------------------------------------------------
(* MCPeople: the components beside each other.  While one of them runs the *)
(* others rest, so every behaviour of the whole is one of each component.  *)

mcVars == <<acctVars, codeVars, sessVars, calVars, agendaVars, packVars, runs>>

\* A step of the whole is a step of the component that runs, and of no other.
LEMMA OneRuns ==
  ASSUME [MCNext]_mcVars
  PROVE  /\ [AcctNext]_acctVars /\ [CodeNext]_codeVars /\ [SessNext]_sessVars
         /\ [CalNext]_calVars /\ [AgendaNext]_agendaVars /\ [PackNext]_packVars
<1>1. CASE UNCHANGED mcVars
  BY <1>1 DEF mcVars
<1>2. CASE MCNext
  BY <1>2 DEF MCNext, Only, Rests
<1>. QED  BY <1>1, <1>2

\* The components start as each of them does alone.
LEMMA AllStart ==
  MCInit => AcctInit /\ CodeInit /\ SessInit /\ CalInit /\ AgendaInit /\ PackInit
  BY DEF MCInit

\* The whole is a behaviour of each component.
LEMMA PeopleIsEach ==
  MCSpec => AcctSpec /\ CodeSpec /\ SessSpec /\ CalSpec /\ AgendaSpec /\ PackSpec
  BY OneRuns, AllStart, PTL DEF MCSpec, mcVars, AcctSpec, CodeSpec, SessSpec, CalSpec, AgendaSpec, PackSpec

\* Accounts, codes, sessions, calendars, agendas and packages have their types.
THEOREM PeopleTypes == MCSpec => []PeopleTypeOK
<1>1. MCSpec => /\ []AcctTypeOK /\ []CodeTypeOK /\ []SessTypeOK
                /\ []CalTypeOK /\ []AgendaTypeOK /\ []PackTypeOK
  BY PeopleIsEach, AccountTypesKept, CodeTypesKept, SessionTypesKept, CalendarTypesKept,
     AgendaTypesKept, PackTypesKept
<1>. QED  BY <1>1, PTL DEF PeopleTypeOK

\* As long as the check and the write of updateBooking are not interleaved with those
\* of another edit or with an offer, no session overlaps another of its coach or its
\* athlete that its time was compared with, and each confirmed one has the price and the number that were agreed and paid.
THEOREM SessionsAreAsAgreed == ASSUME ~TwoEditors PROVE MCSpec => []SessionsAsAgreed
<1>1. MCSpec => []NoDoubleSession /\ []PaidAsBooked
  BY PeopleIsEach, NobodyInTwoSessions, PaidWhatWasAgreed
<1>. QED  BY <1>1, PTL DEF SessionsAsAgreed

\* The weekdays a coach is offered on are open but for a date off and blocked times, his calendar shows a booking once, his
\* tabs miss none, and nothing comes before his next session.
THEOREM CalendarsAreAlwaysTrue == MCSpec => []CalendarsAreTrue
<1>1. MCSpec => /\ []CalTypeOK /\ [](CalendarShowsOnce /\ TabsMissNothing /\ NextIsFirst)
  BY PeopleIsEach, CalendarTypesKept, AgendaIsTrue
<1>2. CalTypeOK /\ CalendarShowsOnce /\ TabsMissNothing /\ NextIsFirst => CalendarsAreTrue
  BY OfferedAreOpen DEF CalendarsAreTrue
<1>. QED  BY <1>1, <1>2, PTL
=============================================================================
