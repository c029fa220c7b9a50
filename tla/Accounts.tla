------------------------------ MODULE Accounts ------------------------------
(***************************************************************************)
(* How accounts come to be: the two steps of a registration over Redis,    *)
(* the sign-in with Google or Apple, and what changes or removes an        *)
(* account meanwhile.                                                      *)
(*   src/src/modules/auth/auth.service.ts: requestRegistration,            *)
(*     verifyAndRegister, handleGoogleProfile, handleAppleProfile;         *)
(*   src/src/common/repository/user/user.repository.ts: createUser,        *)
(*     deleteUser; src/src/modules/admin/user*: create, remove.            *)
(* An application is one filled-in registration form; the code mailed for  *)
(* it is identified with it.  Passwords and later codes are in Codes.      *)
(***************************************************************************)
EXTENDS FiniteSets

CONSTANTS
    Ids,            \* primary keys of users
    Emails,
    Apps,           \* applications: registration forms handed in
    AppEmail,       \* [Apps -> Emails]
    GoogleIds, AppleIds,
    SocialEmail,    \* the address a provider knows for an id, or None
    Requests,       \* API calls that may be in flight at one time
    None,
    CallsStop       \* may the process end in the middle of a call?

Socials == GoogleIds \cup AppleIds

ASSUME NoneIsNoKey == None \notin Ids \cup Emails \cup Apps \cup Socials
ASSUME AppsHaveEmails == AppEmail \in [Apps -> Emails]
ASSUME ProvidersDiffer == GoogleIds \cap AppleIds = {}
ASSUME SocialsHaveEmails == SocialEmail \in [Socials -> Emails \cup {None}]
ASSUME StopSwitch == CallsStop \in BOOLEAN

VARIABLES
    accts,      \* users
    pending,    \* redis: registration_pending:<email>
    otp,        \* redis: registration_otp:<email>
    flow,       \* the calls in flight
    past        \* history, see Past

acctVars == <<accts, pending, otp, flow, past>>

Acct == [state  : {"free", "live", "gone"},
         email  : Emails \cup {None},
         app    : Apps \cup {None},     \* the form the row's data come from
         google : GoogleIds \cup {None},
         apple  : AppleIds \cup {None}]

NoAcct == [state |-> "free", email |-> None, app |-> None, google |-> None, apple |-> None]

Flow == [pc : {"idle", "reg_pending", "reg_otp", "ver_pending", "ver_create", "ver_clean",
               "ver_clean_otp", "soc_link", "soc_create"},
         key  : Apps \cup Socials \cup {None},  \* what the caller came with
         app  : Apps \cup {None},               \* the form read from redis
         user : Ids \cup {None},                \* byEmail
         saw  : Socials \cup {None},            \* byEmail's link
         mail : Emails \cup {None}]

NoFlow == [pc |-> "idle", key |-> None, app |-> None, user |-> None, saw |-> None, mail |-> None]

Past == [logins : SUBSET (Socials \X Ids),  \* who was signed in where
         made   : SUBSET (Apps \X Ids),     \* the code entered, the account made
         torn   : SUBSET Emails]            \* addresses for which two calls of a
                                            \* registration overlapped or one stopped

AcctInit ==
    /\ accts = [i \in Ids |-> NoAcct]
    /\ pending = [e \in Emails |-> None]
    /\ otp = [e \in Emails |-> None]
    /\ flow = [r \in Requests |-> NoFlow]
    /\ past = [logins |-> {}, made |-> {}, torn |-> {}]

LiveIds == {i \in Ids : accts[i].state = "live"}
Holders(e) == IF e = None THEN {} ELSE {i \in LiveIds : accts[i].email = e}
LinkOf(i, s) == IF s \in GoogleIds THEN accts[i].google ELSE accts[i].apple
Linked(s) == {i \in LiveIds : LinkOf(i, s) = s}
\* Mutant: one handler copied from the other writes to one column.
WithLinkGoogle(a, s) == [a EXCEPT !.google = s]

WithLink(a, s) == IF s \in GoogleIds THEN [a EXCEPT !.google = s] ELSE [a EXCEPT !.apple = s]

FlowAt(r, pc) == flow[r].pc = pc
FlowTo(r, pc) == flow' = [flow EXCEPT ![r].pc = pc]
FlowEnds(r) == flow' = [flow EXCEPT ![r] = NoFlow]

OfRegistration == {"reg_pending", "reg_otp", "ver_pending", "ver_create", "ver_clean",
                   "ver_clean_otp"}
Registering(e) == {r \in Requests : flow[r].pc \in OfRegistration /\ flow[r].mail = e}

-----------------------------------------------------------------------------
(* requestRegistration: the form and its code are two keys of redis.       *)

RegBegin(r, a) ==
    LET e == AppEmail[a]
    IN  /\ FlowAt(r, "idle")
        /\ Holders(e) = {}
        /\ \A i \in Ids : accts[i].app # a
        /\ flow' = [flow EXCEPT ![r] = [NoFlow EXCEPT !.pc = "reg_pending", !.key = a, !.mail = e]]
        /\ past' = IF Registering(e) # {} THEN [past EXCEPT !.torn = @ \cup {e}] ELSE past
        /\ UNCHANGED <<accts, pending, otp>>

RegPending(r) ==
    /\ FlowAt(r, "reg_pending")
    /\ pending' = [pending EXCEPT ![flow[r].mail] = flow[r].key]
    /\ FlowTo(r, "reg_otp")
    /\ UNCHANGED <<accts, otp, past>>

\* Mutant: a code that is still valid is not replaced.
RegOtpOnce(r) ==
    /\ FlowAt(r, "reg_otp")
    /\ otp' = IF otp[flow[r].mail] # None THEN otp
              ELSE [otp EXCEPT ![flow[r].mail] = flow[r].key]
    /\ FlowEnds(r)
    /\ UNCHANGED <<accts, pending, past>>

RegOtp(r) ==
    /\ FlowAt(r, "reg_otp")
    /\ otp' = [otp EXCEPT ![flow[r].mail] = flow[r].key]
    /\ FlowEnds(r)
    /\ UNCHANGED <<accts, pending, past>>

\* Both keys live 15 minutes; the one written first ends first.
PendingExpires(e) ==
    /\ pending[e] # None
    /\ pending' = [pending EXCEPT ![e] = None]
    /\ UNCHANGED <<accts, otp, flow, past>>

OtpExpires(e) ==
    /\ otp[e] # None
    /\ pending[e] = None
    /\ otp' = [otp EXCEPT ![e] = None]
    /\ UNCHANGED <<accts, pending, flow, past>>

-----------------------------------------------------------------------------
(* verifyAndRegister, called with an address and a code that is compared   *)
(* with the stored one.                                                    *)

VerBegin(r, e) ==
    /\ FlowAt(r, "idle")
    /\ otp[e] # None
    /\ flow' = [flow EXCEPT ![r] = [NoFlow EXCEPT !.pc = "ver_pending", !.key = otp[e], !.mail = e]]
    /\ past' = IF Registering(e) # {} THEN [past EXCEPT !.torn = @ \cup {e}] ELSE past
    /\ UNCHANGED <<accts, pending, otp>>

VerPending(r) ==
    /\ FlowAt(r, "ver_pending")
    /\ LET form == pending[flow[r].mail]
       IN  flow' = IF form = None THEN [flow EXCEPT ![r] = NoFlow]
                   ELSE [flow EXCEPT ![r].pc = "ver_create", ![r].app = form]
    /\ UNCHANGED <<accts, pending, otp, past>>

\* createUser looks for the address; the unique column decides a race.  What
\* completes the row (verified mark, customer, coach profile) is left out.
VerCreate(r) ==
    /\ FlowAt(r, "ver_create")
    /\ IF Holders(flow[r].mail) # {}
       THEN FlowEnds(r) /\ UNCHANGED <<accts, past>>
       ELSE \E i \in Ids :
               /\ accts[i].state = "free"
               /\ accts' = [accts EXCEPT ![i] =
                     [NoAcct EXCEPT !.state = "live", !.email = flow[r].mail, !.app = flow[r].app]]
               /\ past' = [past EXCEPT !.made = @ \cup {<<flow[r].key, i>>}]
               /\ FlowTo(r, "ver_clean")
    /\ UNCHANGED <<pending, otp>>

VerClean(r) ==
    /\ FlowAt(r, "ver_clean")
    /\ pending' = [pending EXCEPT ![flow[r].mail] = None]
    /\ FlowTo(r, "ver_clean_otp")
    /\ UNCHANGED <<accts, otp, past>>

VerCleanOtp(r) ==
    /\ FlowAt(r, "ver_clean_otp")
    /\ otp' = [otp EXCEPT ![flow[r].mail] = None]
    /\ FlowEnds(r)
    /\ UNCHANGED <<accts, pending, past>>

-----------------------------------------------------------------------------
(* handleGoogleProfile, handleAppleProfile: by id, else by address, else a *)
(* new account.  The provider may leave the address out.                   *)

SocialFind(r, s, mail) ==
    /\ FlowAt(r, "idle")
    /\ mail \in {None, SocialEmail[s]}
    /\ \/ \E i \in Linked(s) :
             /\ past' = [past EXCEPT !.logins = @ \cup {<<s, i>>}]
             /\ UNCHANGED flow
       \/ /\ Linked(s) = {}
          /\ \E i \in Holders(mail) :
                flow' = [flow EXCEPT ![r] = [NoFlow EXCEPT !.pc = "soc_link", !.key = s,
                                                !.user = i, !.saw = LinkOf(i, s), !.mail = mail]]
          /\ UNCHANGED past
       \/ /\ Linked(s) = {} /\ Holders(mail) = {}
          /\ flow' = [flow EXCEPT ![r] =
                        [NoFlow EXCEPT !.pc = "soc_create", !.key = s, !.mail = mail]]
          /\ UNCHANGED past
    /\ UNCHANGED <<accts, pending, otp>>

Login(r, i) == past' = [past EXCEPT !.logins = @ \cup {<<flow[r].key, i>>}]

\* Mutant: the account found by its address is signed in and not linked.
SocialLinkForgotten(r) ==
    /\ FlowAt(r, "soc_link")
    /\ IF flow[r].user \in LiveIds THEN Login(r, flow[r].user) ELSE UNCHANGED past
    /\ FlowEnds(r)
    /\ UNCHANGED <<accts, pending, otp>>

\* google_id: byEmail.google_id ?? googleId, with the value read before.
SocialLink(r) ==
    /\ FlowAt(r, "soc_link")
    /\ LET i == flow[r].user
           link == IF flow[r].saw # None THEN flow[r].saw ELSE flow[r].key
       IN  IF i \in LiveIds /\ Linked(link) \subseteq {i}
           THEN /\ accts' = [accts EXCEPT ![i] = WithLink(@, link)]
                /\ Login(r, i)
           ELSE UNCHANGED <<accts, past>>
    /\ FlowEnds(r)
    /\ UNCHANGED <<pending, otp>>

\* A unique column refuses the row (P2002): the account with the id is taken
\* if there is one; else Google's sign-in fails and Apple's goes on with an
\* address made up for it.
SocialCreate(r) ==
    /\ FlowAt(r, "soc_create")
    /\ LET s == flow[r].key
           Create(mail) ==
              \E i \in Ids :
                 /\ accts[i].state = "free"
                 /\ accts' = [accts EXCEPT ![i] =
                       WithLink([NoAcct EXCEPT !.state = "live", !.email = mail], s)]
                 /\ Login(r, i)
       IN  \/ Linked(s) = {} /\ Holders(flow[r].mail) = {} /\ Create(flow[r].mail)
           \/ \E i \in Linked(s) : Login(r, i) /\ UNCHANGED accts
           \/ Linked(s) = {} /\ Holders(flow[r].mail) # {} /\
                 IF s \in AppleIds THEN Create(None) ELSE UNCHANGED <<accts, past>>
    /\ FlowEnds(r)
    /\ UNCHANGED <<pending, otp>>

-----------------------------------------------------------------------------
(* createUser by the admin, changeEmail, the removal by the admin; the end *)
(* of the process.                                                         *)

AdminCreate(e) ==
    /\ Holders(e) = {}
    /\ \E i \in Ids :
          /\ accts[i].state = "free"
          /\ accts' = [accts EXCEPT ![i] = [NoAcct EXCEPT !.state = "live", !.email = e]]
    /\ UNCHANGED <<pending, otp, flow, past>>

EmailChanges(i, e) ==
    /\ i \in LiveIds
    /\ Holders(e) = {}
    /\ accts' = [accts EXCEPT ![i].email = e]
    /\ UNCHANGED <<pending, otp, flow, past>>

Remove(i) ==
    /\ i \in LiveIds
    /\ accts' = [accts EXCEPT ![i].state = "gone"]
    /\ UNCHANGED <<pending, otp, flow, past>>

FlowStops(r) ==
    /\ CallsStop
    /\ ~FlowAt(r, "idle")
    /\ past' = IF flow[r].pc \in OfRegistration
               THEN [past EXCEPT !.torn = @ \cup {flow[r].mail}] ELSE past
    /\ FlowEnds(r)
    /\ UNCHANGED <<accts, pending, otp>>

AcctNext ==
    \/ \E r \in Requests :
          \/ \E a \in Apps : RegBegin(r, a)
          \/ RegPending(r) \/ RegOtp(r)
          \/ \E e \in Emails : VerBegin(r, e)
          \/ VerPending(r) \/ VerCreate(r) \/ VerClean(r) \/ VerCleanOtp(r)
          \/ \E s \in Socials, mail \in Emails \cup {None} : SocialFind(r, s, mail)
          \/ SocialLink(r) \/ SocialCreate(r)
          \/ FlowStops(r)
    \/ \E e \in Emails : PendingExpires(e) \/ OtpExpires(e) \/ AdminCreate(e)
    \/ \E i \in Ids : Remove(i) \/ (\E e \in Emails : EmailChanges(i, e))

AcctSpec == AcctInit /\ [][AcctNext]_acctVars

-----------------------------------------------------------------------------
AcctTypeOK ==
    /\ accts \in [Ids -> Acct]
    /\ pending \in [Emails -> Apps \cup {None}]
    /\ otp \in [Emails -> Apps \cup {None}]
    /\ flow \in [Requests -> Flow]
    /\ past \in Past

\* An account is made from the form whose code was entered, also when an
\* address is applied for several times and keys expire in between, unless two
\* calls for the address overlapped or one ended half-way.
RegisteredAsMailed ==
    \A i \in Ids, a \in Apps :
        <<a, i>> \in past.made => accts[i].app = a \/ AppEmail[a] \in past.torn

\* A provider's id leads to one account: it never signs in to two that are both
\* there and carry no other id of that provider, whatever sign-ins,
\* registrations, changes of address and removals happen in between.
SocialLoginStable ==
    \A s \in Socials : \A i, j \in LiveIds :
        <<s, i>> \in past.logins /\ <<s, j>> \in past.logins
        /\ {LinkOf(i, s), LinkOf(j, s)} \subseteq {None, s} => i = j
=============================================================================
