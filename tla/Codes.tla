------------------------------- MODULE Codes --------------------------------
(***************************************************************************)
(* The codes that are mailed to a user and what they let him do: reset the *)
(* password, prove the address, change it; and the change of a password or *)
(* an address without a code.                                              *)
(*   src/src/modules/auth/auth.service.ts: forgotPassword to changeEmail;  *)
(*   src/src/common/repository/ucode/ucode.repository.ts;                  *)
(*   src/src/common/repository/user/user.repository.ts: changePassword,    *)
(*     changeEmail, updateUser; the admin's edits of a user.               *)
(* A code belongs to the address it was mailed to, passwords are written   *)
(* by address, and addresses pass from one user to another.                *)
(***************************************************************************)
EXTENDS FiniteSets

CONSTANTS
    Users, Addresses,
    UcodeIds,           \* primary keys of ucodes
    Tokens,             \* the codes that are drawn; two rows may hold one code
    Calls,              \* API calls that may be in flight at one time
    Nil,
    CallsOverlap

ASSUME NilIsNoKey == Nil \notin Users \cup Addresses \cup UcodeIds \cup Tokens
ASSUME CallsSwitch == CallsOverlap \in BOOLEAN

VARIABLES
    address,    \* users.email
    verified,   \* users whose email_verified_at is set
    ucodes,
    calls,
    stray       \* history: users whose password another's call or code set last

codeVars == <<address, verified, ucodes, calls, stray>>

\* users that took the address of a row or of a call after it was made: history
Ucode == [user : Users, email : Addresses, token : Tokens, asked : BOOLEAN, taken : SUBSET Users]

Call == [pc    : {"idle", "reset_write", "reset_delete", "verify_write", "pw_check",
                  "pw_write", "mail_write", "mail_delete"},
         user  : Users \cup {Nil},
         email : Addresses \cup {Nil},
         token : Tokens \cup {Nil},
         asked : BOOLEAN,       \* history: a code of requestEmailChange is used
         taken : SUBSET Users]

NoCall == [pc |-> "idle", user |-> Nil, email |-> Nil, token |-> Nil,
           asked |-> FALSE, taken |-> {}]

CodeInit ==
    /\ address \in {f \in [Users -> Addresses \cup {Nil}] :
                      \A u, v \in Users : u # v /\ f[u] = f[v] => f[u] = Nil}
    /\ verified = {}
    /\ ucodes = [k \in UcodeIds |-> {}]
    /\ calls = [x \in Calls |-> NoCall]
    /\ stray = {}

UserAt(e) == {u \in Users : e # Nil /\ address[u] = e}
RowsOf(e, t) == {k \in UcodeIds : \E c \in ucodes[k] : c.email = e /\ c.token = t}

CallAt(x, pc) == calls[x].pc = pc
CallEnds(x) == calls' = [calls EXCEPT ![x] = NoCall]
MayCall(x) == CallAt(x, "idle") /\ (CallsOverlap \/ \A y \in Calls : CallAt(y, "idle"))

-----------------------------------------------------------------------------
(* createToken for a user, at an address.  requestEmailChange does not ask *)
(* whether another user has the address it is for.                         *)

CreateToken(u, e, asked) ==
    /\ \E k \in UcodeIds, t \in Tokens :
          /\ ucodes[k] = {}
          /\ ucodes' = [ucodes EXCEPT ![k] =
                {[user |-> u, email |-> e, token |-> t, asked |-> asked, taken |-> {}]}]
    /\ UNCHANGED <<address, verified, calls, stray>>

ForgotPassword(e) == \E u \in UserAt(e) : CreateToken(u, e, FALSE)
ResendVerificationEmail(e) == \E u \in UserAt(e) : CreateToken(u, e, FALSE)
RequestEmailChange(u, e) == address[u] # Nil /\ CreateToken(u, e, TRUE)

UcodeExpires(k) ==
    /\ ucodes[k] # {}
    /\ ucodes' = [ucodes EXCEPT ![k] = {}]
    /\ UNCHANGED <<address, verified, calls, stray>>

DeleteToken(e, t) == ucodes' = [k \in UcodeIds |-> IF k \in RowsOf(e, t) THEN {} ELSE ucodes[k]]

-----------------------------------------------------------------------------
(* validateToken: a live row with this address and this code.  It is not   *)
(* used up by being looked at.                                             *)

\* Mutant: the address of the row is not compared.
MatchingToken(e, t) == {k \in UcodeIds : \E c \in ucodes[k] : c.token = t}

Matching(e, t) == RowsOf(e, t)

ResetBegin(x, e, t) ==
    /\ MayCall(x)
    /\ UserAt(e) # {}
    /\ \E k \in Matching(e, t) : \E c \in ucodes[k] :
          calls' = [calls EXCEPT ![x] = [pc |-> "reset_write", user |-> c.user, email |-> e,
                                         token |-> t, asked |-> c.asked, taken |-> c.taken]]
    /\ UNCHANGED <<address, verified, ucodes, stray>>

\* changePassword({email}): the row of users that has the address now.
SetPassword(x) ==
    LET c == calls[x]
    IN  stray' = (stray \ UserAt(c.email)) \cup
                 {u \in UserAt(c.email) : u # c.user /\ u \notin c.taken /\ ~c.asked}

ResetWrite(x) ==
    /\ CallAt(x, "reset_write")
    /\ IF UserAt(calls[x].email) = {}
       THEN CallEnds(x) /\ UNCHANGED stray
       ELSE SetPassword(x) /\ calls' = [calls EXCEPT ![x] =
                 [NoCall EXCEPT !.pc = "reset_delete", !.email = calls[x].email,
                                !.token = calls[x].token]]
    /\ UNCHANGED <<address, verified, ucodes>>

ResetDelete(x) ==
    /\ CallAt(x, "reset_delete")
    /\ DeleteToken(calls[x].email, calls[x].token)
    /\ CallEnds(x)
    /\ UNCHANGED <<address, verified, stray>>

(* verifyEmail: the user is found first, and marked by id. *)
VerifyBegin(x, e, t) ==
    /\ MayCall(x)
    /\ Matching(e, t) # {}
    /\ \E u \in UserAt(e) :
          calls' = [calls EXCEPT ![x] = [NoCall EXCEPT !.pc = "verify_write", !.user = u]]
    /\ UNCHANGED <<address, verified, ucodes, stray>>

VerifyWrite(x) ==
    /\ CallAt(x, "verify_write")
    /\ verified' = verified \cup {calls[x].user}
    /\ CallEnds(x)
    /\ UNCHANGED <<address, ucodes, stray>>

-----------------------------------------------------------------------------
(* changePassword: the address is read, the old password compared at that  *)
(* address, the new one written there.                                     *)

PwBegin(x, u) ==
    /\ MayCall(x)
    /\ address[u] # Nil
    /\ calls' = [calls EXCEPT ![x] =
                    [NoCall EXCEPT !.pc = "pw_check", !.user = u, !.email = address[u]]]
    /\ UNCHANGED <<address, verified, ucodes, stray>>

\* The old password is that of whoever has the address; another user's does not
\* match, except that the model does not tell equal passwords of two users apart.
PwCheck(x) ==
    /\ CallAt(x, "pw_check")
    /\ \/ UserAt(calls[x].email) # {} /\ calls' = [calls EXCEPT ![x].pc = "pw_write"]
       \/ CallEnds(x)
    /\ UNCHANGED <<address, verified, ucodes, stray>>

PwWrite(x) ==
    /\ CallAt(x, "pw_write")
    /\ SetPassword(x)
    /\ CallEnds(x)
    /\ UNCHANGED <<address, verified, ucodes>>

-----------------------------------------------------------------------------
(* changeEmail looks for the code under the address the user has, not the  *)
(* one he asked for, and deletes the code under the new one.               *)

Moves(u, e) ==
    LET Took(r) == IF r.email = e THEN [r EXCEPT !.taken = @ \cup ({u} \ {r.user})] ELSE r
    IN  /\ address' = [address EXCEPT ![u] = e]
        /\ ucodes' = [k \in UcodeIds |-> {Took(c) : c \in ucodes[k]}]

CallsSee(u, e) ==
    [y \in Calls |-> IF calls[y].pc \in {"reset_write", "pw_check", "pw_write"} /\ calls[y].email = e
                     THEN [calls[y] EXCEPT !.taken = @ \cup ({u} \ {calls[y].user})] ELSE calls[y]]

MailBegin(x, u, e, t) ==
    /\ MayCall(x)
    /\ address[u] # Nil
    /\ Matching(address[u], t) # {}
    /\ calls' = [calls EXCEPT ![x] = [NoCall EXCEPT !.pc = "mail_write", !.user = u,
                                          !.email = e, !.token = t]]
    /\ UNCHANGED <<address, verified, ucodes, stray>>

MailWrite(x) ==
    /\ CallAt(x, "mail_write")
    /\ LET u == calls[x].user
           e == calls[x].email
       IN  IF UserAt(e) \subseteq {u}
           THEN /\ Moves(u, e)
                /\ calls' = [CallsSee(u, e) EXCEPT ![x].pc = "mail_delete"]
           ELSE CallEnds(x) /\ UNCHANGED <<address, ucodes>>
    /\ UNCHANGED <<verified, stray>>

MailDelete(x) ==
    /\ CallAt(x, "mail_delete")
    /\ DeleteToken(calls[x].email, calls[x].token)
    /\ CallEnds(x)
    /\ UNCHANGED <<address, verified, stray>>

-----------------------------------------------------------------------------
(* The admin moves an address: his user form asks first whether it is      *)
(* taken, his user list leaves that to the unique key; or removes a user.  *)

Readdress(u, e) ==
    /\ address[u] # Nil
    /\ Moves(u, e)
    /\ calls' = CallsSee(u, e)
    /\ UNCHANGED <<verified, stray>>

UpdateUser(u, e) == UserAt(e) = {} /\ Readdress(u, e)
UpdatedUser(u, e) == UserAt(e) \subseteq {u} /\ Readdress(u, e)
DeleteUser(u) == Readdress(u, Nil)

CodeNext ==
    \/ \E e \in Addresses :
          \/ ForgotPassword(e) \/ ResendVerificationEmail(e)
          \/ \E u \in Users : RequestEmailChange(u, e) \/ UpdateUser(u, e) \/ UpdatedUser(u, e)
    \/ \E u \in Users : DeleteUser(u)
    \/ \E k \in UcodeIds : UcodeExpires(k)
    \/ \E x \in Calls :
          \/ \E e \in Addresses, t \in Tokens : ResetBegin(x, e, t) \/ VerifyBegin(x, e, t)
          \/ \E u \in Users, e \in Addresses, t \in Tokens : MailBegin(x, u, e, t)
          \/ \E u \in Users : PwBegin(x, u)
          \/ ResetWrite(x) \/ ResetDelete(x) \/ VerifyWrite(x)
          \/ PwCheck(x) \/ PwWrite(x) \/ MailWrite(x) \/ MailDelete(x)

CodeSpec == CodeInit /\ [][CodeNext]_codeVars

-----------------------------------------------------------------------------
CodeTypeOK ==
    /\ address \in [Users -> Addresses \cup {Nil}]
    /\ verified \subseteq Users
    /\ ucodes \in [UcodeIds -> SUBSET Ucode]
    /\ calls \in [Calls -> Call]
    /\ stray \subseteq Users

\* A user's password is set by his own call or by a code that was mailed for
\* him, unless he took the address after the code was mailed or the call began,
\* or the code was mailed because another user asked to have his address.
PasswordKeepsToOwner == stray = {}
=============================================================================
