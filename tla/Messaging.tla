----------------------------- MODULE Messaging ------------------------------
(***************************************************************************)
(* Chat and notifications: who is shown online, conversations and their    *)
(* messages, and the switch that silences a user's notifications.          *)
(*   src/src/modules/chat/message/message.gateway.ts, message.service.ts;  *)
(*   src/src/modules/chat/conversation/conversation.service.ts;            *)
(*   src/src/common/repository/chat/chat.repository.ts;                    *)
(*   src/src/modules/notifications/notifications.service.ts.               *)
(* Custom offers, which also travel as messages, are in CustomOffers.      *)
(***************************************************************************)
EXTENDS FiniteSets, Naturals

CONSTANTS
    People,             \* users; the model needs one coach and one athlete
    Sockets,            \* connections; a closed one does not come back
    Threads,            \* primary keys of conversations
    Texts,              \* primary keys of messages
    Prefs,              \* primary keys of user_settings
    Chats,              \* API calls and socket events that may be in flight
    Nowhere

ASSUME NowhereIsNoKey == Nowhere \notin People \cup Sockets \cup Threads \cup Texts \cup Prefs

VARIABLES
    sockets,    \* connections of the chat gateway
    clients,    \* MessageGateway.clients: userId -> socketId
    shown,      \* users.availability
    writes,     \* updateUserStatus calls in flight
    threads, texts,
    view,       \* a client who follows conversations
    setting,    \* is there the row 'notifications_enabled' of settings?
    prefs,      \* user_settings
    chats,      \* the other calls in flight
    seen        \* history, see Seen

chatVars == <<sockets, clients, shown, writes, threads, texts, view, setting, prefs,
             chats, seen>>

Write == [user : People, socket : Sockets, online : BOOLEAN]

Chat == [pc     : {"idle", "thread_make", "text_store", "text_touch", "text_emit", "setting_make",
                   "pref_find", "pref_write", "note_find", "note_make"},
         next   : {"idle", "pref_find", "note_find"},
         user   : People \cup {Nowhere},
         thread : Threads \cup {Nowhere},
         text   : Texts \cup {Nowhere},
         pref   : Prefs \cup {Nowhere},
         on     : BOOLEAN,
         quiet  : BOOLEAN]  \* history: the user was silenced when the call began

NoChat == [pc |-> "idle", next |-> "idle", user |-> Nowhere, thread |-> Nowhere,
           text |-> Nowhere, pref |-> Nowhere, on |-> TRUE, quiet |-> FALSE]

\* mixed: users for whom two status writes were in flight at one time, since the
\* last one that was alone; met: two calls that make a conversation overlapped;
\* silent: users whose last call of the switch turned it off and met no other;
\* unsaid: messages whose call failed after it had stored them.
Seen == [mixed : SUBSET People, met : BOOLEAN, silent : SUBSET People, clash : SUBSET People,
         unsaid : SUBSET Texts]

\* room: the room he joined; texts: the messages he has; whole: has he read the
\* history of the room since he joined it?
View == [room : Threads \cup {Nowhere}, texts : SUBSET Texts, whole : BOOLEAN]

NoView == [room |-> Nowhere, texts |-> {}, whole |-> FALSE]

ChatInit ==
    /\ sockets = [s \in Sockets |-> [user |-> Nowhere, open |-> TRUE]]
    /\ clients = [u \in People |-> Nowhere]
    /\ shown = {}
    /\ writes = {}
    /\ threads = {}
    /\ texts = {}
    /\ view = NoView
    /\ setting = FALSE
    /\ prefs = {}
    /\ chats = [x \in Chats |-> NoChat]
    /\ seen = [mixed |-> {}, met |-> FALSE, silent |-> {}, clash |-> {}, unsaid |-> {}]

ChatAt(x, pc) == chats[x].pc = pc
ChatEnds(x) == chats' = [chats EXCEPT ![x] = NoChat]
InFlight(pc) == {x \in Chats : ChatAt(x, pc)}

PresenceVars == <<sockets, clients, shown, writes>>
ThreadVars == <<threads, texts, view>>
NoteVars == <<setting, prefs>>

-----------------------------------------------------------------------------
(* handleConnection, handleDisconnect: the map at once, the column by an   *)
(* update that ends when it ends.                                          *)

StatusWrite(u, s, online) ==
    /\ writes' = writes \cup {[user |-> u, socket |-> s, online |-> online]}
    /\ seen' = [seen EXCEPT !.mixed = IF \E w \in writes : w.user = u THEN @ \cup {u}
                                      ELSE @ \ {u}]

HandleConnection(s, u) ==
    /\ sockets[s] = [user |-> Nowhere, open |-> TRUE]
    /\ sockets' = [sockets EXCEPT ![s].user = u]
    /\ clients' = [clients EXCEPT ![u] = s]
    /\ StatusWrite(u, s, TRUE)
    /\ UNCHANGED <<shown, ThreadVars, NoteVars, chats>>

\* Mutant: the user of the socket is shown offline, whatever socket he has now.
HandleDisconnectAny(s) ==
    /\ sockets[s].open /\ sockets[s].user # Nowhere
    /\ sockets' = [sockets EXCEPT ![s].open = FALSE]
    /\ StatusWrite(sockets[s].user, s, FALSE)
    /\ UNCHANGED <<clients, shown, ThreadVars, NoteVars, chats>>

HandleDisconnect(s) ==
    /\ sockets[s].open /\ sockets[s].user # Nowhere
    /\ sockets' = [sockets EXCEPT ![s].open = FALSE]
    /\ LET u == sockets[s].user
       IN  IF clients[u] = s
           THEN clients' = [clients EXCEPT ![u] = Nowhere] /\ StatusWrite(u, s, FALSE)
           ELSE UNCHANGED <<clients, writes, seen>>
    /\ UNCHANGED <<shown, ThreadVars, NoteVars, chats>>

UpdateUserStatus(w) ==
    /\ writes' = writes \ {w}
    /\ shown' = IF w.online THEN shown \cup {w.user} ELSE shown \ {w.user}
    /\ UNCHANGED <<sockets, clients, ThreadVars, NoteVars, chats, seen>>

-----------------------------------------------------------------------------
(* ConversationService.create for the pair of the model, and remove, which *)
(* takes the messages along.                                               *)

\* Mutant: the pair is looked for in one order only.
CreateThreadOneWay(x) ==
    /\ ChatAt(x, "idle")
    /\ chats' = [chats EXCEPT ![x].pc = "thread_make"]
    /\ seen' = [seen EXCEPT !.met = InFlight("thread_make") # {}]
    /\ UNCHANGED <<PresenceVars, ThreadVars, NoteVars>>

CreateThread(x) ==
    /\ ChatAt(x, "idle")
    /\ threads = {}
    /\ chats' = [chats EXCEPT ![x].pc = "thread_make"]
    /\ seen' = [seen EXCEPT !.met = InFlight("thread_make") # {}]
    /\ UNCHANGED <<PresenceVars, ThreadVars, NoteVars>>

ThreadMake(x) ==
    /\ ChatAt(x, "thread_make")
    /\ \E c \in Threads \ threads : threads' = threads \cup {c}
    /\ ChatEnds(x)
    /\ UNCHANGED <<PresenceVars, texts, view, NoteVars, seen>>

RemoveThread(c) ==
    /\ c \in threads
    /\ threads' = threads \ {c}
    /\ texts' = {m \in texts : m.thread # c}
    /\ view' = [view EXCEPT !.texts = @ \ {m.id : m \in texts \ texts'}]
    /\ UNCHANGED <<PresenceVars, NoteVars, chats, seen>>

-----------------------------------------------------------------------------
(* MessageService.create: the row, then the conversation's time; a         *)
(* conversation that is gone fails the call at either.  The room hears of  *)
(* the message after that.  A client joins the room of a conversation and  *)
(* reads its history, in either order.                                     *)

Text == [id : Texts, thread : Threads, status : {"SENT", "DELIVERED", "READ"}]

CreateText(x, c) ==
    /\ ChatAt(x, "idle")
    /\ c \in threads
    /\ chats' = [chats EXCEPT ![x] = [NoChat EXCEPT !.pc = "text_store", !.thread = c]]
    /\ UNCHANGED <<PresenceVars, ThreadVars, NoteVars, seen>>

TextStore(x) ==
    /\ ChatAt(x, "text_store")
    /\ IF chats[x].thread \in threads
       THEN \E i \in Texts \ {m.id : m \in texts} :
               /\ texts' = texts \cup {[id |-> i, thread |-> chats[x].thread, status |-> "SENT"]}
               /\ chats' = [chats EXCEPT ![x].pc = "text_touch", ![x].text = i]
       ELSE ChatEnds(x) /\ UNCHANGED texts
    /\ UNCHANGED <<PresenceVars, threads, view, NoteVars, seen>>

\* Mutant: a message is sent without word to its room.
TextTouchSilently(x) ==
    /\ ChatAt(x, "text_touch")
    /\ ChatEnds(x)
    /\ UNCHANGED <<PresenceVars, ThreadVars, NoteVars, seen>>

TextTouch(x) ==
    /\ ChatAt(x, "text_touch")
    /\ \/ /\ chats[x].thread \in threads
          /\ chats' = [chats EXCEPT ![x].pc = "text_emit"]
          /\ UNCHANGED seen
       \/ /\ ChatEnds(x)                           \* the update fails
          /\ seen' = [seen EXCEPT !.unsaid = @ \cup {chats[x].text}]
    /\ UNCHANGED <<PresenceVars, ThreadVars, NoteVars>>

TextEmit(x) ==
    /\ ChatAt(x, "text_emit")
    /\ view' = IF view.room = chats[x].thread THEN [view EXCEPT !.texts = @ \cup {chats[x].text}]
               ELSE view
    /\ ChatEnds(x)
    /\ UNCHANGED <<PresenceVars, threads, texts, NoteVars, seen>>

\* Any room; the client has one conversation open.
HandleRoomJoin(c) ==
    /\ view.room # c
    /\ view' = [view EXCEPT !.room = c, !.whole = FALSE]
    /\ UNCHANGED <<PresenceVars, threads, texts, NoteVars, chats, seen>>

GetAllMessages(c) ==
    /\ c \in threads
    /\ view' = [view EXCEPT !.texts = @ \cup {m.id : m \in {t \in texts : t.thread = c}},
                            !.whole = @ \/ view.room = c]
    /\ UNCHANGED <<PresenceVars, threads, texts, NoteVars, chats, seen>>

\* The socket is lost, and its rooms with it.
ViewerLost ==
    /\ view' = NoView
    /\ UNCHANGED <<PresenceVars, threads, texts, NoteVars, chats, seen>>

\* Any status, in any order: a late DELIVERED replaces READ.
UpdateMessageStatus(m, st) ==
    /\ m \in texts
    /\ texts' = (texts \ {m}) \cup {[m EXCEPT !.status = st]}
    /\ UNCHANGED <<PresenceVars, threads, view, NoteVars, chats, seen>>

-----------------------------------------------------------------------------
(* The switch of the notifications: a settings row for all, made by the    *)
(* first call (a second maker fails on its unique key), and a row of       *)
(* user_settings for each user, which has no unique key.                   *)

SwitchCalls(u) ==
    {x \in Chats : chats[x].user = u /\ (chats[x].pc \in {"pref_find", "pref_write"}
                                          \/ chats[x].next = "pref_find")}

\* getOrCreateNotificationSettingId: a call that saw no row makes it.
Begin(x, c, next) ==
    chats' = [chats EXCEPT ![x] = IF setting THEN [c EXCEPT !.pc = next]
                                  ELSE [c EXCEPT !.pc = "setting_make", !.next = next]]

SettingMake(x) ==
    /\ ChatAt(x, "setting_make")
    /\ setting' = TRUE
    /\ IF setting THEN ChatEnds(x)
       ELSE chats' = [chats EXCEPT ![x].pc = chats[x].next, ![x].next = "idle"]
    /\ UNCHANGED <<PresenceVars, ThreadVars, prefs, seen>>

RowsOfUser(u) == {p \in prefs : p.user = u}

SetNotificationEnabled(x, u, on) ==
    /\ ChatAt(x, "idle")
    /\ Begin(x, [NoChat EXCEPT !.user = u, !.on = on], "pref_find")
    /\ seen' = [seen EXCEPT
                    !.silent = @ \ {u},
                    !.clash = IF SwitchCalls(u) # {} THEN @ \cup {u} ELSE @]
    /\ UNCHANGED <<PresenceVars, ThreadVars, NoteVars>>

\* Mutant: the row that is there is not looked for.
PrefFindNothing(x) ==
    /\ ChatAt(x, "pref_find")
    /\ chats' = [chats EXCEPT ![x].pc = "pref_write"]
    /\ UNCHANGED <<PresenceVars, ThreadVars, NoteVars, seen>>

PrefFind(x) ==
    /\ ChatAt(x, "pref_find")
    /\ LET rows == RowsOfUser(chats[x].user)
       IN  IF rows = {} THEN chats' = [chats EXCEPT ![x].pc = "pref_write"]
           ELSE \E p \in rows : chats' = [chats EXCEPT ![x].pc = "pref_write", ![x].pref = p.id]
    /\ UNCHANGED <<PresenceVars, ThreadVars, NoteVars, seen>>

Silenced(x) == [seen EXCEPT !.silent = IF chats[x].on \/ chats[x].user \in seen.clash THEN @
                                       ELSE @ \cup {chats[x].user}]

PrefWrite(x) ==
    /\ ChatAt(x, "pref_write")
    /\ LET u == chats[x].user
           Row(i) == [id |-> i, user |-> u, on |-> chats[x].on]
       IN  IF chats[x].pref # Nowhere
           THEN prefs' = {p \in prefs : p.id # chats[x].pref} \cup {Row(chats[x].pref)}
           ELSE \E i \in Prefs \ {p.id : p \in prefs} : prefs' = prefs \cup {Row(i)}
    /\ seen' = Silenced(x)
    /\ ChatEnds(x)
    /\ UNCHANGED <<PresenceVars, ThreadVars, setting>>

\* sendNotification: the switch is read, then the notification is made; no row,
\* or a row that is on, lets it pass.
SendNotification(x, u) ==
    /\ ChatAt(x, "idle")
    /\ Begin(x, [NoChat EXCEPT !.user = u, !.quiet = u \in seen.silent], "note_find")
    /\ UNCHANGED <<PresenceVars, ThreadVars, NoteVars, seen>>

NoteFind(x) ==
    /\ ChatAt(x, "note_find")
    /\ LET rows == RowsOfUser(chats[x].user)
       IN  \/ /\ rows = {} \/ (\E p \in rows : p.on)
              /\ chats' = [chats EXCEPT ![x].pc = "note_make",
                                        ![x].quiet = @ /\ chats[x].user \in seen.silent]
           \/ /\ \E p \in rows : ~p.on
              /\ ChatEnds(x)
    /\ UNCHANGED <<PresenceVars, ThreadVars, NoteVars, seen>>

NoteMake(x) ==
    /\ ChatAt(x, "note_make")
    /\ ChatEnds(x)
    /\ UNCHANGED <<PresenceVars, ThreadVars, NoteVars, seen>>

PresenceNext ==
    \/ \E s \in Sockets : HandleDisconnect(s) \/ (\E u \in People : HandleConnection(s, u))
    \/ \E w \in writes : UpdateUserStatus(w)

ThreadNext ==
    \/ \E x \in Chats :
          \/ CreateThread(x) \/ ThreadMake(x)
          \/ (\E c \in Threads : CreateText(x, c)) \/ TextStore(x) \/ TextTouch(x)
          \/ TextEmit(x)
    \/ \E c \in Threads : RemoveThread(c) \/ HandleRoomJoin(c) \/ GetAllMessages(c)
    \/ ViewerLost
    \/ \E m \in texts, st \in {"SENT", "DELIVERED", "READ"} : UpdateMessageStatus(m, st)

NoteNext ==
    \E x \in Chats :
       \/ \E u \in People : \/ SendNotification(x, u)
                            \/ \E on \in BOOLEAN : SetNotificationEnabled(x, u, on)
       \/ SettingMake(x) \/ PrefFind(x) \/ PrefWrite(x) \/ NoteFind(x) \/ NoteMake(x)

ChatNext == PresenceNext \/ ThreadNext \/ NoteNext

ChatSpec == ChatInit /\ [][ChatNext]_chatVars

-----------------------------------------------------------------------------
ChatTypeOK ==
    /\ sockets \in [Sockets -> [user : People \cup {Nowhere}, open : BOOLEAN]]
    /\ clients \in [People -> Sockets \cup {Nowhere}]
    /\ shown \subseteq People
    /\ writes \subseteq Write
    /\ threads \subseteq Threads
    /\ texts \subseteq Text
    /\ view \in View
    /\ setting \in BOOLEAN
    /\ prefs \subseteq [id : Prefs, user : People, on : BOOLEAN]
    /\ chats \in [Chats -> Chat]
    /\ seen \in Seen

\* When no update of his status is under way, a user is shown online exactly if
\* the gateway holds a socket for him that is open, also after he came back on a
\* new socket before the old one was lost, unless two such updates overlapped.
PresenceSettles ==
    \A u \in People :
        (\A w \in writes : w.user # u) /\ u \notin seen.mixed =>
            (u \in shown <=> \E s \in Sockets :
                                clients[u] = s /\ sockets[s] = [user |-> u, open |-> TRUE])

\* The pair has one conversation, unless two calls that made it overlapped.
OneConversationPerPair == Cardinality(threads) > 1 => seen.met

\* A client who joined the room of a conversation before he read its history has
\* every message of it that is stored, once no call that sends one is under way,
\* but those whose call failed after it had stored them.
RoomMissesNothing ==
    view.whole /\ InFlight("text_touch") \cup InFlight("text_emit") = {} =>
        \A m \in texts : m.thread = view.room => m.id \in view.texts \cup seen.unsaid

\* A notification is not made for a user who had turned them off before the call
\* began and has not touched the switch since, unless two calls of the switch
\* overlapped for him.
SilenceKept == \A x \in Chats : ChatAt(x, "note_make") => ~chats[x].quiet
=============================================================================
