-------------------------- MODULE CommunityProofs ---------------------------
(***************************************************************************)
(* Theorems about Messaging, Reviews, Goals, Badges and Pages, for any     *)
(* number of users, calls in flight and rows, and about the run of all of  *)
(* them: what is made once is there once, figures follow the rows they are *)
(* computed from, and a client is shown what there is.                     *)
(***************************************************************************)
EXTENDS MCCommunity, TLAPS, FiniteSetTheorems, SumTheorems

-----------------------------------------------------------------------------
(* Messaging: the types.  A call holds the keys it goes on to use.         *)

SwitchPC == {"pref_find", "pref_write", "note_find", "note_make"}

Carries(l) ==
    /\ l.pc = "text_store" => l.thread \in Threads
    /\ l.pc \in {"text_touch", "text_emit"} => l.text \in Texts
    /\ l.pc \in SwitchPC \cup {"setting_make"} => l.user \in People

ChatTypeInv == ChatTypeOK /\ \A x \in Chats : Carries(chats[x])

\* A handler of the chat that is not running holds nothing.
LEMMA NoChatType == NoChat \in Chat /\ Carries(NoChat)
  BY DEF NoChat, Chat, Carries, SwitchPC

\* A step that gives one call locals of the right shape keeps all of them so.
LEMMA ChatStepType ==
  ASSUME ChatTypeInv, NEW x \in Chats, NEW l \in Chat, Carries(l), chats' = [chats EXCEPT ![x] = l]
  PROVE  chats' \in [Chats -> Chat] /\ \A y \in Chats : Carries(chats'[y])
  BY DEF ChatTypeInv, ChatTypeOK

\* So does the end of a call.
LEMMA ChatEndsType ==
  ASSUME ChatTypeInv, NEW x \in Chats, ChatEnds(x)
  PROVE  chats' \in [Chats -> Chat] /\ \A y \in Chats : Carries(chats'[y])
  BY NoChatType, ChatStepType DEF ChatEnds

\* A call of one user begins with the settings row or without it.
LEMMA BeginType ==
  ASSUME ChatTypeInv, NEW x \in Chats, NEW next \in {"pref_find", "note_find"}, NEW c \in Chat,
         c.user \in People, Begin(x, c, next)
  PROVE  chats' \in [Chats -> Chat] /\ \A y \in Chats : Carries(chats'[y])
<1>2. CASE setting
  <2> DEFINE l == [c EXCEPT !.pc = next]
  <2>1. l \in Chat /\ Carries(l)
    BY DEF Chat, Carries, SwitchPC
  <2>2. chats' = [chats EXCEPT ![x] = l]
    BY <1>2 DEF Begin
  <2>. QED  BY <2>1, <2>2, ChatStepType
<1>3. CASE ~setting
  <2> DEFINE l == [c EXCEPT !.pc = "setting_make", !.next = next]
  <2>1. l \in Chat /\ Carries(l)
    BY DEF Chat, Carries, SwitchPC
  <2>2. chats' = [chats EXCEPT ![x] = l]
    BY <1>3 DEF Begin
  <2>. QED  BY <2>1, <2>2, ChatStepType
<1>. QED
  BY <1>2, <1>3

\* Before the first socket the types hold.
LEMMA ChatInitTypes == ChatInit => ChatTypeInv
<1>. SUFFICES ASSUME ChatInit PROVE ChatTypeInv
  OBVIOUS
<1>1. view \in View /\ seen \in Seen
  BY DEF ChatInit, NoView, View, Seen
<1>2. /\ sockets \in [Sockets -> [user : People \cup {Nowhere}, open : BOOLEAN]]
      /\ clients \in [People -> Sockets \cup {Nowhere}]
  BY DEF ChatInit
<1>3. chats \in [Chats -> Chat] /\ \A x \in Chats : Carries(chats[x])
  BY NoChatType DEF ChatInit
<1>. QED
  BY <1>1, <1>2, <1>3 DEF ChatInit, ChatTypeInv, ChatTypeOK

\* Connections and the updates they cause.
LEMMA PresenceTypes == ASSUME ChatTypeInv, PresenceNext PROVE ChatTypeInv'
<1>0. /\ sockets \in [Sockets -> [user : People \cup {Nowhere}, open : BOOLEAN]]
      /\ clients \in [People -> Sockets \cup {Nowhere}]
      /\ shown \subseteq People /\ writes \subseteq Write /\ seen \in Seen
  BY DEF ChatTypeInv, ChatTypeOK
<1>1. ASSUME NEW s \in Sockets, NEW u \in People, NEW online \in BOOLEAN, StatusWrite(u, s, online)
      PROVE  writes' \subseteq Write /\ seen' \in Seen
  <2>1. [user |-> u, socket |-> s, online |-> online] \in Write
    BY DEF Write
  <2>2. seen' \in Seen
    BY <1>0, <1>1 DEF StatusWrite, Seen
  <2>. QED  BY <2>1, <2>2, <1>0, <1>1 DEF StatusWrite
<1>2. ASSUME NEW s \in Sockets, NEW u \in People, HandleConnection(s, u) PROVE ChatTypeInv'
  <2>1. StatusWrite(u, s, TRUE)
    BY <1>2 DEF HandleConnection
  <2>2. writes' \subseteq Write /\ seen' \in Seen
    BY <2>1, <1>1
  <2>3. /\ sockets' \in [Sockets -> [user : People \cup {Nowhere}, open : BOOLEAN]]
        /\ clients' \in [People -> Sockets \cup {Nowhere}]
    BY <1>0, <1>2 DEF HandleConnection
  <2>. QED
    BY <1>2, <2>2, <2>3 DEF HandleConnection, ChatTypeInv, ChatTypeOK, ThreadVars, NoteVars
<1>3. ASSUME NEW s \in Sockets, HandleDisconnect(s) PROVE ChatTypeInv'
  <2>1. sockets[s].user \in People
    BY <1>0, <1>3 DEF HandleDisconnect
  <2>2. sockets' \in [Sockets -> [user : People \cup {Nowhere}, open : BOOLEAN]]
    BY <1>0, <1>3 DEF HandleDisconnect
  <2>3. clients' \in [People -> Sockets \cup {Nowhere}] /\ writes' \subseteq Write /\ seen' \in Seen
    <3>1. CASE clients[sockets[s].user] = s
      <4>1. /\ clients' = [clients EXCEPT ![sockets[s].user] = Nowhere]
            /\ StatusWrite(sockets[s].user, s, FALSE)
        BY <1>3, <3>1 DEF HandleDisconnect
      <4>. QED  BY <4>1, <2>1, <1>0, <1>1
    <3>2. CASE clients[sockets[s].user] # s
      BY <1>3, <3>2, <1>0 DEF HandleDisconnect
    <3>. QED  BY <3>1, <3>2
  <2>. QED
    BY <1>3, <2>2, <2>3 DEF HandleDisconnect, ChatTypeInv, ChatTypeOK, ThreadVars, NoteVars
<1>4. ASSUME NEW w \in writes, UpdateUserStatus(w) PROVE ChatTypeInv'
  <2>1. w.user \in People
    BY <1>0 DEF Write
  <2>2. shown' \subseteq People /\ writes' \subseteq Write
    BY <2>1, <1>0, <1>4 DEF UpdateUserStatus
  <2>. QED
    BY <1>4, <2>2 DEF UpdateUserStatus, ChatTypeInv, ChatTypeOK, ThreadVars, NoteVars
<1>. QED
  BY <1>2, <1>3, <1>4 DEF PresenceNext

\* Conversations and their messages.
LEMMA ThreadTypes == ASSUME ChatTypeInv, ThreadNext PROVE ChatTypeInv'
<1>. USE NowhereIsNoKey
<1>0. /\ threads \subseteq Threads /\ texts \subseteq Text /\ view \in View /\ seen \in Seen
      /\ chats \in [Chats -> Chat]
      /\ \A x \in Chats : chats[x] \in Chat /\ Carries(chats[x])
  BY DEF ChatTypeInv, ChatTypeOK
<1>1. ASSUME NEW x \in Chats, CreateThread(x) PROVE ChatTypeInv'
  <2> DEFINE l == [chats[x] EXCEPT !.pc = "thread_make"]
  <2>1. l \in Chat /\ Carries(l)
    BY <1>0 DEF Chat, Carries, SwitchPC
  <2>2. chats' \in [Chats -> Chat] /\ \A y \in Chats : Carries(chats'[y])
    BY <1>1, <2>1, ChatStepType DEF CreateThread
  <2>3. seen' \in Seen
    BY <1>0, <1>1 DEF CreateThread, Seen
  <2>. QED
    BY <1>1, <2>2, <2>3 DEF CreateThread, ChatTypeInv, ChatTypeOK, PresenceVars, ThreadVars, NoteVars
<1>2. ASSUME NEW x \in Chats, ThreadMake(x) PROVE ChatTypeInv'
  <2>1. threads' \subseteq Threads
    BY <1>0, <1>2 DEF ThreadMake
  <2>. QED
    BY <1>2, <2>1, ChatEndsType DEF ThreadMake, ChatTypeInv, ChatTypeOK, PresenceVars, NoteVars
<1>3. ASSUME NEW x \in Chats, NEW c \in Threads, CreateText(x, c) PROVE ChatTypeInv'
  <2> DEFINE l == [NoChat EXCEPT !.pc = "text_store", !.thread = c]
  <2>1. l \in Chat /\ Carries(l)
    BY DEF NoChat, Chat, Carries, SwitchPC
  <2>2. chats' \in [Chats -> Chat] /\ \A y \in Chats : Carries(chats'[y])
    BY <1>3, <2>1, ChatStepType DEF CreateText
  <2>. QED
    BY <1>3, <2>2 DEF CreateText, ChatTypeInv, ChatTypeOK, PresenceVars, ThreadVars, NoteVars
<1>4. ASSUME NEW x \in Chats, TextStore(x) PROVE ChatTypeInv'
  <2>1. CASE chats[x].thread \in threads
    <3>1. PICK i \in Texts :
            /\ texts' = texts \cup {[id |-> i, thread |-> chats[x].thread, status |-> "SENT"]}
            /\ chats' = [chats EXCEPT ![x].pc = "text_touch", ![x].text = i]
      BY <1>4, <2>1 DEF TextStore
    <3> DEFINE l == [chats[x] EXCEPT !.pc = "text_touch", !.text = i]
    <3>2. l \in Chat /\ Carries(l)
      BY ZenonT(60), <1>0 DEF Chat, Carries, SwitchPC
    <3>3. chats' = [chats EXCEPT ![x] = l]
      BY <3>1, <1>0 DEF Chat
    <3>4. texts' \subseteq Text
      BY <2>1, <3>1, <1>0 DEF Text
    <3>5. chats' \in [Chats -> Chat] /\ \A y \in Chats : Carries(chats'[y])
      BY <3>2, <3>3, ChatStepType
    <3>. QED
      BY <1>4, <3>4, <3>5 DEF TextStore, ChatTypeInv, ChatTypeOK, PresenceVars, NoteVars
  <2>2. CASE chats[x].thread \notin threads
    BY <1>4, <2>2, ChatEndsType DEF TextStore, ChatTypeInv, ChatTypeOK, PresenceVars, NoteVars
  <2>. QED  BY <2>1, <2>2
<1>5. ASSUME NEW x \in Chats, TextTouch(x) PROVE ChatTypeInv'
  <2>1. CASE chats' = [chats EXCEPT ![x].pc = "text_emit"] /\ UNCHANGED seen
    <3> DEFINE l == [chats[x] EXCEPT !.pc = "text_emit"]
    <3>1. l \in Chat /\ Carries(l)
      BY <1>0, <1>5 DEF Chat, Carries, SwitchPC, TextTouch, ChatAt
    <3>2. chats' \in [Chats -> Chat] /\ \A y \in Chats : Carries(chats'[y])
      BY <2>1, <3>1, ChatStepType
    <3>. QED
      BY <1>5, <2>1, <3>2 DEF TextTouch, ChatTypeInv, ChatTypeOK, PresenceVars, ThreadVars, NoteVars
  <2>2. CASE ChatEnds(x) /\ seen' = [seen EXCEPT !.unsaid = @ \cup {chats[x].text}]
    <3>1. chats[x].text \in Texts
      BY <1>0, <1>5 DEF TextTouch, ChatAt, Carries
    <3>2. seen' \in Seen
      BY <1>0, <2>2, <3>1 DEF Seen
    <3>. QED
      BY <1>5, <2>2, <3>2, ChatEndsType
      DEF TextTouch, ChatTypeInv, ChatTypeOK, PresenceVars, ThreadVars, NoteVars
  <2>. QED  BY <1>5, <2>1, <2>2 DEF TextTouch
<1>6. ASSUME NEW x \in Chats, TextEmit(x) PROVE ChatTypeInv'
  <2>1. chats[x].text \in Texts
    BY <1>0, <1>6 DEF TextEmit, ChatAt, Carries
  <2>2. view' \in View
    BY <1>0, <1>6, <2>1 DEF TextEmit, View
  <2>. QED
    BY <1>6, <2>2, ChatEndsType DEF TextEmit, ChatTypeInv, ChatTypeOK, PresenceVars, NoteVars
<1>7. ASSUME NEW c \in Threads, RemoveThread(c) PROVE ChatTypeInv'
  <2>1. threads' \subseteq Threads /\ texts' \subseteq Text /\ view' \in View
    BY <1>0, <1>7 DEF RemoveThread, View
  <2>. QED
    BY <1>7, <2>1 DEF RemoveThread, ChatTypeInv, ChatTypeOK, PresenceVars, NoteVars
<1>8. ASSUME NEW c \in Threads, HandleRoomJoin(c) PROVE ChatTypeInv'
  <2>1. view' \in View
    BY <1>0, <1>8 DEF HandleRoomJoin, View
  <2>. QED
    BY <1>8, <2>1 DEF HandleRoomJoin, ChatTypeInv, ChatTypeOK, PresenceVars, NoteVars
<1>9. ASSUME NEW c \in Threads, GetAllMessages(c) PROVE ChatTypeInv'
  <2>1. {m.id : m \in {t \in texts : t.thread = c}} \subseteq Texts
    BY <1>0 DEF Text
  <2>2. view.whole \in BOOLEAN /\ (view.room = c) \in BOOLEAN
    BY <1>0 DEF View
  <2>3. view' \in View
    BY <1>0, <1>9, <2>1, <2>2 DEF GetAllMessages, View
  <2>. QED
    BY <1>9, <2>3 DEF GetAllMessages, ChatTypeInv, ChatTypeOK, PresenceVars, NoteVars
<1>10. ASSUME ViewerLost PROVE ChatTypeInv'
  <2>1. view' \in View
    BY <1>10 DEF ViewerLost, NoView, View
  <2>. QED
    BY <1>10, <2>1 DEF ViewerLost, ChatTypeInv, ChatTypeOK, PresenceVars, NoteVars
<1>11. ASSUME NEW m \in texts, NEW st \in {"SENT", "DELIVERED", "READ"}, UpdateMessageStatus(m, st)
       PROVE  ChatTypeInv'
  <2>1. texts' \subseteq Text
    BY <1>0, <1>11 DEF UpdateMessageStatus, Text
  <2>. QED
    BY <1>11, <2>1 DEF UpdateMessageStatus, ChatTypeInv, ChatTypeOK, PresenceVars, NoteVars
<1>. QED
  BY <1>1, <1>2, <1>3, <1>4, <1>5, <1>6, <1>7, <1>8, <1>9, <1>10, <1>11 DEF ThreadNext

\* The switch and the notifications.
LEMMA NoteTypes == ASSUME ChatTypeInv, NoteNext PROVE ChatTypeInv'
<1>. USE NowhereIsNoKey
<1>0. /\ prefs \subseteq [id : Prefs, user : People, on : BOOLEAN] /\ seen \in Seen
      /\ setting \in BOOLEAN
      /\ chats \in [Chats -> Chat]
      /\ \A x \in Chats : chats[x] \in Chat /\ Carries(chats[x])
  BY DEF ChatTypeInv, ChatTypeOK
<1>1. ASSUME NEW x \in Chats, NEW u \in People, SendNotification(x, u) PROVE ChatTypeInv'
  <2> DEFINE c(q) == [NoChat EXCEPT !.user = u, !.quiet = q]
  <2>1. \A q \in BOOLEAN : c(q) \in Chat /\ c(q).user = u
    BY DEF NoChat, Chat
  <2>2. (u \in seen.silent) \in BOOLEAN
    OBVIOUS
  <2>3. c(u \in seen.silent) \in Chat /\ c(u \in seen.silent).user = u
        /\ Begin(x, c(u \in seen.silent), "note_find")
    BY <1>1, <2>1, <2>2, Zenon DEF SendNotification
  <2>4. chats' \in [Chats -> Chat] /\ \A y \in Chats : Carries(chats'[y])
    BY <2>3, BeginType
  <2>. QED
    BY <1>1, <2>4
    DEF SendNotification, ChatTypeInv, ChatTypeOK, PresenceVars, ThreadVars, NoteVars
<1>2. ASSUME NEW x \in Chats, NEW u \in People, NEW on \in BOOLEAN, SetNotificationEnabled(x, u, on)
      PROVE  ChatTypeInv'
  <2> DEFINE c == [NoChat EXCEPT !.user = u, !.on = on]
  <2>1. c \in Chat /\ c.user = u
    BY DEF NoChat, Chat
  <2>2. Begin(x, c, "pref_find")
    BY <1>2 DEF SetNotificationEnabled
  <2>3. chats' \in [Chats -> Chat] /\ \A y \in Chats : Carries(chats'[y])
    BY <2>1, <2>2, BeginType
  <2>4. seen' \in Seen
    BY <1>0, <1>2 DEF SetNotificationEnabled, Seen
  <2>. QED
    BY <1>2, <2>3, <2>4
    DEF SetNotificationEnabled, ChatTypeInv, ChatTypeOK, PresenceVars, ThreadVars, NoteVars
<1>3. ASSUME NEW x \in Chats, SettingMake(x) PROVE ChatTypeInv'
  <2>1. chats' \in [Chats -> Chat] /\ \A y \in Chats : Carries(chats'[y])
    <3>1. CASE setting
      BY <1>3, <3>1, ChatEndsType DEF SettingMake
    <3>2. CASE ~setting
      <4> DEFINE l == [chats[x] EXCEPT !.pc = chats[x].next, !.next = "idle"]
      <4>1. l \in Chat /\ Carries(l)
        BY ZenonT(60), <1>0, <1>3 DEF Chat, Carries, SwitchPC, SettingMake, ChatAt
      <4>2. chats' = [chats EXCEPT ![x] = l]
        BY <1>0, <1>3, <3>2 DEF SettingMake, Chat
      <4>. QED  BY <4>1, <4>2, ChatStepType
    <3>. QED  BY <3>1, <3>2
  <2>. QED
    BY <1>3, <2>1 DEF SettingMake, ChatTypeInv, ChatTypeOK, PresenceVars, ThreadVars
<1>4. ASSUME NEW x \in Chats, PrefFind(x) PROVE ChatTypeInv'
  <2>0. chats[x] \in Chat /\ chats[x].user \in People
    BY <1>0, <1>4 DEF PrefFind, ChatAt, Carries, SwitchPC
  <2>1. chats' \in [Chats -> Chat] /\ \A y \in Chats : Carries(chats'[y])
    <3>1. CASE chats' = [chats EXCEPT ![x].pc = "pref_write"]
      <4> DEFINE l == [chats[x] EXCEPT !.pc = "pref_write"]
      <4>1. l \in Chat /\ Carries(l)
        BY <2>0 DEF Chat, Carries, SwitchPC
      <4>. QED  BY <3>1, <4>1, ChatStepType
    <3>2. ASSUME NEW p \in prefs, chats' = [chats EXCEPT ![x].pc = "pref_write", ![x].pref = p.id]
          PROVE  chats' \in [Chats -> Chat] /\ \A y \in Chats : Carries(chats'[y])
      <4>1. PICK k \in Prefs : k = p.id
        BY <1>0
      <4> DEFINE l == [chats[x] EXCEPT !.pc = "pref_write", !.pref = k]
      <4>2. l \in Chat /\ Carries(l)
        BY <2>0 DEF Chat, Carries, SwitchPC
      <4>3. chats' = [chats EXCEPT ![x] = l]
        BY <1>0, <3>2, <4>1 DEF Chat
      <4>. QED  BY <4>2, <4>3, ChatStepType
    <3>. QED  BY <1>4, <3>1, <3>2 DEF PrefFind, RowsOfUser
  <2>. QED
    BY <1>4, <2>1 DEF PrefFind, ChatTypeInv, ChatTypeOK, PresenceVars, ThreadVars, NoteVars
<1>5. ASSUME NEW x \in Chats, PrefWrite(x) PROVE ChatTypeInv'
  <2>1. chats[x].user \in People /\ chats[x].on \in BOOLEAN
        /\ chats[x].pref \in Prefs \cup {Nowhere}
    BY <1>0, <1>5 DEF PrefWrite, ChatAt, Carries, SwitchPC, Chat
  <2>2. prefs' \subseteq [id : Prefs, user : People, on : BOOLEAN]
    BY <1>0, <1>5, <2>1 DEF PrefWrite
  <2>3. seen' \in Seen
    BY <1>0, <1>5, <2>1 DEF PrefWrite, Silenced, Seen
  <2>. QED
    BY <1>5, <2>2, <2>3, ChatEndsType
    DEF PrefWrite, ChatTypeInv, ChatTypeOK, PresenceVars, ThreadVars
<1>6. ASSUME NEW x \in Chats, NoteFind(x) PROVE ChatTypeInv'
  <2>0. chats[x] \in Chat /\ chats[x].user \in People
    BY <1>0, <1>6 DEF NoteFind, ChatAt, Carries, SwitchPC
  <2>1. chats' \in [Chats -> Chat] /\ \A y \in Chats : Carries(chats'[y])
    <3>1. CASE ChatEnds(x)
      BY <3>1, ChatEndsType
    <3>2. CASE chats' = [chats EXCEPT ![x].pc = "note_make",
                                      ![x].quiet = @ /\ chats[x].user \in seen.silent]
      <4> DEFINE l(q) == [chats[x] EXCEPT !.pc = "note_make", !.quiet = q]
                 q == chats[x].quiet /\ chats[x].user \in seen.silent
      <4>1. \A r \in BOOLEAN : l(r) \in Chat /\ Carries(l(r))
        BY <2>0 DEF Chat, Carries, SwitchPC
      <4>2. q \in BOOLEAN
        OBVIOUS
      <4>3. l(q) \in Chat /\ Carries(l(q))
        BY <4>1, <4>2, Zenon
      <4>4. chats' = [chats EXCEPT ![x] = l(q)]
        BY <1>0, <3>2 DEF Chat
      <4>. QED  BY <4>3, <4>4, ChatStepType
    <3>. QED  BY <1>6, <3>1, <3>2 DEF NoteFind
  <2>. QED
    BY <1>6, <2>1 DEF NoteFind, ChatTypeInv, ChatTypeOK, PresenceVars, ThreadVars, NoteVars
<1>7. ASSUME NEW x \in Chats, NoteMake(x) PROVE ChatTypeInv'
  BY <1>7, ChatEndsType DEF NoteMake, ChatTypeInv, ChatTypeOK, PresenceVars, ThreadVars, NoteVars
<1>. QED
  BY <1>1, <1>2, <1>3, <1>4, <1>5, <1>6, <1>7 DEF NoteNext

\* A step of another component keeps the types of the chat.
LEMMA ChatStutterTypes == ASSUME ChatTypeInv, UNCHANGED chatVars PROVE ChatTypeInv'
  BY DEF chatVars, ChatTypeInv, ChatTypeOK

\* Every step keeps them.
LEMMA ChatNextTypes == ChatTypeInv /\ [ChatNext]_chatVars => ChatTypeInv'
  BY PresenceTypes, ThreadTypes, NoteTypes, ChatStutterTypes DEF ChatNext

\* The rows of the chat, the gateway's map and the locals of every call keep their
\* types, and a call holds the keys it goes on to use.
THEOREM ChatTypesKept == ChatSpec => []ChatTypeOK
<1>1. ChatTypeInv => ChatTypeOK
  BY DEF ChatTypeInv
<1>. QED
  BY <1>1, ChatInitTypes, ChatNextTypes, PTL DEF ChatSpec

-----------------------------------------------------------------------------
(* Messaging: who is shown online.  The map of the gateway holds open      *)
(* sockets only; a user whose updates did not meet has one under way at    *)
(* most, and it says what the map says.                                    *)

MapOpen(u) == clients[u] # Nowhere => sockets[clients[u]] = [user |-> u, open |-> TRUE]

WritesOf(u) == {w \in writes : w.user = u}

Settled(u) ==
    /\ \A w, v \in WritesOf(u) : w = v
    /\ \A w \in WritesOf(u) : w.online <=> clients[u] # Nowhere
    /\ WritesOf(u) = {} => (u \in shown <=> clients[u] # Nowhere)

PresenceInv == \A u \in People : MapOpen(u) /\ (u \notin seen.mixed => Settled(u))

\* A connection keeps what is known of the writes under way.
LEMMA ConnectionSettles ==
  ASSUME ChatTypeInv, PresenceInv, NEW s \in Sockets, NEW u \in People, HandleConnection(s, u)
  PROVE  PresenceInv'
<1>. USE NowhereIsNoKey
<1>0. /\ sockets \in [Sockets -> [user : People \cup {Nowhere}, open : BOOLEAN]]
      /\ clients \in [People -> Sockets \cup {Nowhere}]
      /\ seen \in Seen
  BY DEF ChatTypeInv, ChatTypeOK
<1> DEFINE n == [user |-> u, socket |-> s, online |-> TRUE]
<1>1. /\ sockets' = [sockets EXCEPT ![s].user = u] /\ clients' = [clients EXCEPT ![u] = s]
      /\ sockets[s] = [user |-> Nowhere, open |-> TRUE]
      /\ writes' = writes \cup {n} /\ shown' = shown
      /\ seen' = [seen EXCEPT !.mixed = IF \E w \in writes : w.user = u THEN @ \cup {u}
                                        ELSE @ \ {u}]
  BY DEF HandleConnection, StatusWrite
<1>2. ASSUME NEW v \in People PROVE MapOpen(v)'
  <2>1. MapOpen(v)
    BY DEF PresenceInv
  <2>2. CASE v = u
    <3>1. sockets'[s] = [sockets[s] EXCEPT !.user = u] /\ clients'[u] = s
      BY <1>0, <1>1
    <3>2. sockets[s].open = TRUE /\ sockets[s] \in [user : People \cup {Nowhere}, open : BOOLEAN]
      BY <1>0, <1>1
    <3>3. sockets'[s] = [user |-> u, open |-> TRUE]
      BY <3>1, <3>2
    <3>. QED  BY <2>2, <3>1, <3>3 DEF MapOpen
  <2>3. CASE v # u
    <3>1. clients'[v] = clients[v]
      BY <1>0, <1>1, <2>3
    <3>2. clients[v] # s
      BY <1>1, <2>1 DEF MapOpen
    <3>3. clients[v] # Nowhere => sockets'[clients[v]] = sockets[clients[v]]
      BY <1>0, <1>1, <3>2
    <3>. QED  BY <2>1, <3>1, <3>3 DEF MapOpen
  <2>. QED  BY <2>2, <2>3
<1>3. ASSUME NEW v \in People, v \notin seen'.mixed PROVE Settled(v)'
  <2>1. CASE v = u
    <3>1. \A w \in writes : w.user # u
      BY <1>0, <1>1, <1>3, <2>1 DEF Seen
    <3>2. WritesOf(u)' = {n}
      BY <1>1, <3>1 DEF WritesOf
    <3>3. clients'[u] = s
      BY <1>0, <1>1
    <3>4. n.online = TRUE /\ s # Nowhere
      OBVIOUS
    <3>. HIDE DEF n
    <3>. QED  BY <2>1, <3>2, <3>3, <3>4 DEF Settled
  <2>2. CASE v # u
    <3>1. WritesOf(v)' = WritesOf(v)
      BY <1>1, <2>2 DEF WritesOf
    <3>2. clients'[v] = clients[v] /\ shown' = shown
      BY <1>0, <1>1, <2>2
    <3>3. v \notin seen.mixed
      BY <1>0, <1>1, <1>3, <2>2 DEF Seen
    <3>. QED  BY <3>1, <3>2, <3>3 DEF PresenceInv, Settled
  <2>. QED  BY <2>1, <2>2
<1>. QED
  BY <1>2, <1>3 DEF PresenceInv

\* So does a disconnection.
LEMMA DisconnectSettles ==
  ASSUME ChatTypeInv, PresenceInv, NEW s \in Sockets, HandleDisconnect(s)
  PROVE  PresenceInv'
<1>. USE NowhereIsNoKey
<1>0. /\ sockets \in [Sockets -> [user : People \cup {Nowhere}, open : BOOLEAN]]
      /\ clients \in [People -> Sockets \cup {Nowhere}]
      /\ seen \in Seen
  BY DEF ChatTypeInv, ChatTypeOK
<1>1. sockets[s].user \in People /\ sockets' = [sockets EXCEPT ![s].open = FALSE] /\ shown' = shown
  BY <1>0 DEF HandleDisconnect
<1>u. PICK u \in People : u = sockets[s].user
  BY <1>1
<1> DEFINE n == [user |-> u, socket |-> s, online |-> FALSE]
<1>2. ASSUME NEW v \in People, clients[v] # s PROVE clients'[v] = clients[v] => MapOpen(v)'
  <2>1. MapOpen(v) /\ (clients[v] # Nowhere => clients[v] \in Sockets)
    BY <1>0 DEF PresenceInv
  <2>2. clients[v] # Nowhere => sockets'[clients[v]] = sockets[clients[v]]
    BY <1>0, <1>1, <1>2, <2>1
  <2>. QED  BY <2>1, <2>2 DEF MapOpen
<1>3. ASSUME NEW v \in People, clients[v] = s PROVE v = u
  <2>1. sockets[s] = [user |-> v, open |-> TRUE]
    BY <1>3 DEF PresenceInv, MapOpen
  <2>. QED  BY <1>u, <2>1
<1>4. CASE clients[u] = s
  <2>1. /\ clients' = [clients EXCEPT ![u] = Nowhere]
        /\ writes' = writes \cup {n}
        /\ seen' = [seen EXCEPT !.mixed = IF \E w \in writes : w.user = u THEN @ \cup {u}
                                          ELSE @ \ {u}]
    BY <1>u, <1>4 DEF HandleDisconnect, StatusWrite
  <2>2. clients'[u] = Nowhere /\ \A v \in People \ {u} : clients'[v] = clients[v]
    BY <1>0, <1>1, <2>1
  <2>3. \A v \in People : MapOpen(v)'
    BY <1>2, <1>3, <2>2 DEF MapOpen
  <2>4. ASSUME NEW v \in People, v \notin seen'.mixed PROVE Settled(v)'
    <3>1. CASE v = u
      <4>1. \A w \in writes : w.user # u
        BY <1>0, <2>1, <2>4, <3>1 DEF Seen
      <4>2. WritesOf(u)' = {n}
        BY <2>1, <4>1 DEF WritesOf
      <4>3. n.online = FALSE
        OBVIOUS
      <4>. HIDE DEF n
      <4>. QED  BY <2>2, <3>1, <4>2, <4>3 DEF Settled
    <3>2. CASE v # u
      <4>1. WritesOf(v)' = WritesOf(v)
        BY <2>1, <3>2 DEF WritesOf
      <4>2. v \notin seen.mixed
        BY <1>0, <2>1, <2>4, <3>2 DEF Seen
      <4>. QED  BY <1>1, <2>2, <3>2, <4>1, <4>2 DEF PresenceInv, Settled
    <3>. QED  BY <3>1, <3>2
  <2>. QED  BY <2>3, <2>4 DEF PresenceInv
<1>5. CASE clients[u] # s
  <2>1. UNCHANGED <<clients, writes, seen>>
    BY <1>u, <1>5 DEF HandleDisconnect
  <2>2. \A v \in People : clients[v] # s
    BY <1>3, <1>5
  <2>3. \A v \in People : MapOpen(v)'
    BY <1>2, <2>1, <2>2
  <2>4. \A v \in People : Settled(v)' <=> Settled(v)
    BY <1>1, <2>1 DEF Settled, WritesOf
  <2>. QED  BY <2>1, <2>3, <2>4 DEF PresenceInv
<1>. QED
  BY <1>4, <1>5

\* So does the write of a status, late or not.
LEMMA StatusSettles ==
  ASSUME ChatTypeInv, PresenceInv, NEW w \in writes, UpdateUserStatus(w)
  PROVE  PresenceInv'
<1>1. /\ writes' = writes \ {w} /\ UNCHANGED <<sockets, clients, seen>>
      /\ shown' = IF w.online THEN shown \cup {w.user} ELSE shown \ {w.user}
  BY DEF UpdateUserStatus
<1>2. \A v \in People : MapOpen(v)'
  BY <1>1 DEF PresenceInv, MapOpen
<1>3. ASSUME NEW v \in People, v \notin seen.mixed PROVE Settled(v)'
  <2>0. Settled(v)
    BY <1>3 DEF PresenceInv
  <2>1. CASE w.user = v
    <3>1. w \in WritesOf(v)
      BY <2>1 DEF WritesOf
    <3>2. WritesOf(v)' = {}
      BY <1>1, <2>0, <3>1 DEF WritesOf, Settled
    <3>3. w.online <=> clients[v] # Nowhere
      BY <2>0, <3>1 DEF Settled
    <3>. QED  BY <1>1, <2>1, <3>2, <3>3 DEF Settled
  <2>2. CASE w.user # v
    <3>1. WritesOf(v)' = WritesOf(v)
      BY <1>1, <2>2 DEF WritesOf
    <3>2. v \in shown' <=> v \in shown
      BY <1>1, <2>2
    <3>. QED  BY <1>1, <2>0, <3>1, <3>2 DEF Settled
  <2>. QED  BY <2>1, <2>2
<1>. QED
  BY <1>1, <1>2, <1>3 DEF PresenceInv

\* The other parts of the chat leave presence alone.
LEMMA OthersSettle ==
  ASSUME PresenceInv, UNCHANGED PresenceVars, seen'.mixed = seen.mixed PROVE PresenceInv'
<1>1. \A u \in People : MapOpen(u)' = MapOpen(u)
  BY DEF PresenceVars, MapOpen
<1>2. \A u \in People : WritesOf(u)' = WritesOf(u)
  BY DEF PresenceVars, WritesOf
<1>3. \A u \in People : Settled(u)' = Settled(u)
  BY <1>2 DEF PresenceVars, Settled
<1>. QED
  BY <1>1, <1>3 DEF PresenceInv

\* Conversations and notifications leave presence alone.
LEMMA OthersKeepMixed ==
  ASSUME ChatTypeInv, ThreadNext \/ NoteNext \/ UNCHANGED chatVars
  PROVE  UNCHANGED PresenceVars /\ seen'.mixed = seen.mixed
<1>0. seen \in Seen
  BY DEF ChatTypeInv, ChatTypeOK
<1>1. CASE ThreadNext
  BY <1>0, <1>1
  DEF ThreadNext, CreateThread, ThreadMake, CreateText, TextStore, TextTouch, TextEmit, RemoveThread,
      HandleRoomJoin, GetAllMessages, ViewerLost, UpdateMessageStatus, Seen, PresenceVars
<1>2. CASE NoteNext
  BY <1>0, <1>2
  DEF NoteNext, SendNotification, SetNotificationEnabled, SettingMake, PrefFind, PrefWrite, Silenced,
      NoteFind, NoteMake, Seen, PresenceVars
<1>3. CASE UNCHANGED chatVars
  BY <1>3 DEF chatVars, PresenceVars
<1>. QED
  BY <1>1, <1>2, <1>3

\* Once no update of his status is under way, a user is shown online exactly if the
\* gateway holds an open socket of his, in whatever order sockets come and go.
THEOREM PresenceIsTrue == ChatSpec => []PresenceSettles
<1>. USE NowhereIsNoKey
<1>1. ChatInit => ChatTypeInv /\ PresenceInv
  <2>1. ChatInit => PresenceInv
    BY DEF ChatInit, PresenceInv, MapOpen, Settled, WritesOf
  <2>. QED  BY <2>1, ChatInitTypes
<1>2. ChatTypeInv /\ PresenceInv /\ [ChatNext]_chatVars => (ChatTypeInv /\ PresenceInv)'
  <2>1. ASSUME ChatTypeInv, PresenceInv, PresenceNext PROVE PresenceInv'
    BY <2>1, ConnectionSettles, DisconnectSettles, StatusSettles DEF PresenceNext
  <2>2. ASSUME ChatTypeInv, PresenceInv, ThreadNext \/ NoteNext \/ UNCHANGED chatVars
        PROVE  PresenceInv'
    BY <2>2, OthersSettle, OthersKeepMixed
  <2>. QED  BY <2>1, <2>2, ChatNextTypes DEF ChatNext
<1>3. ChatTypeInv /\ PresenceInv => PresenceSettles
  <2>. SUFFICES ASSUME ChatTypeInv, PresenceInv, NEW u \in People,
                       \A w \in writes : w.user # u, u \notin seen.mixed
                PROVE  u \in shown <=> \E s \in Sockets :
                                clients[u] = s /\ sockets[s] = [user |-> u, open |-> TRUE]
    BY DEF PresenceSettles
  <2>1. clients[u] \in Sockets \cup {Nowhere}
    BY DEF ChatTypeInv, ChatTypeOK
  <2>2. MapOpen(u) /\ Settled(u) /\ WritesOf(u) = {}
    BY DEF PresenceInv, WritesOf
  <2>. QED  BY <2>1, <2>2 DEF MapOpen, Settled
<1>. QED
  BY <1>1, <1>2, <1>3, PTL DEF ChatSpec

-----------------------------------------------------------------------------
(* Messaging: the silenced notifications.  A user for whom no two calls of *)
(* the switch overlapped has one row at most, and his call knows it; a     *)
(* silenced user has his row, it is off, and no call of his is under way.  *)

UniqueRows == \A p, q \in prefs : p.id = q.id => p = q

\* What a call that is about to write, or to make a notification, knows.
WriteKnows(l) ==
    /\ l.pc # "pref_write" => l.pref = Nowhere
    /\ l.pc = "pref_write" /\ l.pref # Nowhere => \E p \in RowsOfUser(l.user) : p.id = l.pref
    /\ l.pc = "note_make" => ~l.quiet

Switching(l) == l.pc \in {"pref_find", "pref_write"} \/ l.next = "pref_find"

\* u met no two calls of the switch.
OneSwitch(u) ==
    /\ \A p, q \in RowsOfUser(u) : p = q
    /\ \A x, y \in SwitchCalls(u) : x = y
    /\ \A x \in SwitchCalls(u) :
          chats[x].pc = "pref_write" /\ chats[x].pref = Nowhere => RowsOfUser(u) = {}

SilentRow(u) ==
    /\ u \notin seen.clash
    /\ SwitchCalls(u) = {}
    /\ RowsOfUser(u) # {}
    /\ \A p \in RowsOfUser(u) : ~p.on

SilenceInv ==
    /\ UniqueRows
    /\ \A x \in Chats : WriteKnows(chats[x])
    /\ \A u \in People \ seen.clash : OneSwitch(u)
    /\ \A u \in seen.silent : SilentRow(u)

\* A step that writes no row, switches nobody off and starts no call of the switch:
\* what it gives one call knows as much, and switches for the same user if at all.
LEMMA QuietStep ==
  ASSUME ChatTypeInv, SilenceInv, NEW x \in Chats, NEW l \in Chat,
         chats' = [chats EXCEPT ![x] = l], prefs' = prefs,
         seen'.silent = seen.silent, seen'.clash = seen.clash,
         WriteKnows(l),
         Switching(l) => l.user = chats[x].user /\ Switching(chats[x]),
         l.pc = "pref_write" /\ l.pref = Nowhere => RowsOfUser(l.user) = {}
  PROVE  SilenceInv'
<1>0. \A y \in Chats : chats'[y] = IF y = x THEN l ELSE chats[y]
  BY DEF ChatTypeInv, ChatTypeOK
<1>1. \A u : RowsOfUser(u)' = RowsOfUser(u)
  BY DEF RowsOfUser
<1>2. \A u : SwitchCalls(u)' \subseteq SwitchCalls(u)
  BY <1>0 DEF SwitchCalls, Switching
<1>3. UniqueRows'
  BY DEF SilenceInv, UniqueRows
<1>4. \A y \in Chats : WriteKnows(chats[y])'
  BY <1>0, <1>1 DEF SilenceInv, WriteKnows
<1>5. ASSUME NEW u \in People \ seen'.clash PROVE OneSwitch(u)'
  <2>1. OneSwitch(u)
    BY DEF SilenceInv
  <2>2. ASSUME NEW y \in SwitchCalls(u)', chats'[y].pc = "pref_write", chats'[y].pref = Nowhere
        PROVE  RowsOfUser(u) = {}
    <3>1. y \in SwitchCalls(u) /\ y \in Chats /\ chats'[y].user = u
      BY <1>2 DEF SwitchCalls
    <3>. QED  BY <1>0, <2>1, <2>2, <3>1 DEF OneSwitch
  <2>. QED  BY <1>1, <1>2, <2>1, <2>2 DEF OneSwitch
<1>6. \A u \in seen'.silent : SilentRow(u)'
  BY <1>1, <1>2 DEF SilenceInv, SilentRow
<1>. QED
  BY <1>3, <1>4, <1>5, <1>6 DEF SilenceInv

\* The end of a call that wrote nothing.
LEMMA QuietEnd ==
  ASSUME ChatTypeInv, SilenceInv, NEW x \in Chats, ChatEnds(x), prefs' = prefs,
         seen'.silent = seen.silent, seen'.clash = seen.clash
  PROVE  SilenceInv'
<1>1. WriteKnows(NoChat) /\ ~Switching(NoChat) /\ NoChat.pc = "idle"
  BY DEF WriteKnows, Switching, NoChat
<1>. QED
  BY <1>1, NoChatType, QuietStep DEF ChatEnds

\* A step of a part of the chat that has nothing to do with notifications.
LEMMA OtherStep ==
  ASSUME ChatTypeInv, SilenceInv, NEW x \in Chats, NEW l \in Chat,
         chats' = [chats EXCEPT ![x] = l], prefs' = prefs,
         seen'.silent = seen.silent, seen'.clash = seen.clash,
         l.pc \in {"thread_make", "text_store", "text_touch", "text_emit"},
         l.pref = Nowhere, l.next = "idle" \/ (l.next = chats[x].next /\ l.user = chats[x].user)
  PROVE  SilenceInv'
<1>1. WriteKnows(l)
  BY DEF WriteKnows
<1>2. Switching(l) => l.user = chats[x].user /\ Switching(chats[x])
  BY DEF Switching
<1>. QED
  BY <1>1, <1>2, QuietStep

\* Conversations leave the switches and the notifications alone.
LEMMA ThreadsKeepSilence == ASSUME ChatTypeInv, SilenceInv, ThreadNext PROVE SilenceInv'
<1>0. /\ seen \in Seen /\ chats \in [Chats -> Chat]
      /\ \A x \in Chats : chats[x] \in Chat /\ WriteKnows(chats[x])
  BY DEF ChatTypeInv, ChatTypeOK, SilenceInv
<1>1. prefs' = prefs /\ seen'.silent = seen.silent /\ seen'.clash = seen.clash
  BY <1>0
  DEF ThreadNext, CreateThread, ThreadMake, CreateText, TextStore, TextTouch, TextEmit, RemoveThread,
      HandleRoomJoin, GetAllMessages, ViewerLost, UpdateMessageStatus, Seen, NoteVars
<1>2. CASE UNCHANGED chats
  BY <1>1, <1>2
  DEF SilenceInv, UniqueRows, WriteKnows, OneSwitch, SilentRow, RowsOfUser, SwitchCalls
<1>3. ASSUME NEW x \in Chats, ChatEnds(x) PROVE SilenceInv'
  BY <1>1, <1>3, QuietEnd
<1>4. ASSUME NEW x \in Chats, CreateThread(x) PROVE SilenceInv'
  <2> DEFINE l == [chats[x] EXCEPT !.pc = "thread_make"]
  <2>1. l \in Chat /\ l.pc = "thread_make" /\ l.pref = Nowhere /\ l.next = chats[x].next
        /\ l.user = chats[x].user
    BY <1>0, <1>4 DEF Chat, CreateThread, ChatAt, WriteKnows
  <2>2. chats' = [chats EXCEPT ![x] = l]
    BY <1>4 DEF CreateThread
  <2>. HIDE DEF l
  <2>. QED  BY <1>1, <2>1, <2>2, OtherStep
<1>5. ASSUME NEW x \in Chats, NEW c \in Threads, CreateText(x, c) PROVE SilenceInv'
  <2> DEFINE l == [NoChat EXCEPT !.pc = "text_store", !.thread = c]
  <2>1. l \in Chat /\ l.pc = "text_store" /\ l.pref = Nowhere /\ l.next = "idle"
    BY DEF Chat, NoChat
  <2>2. chats' = [chats EXCEPT ![x] = l]
    BY <1>5 DEF CreateText
  <2>. HIDE DEF l
  <2>. QED  BY <1>1, <2>1, <2>2, OtherStep
<1>6. ASSUME NEW x \in Chats, TextStore(x) PROVE SilenceInv'
  <2>1. CASE chats[x].thread \in threads
    <3>1. PICK i \in Texts : chats' = [chats EXCEPT ![x].pc = "text_touch", ![x].text = i]
      BY <1>6, <2>1 DEF TextStore
    <3> DEFINE l == [chats[x] EXCEPT !.pc = "text_touch", !.text = i]
    <3>2. l \in Chat /\ l.pc = "text_touch" /\ l.pref = Nowhere /\ l.next = chats[x].next
          /\ l.user = chats[x].user
      BY <1>0, <1>6 DEF Chat, TextStore, ChatAt, WriteKnows
    <3>3. chats' = [chats EXCEPT ![x] = l]
      BY <1>0, <3>1 DEF Chat
    <3>. HIDE DEF l
    <3>. QED  BY <1>1, <3>2, <3>3, OtherStep
  <2>2. CASE chats[x].thread \notin threads
    BY <1>3, <1>6, <2>2 DEF TextStore
  <2>. QED  BY <2>1, <2>2
<1>7. ASSUME NEW x \in Chats, TextTouch(x) PROVE SilenceInv'
  <2>1. CASE chats' = [chats EXCEPT ![x].pc = "text_emit"]
    <3> DEFINE l == [chats[x] EXCEPT !.pc = "text_emit"]
    <3>1. l \in Chat /\ l.pc = "text_emit" /\ l.pref = Nowhere /\ l.next = chats[x].next
          /\ l.user = chats[x].user
      BY <1>0, <1>7 DEF Chat, TextTouch, ChatAt, WriteKnows
    <3>. HIDE DEF l
    <3>2. chats' = [chats EXCEPT ![x] = l]
      BY <2>1 DEF l
    <3>. QED  BY <1>1, <3>1, <3>2, OtherStep
  <2>. QED  BY <1>3, <1>7, <2>1 DEF TextTouch
<1>. QED
  BY <1>2, <1>3, <1>4, <1>5, <1>6, <1>7
  DEF ThreadNext, ThreadMake, TextEmit, RemoveThread, HandleRoomJoin, GetAllMessages, ViewerLost,
      UpdateMessageStatus

\* A call begins: it is one of the switch's or it is not.
LEMMA BeginStep ==
  ASSUME ChatTypeInv, NEW x \in Chats, NEW next \in {"pref_find", "note_find"}, NEW c \in Chat,
         c.pc = "idle", c.next = "idle", c.pref = Nowhere, Begin(x, c, next)
  PROVE  \E l \in Chat : /\ chats' = [chats EXCEPT ![x] = l]
                         /\ WriteKnows(l) /\ l.pc # "pref_write"
                         /\ l.user = c.user
                         /\ Switching(l) <=> next = "pref_find"
<1>1. CASE setting
  <2> DEFINE l == [c EXCEPT !.pc = next]
  <2>1. l \in Chat /\ l.pc = next /\ l.next = "idle" /\ l.pref = Nowhere /\ l.user = c.user
    BY DEF Chat
  <2>2. chats' = [chats EXCEPT ![x] = l]
    BY <1>1 DEF Begin
  <2>. HIDE DEF l
  <2>. QED  BY <2>1, <2>2 DEF WriteKnows, Switching
<1>2. CASE ~setting
  <2> DEFINE l == [c EXCEPT !.pc = "setting_make", !.next = next]
  <2>1. l \in Chat /\ l.pc = "setting_make" /\ l.next = next /\ l.pref = Nowhere /\ l.user = c.user
    BY DEF Chat
  <2>2. chats' = [chats EXCEPT ![x] = l]
    BY <1>2 DEF Begin
  <2>. HIDE DEF l
  <2>. QED  BY <2>1, <2>2 DEF WriteKnows, Switching
<1>. QED
  BY <1>1, <1>2

\* A call of the switch begins: the user is silenced no longer, and if another call
\* of his is under way the two have met.
LEMMA SwitchBegins ==
  ASSUME ChatTypeInv, SilenceInv, NEW x \in Chats, NEW u \in People, NEW on \in BOOLEAN,
         SetNotificationEnabled(x, u, on)
  PROVE  SilenceInv'
<1>0. seen \in Seen /\ chats \in [Chats -> Chat] /\ prefs' = prefs /\ chats[x].pc = "idle"
  BY DEF ChatTypeInv, ChatTypeOK, SetNotificationEnabled, NoteVars, ChatAt
<1> DEFINE c == [NoChat EXCEPT !.user = u, !.on = on]
<1>1. c \in Chat /\ c.user = u /\ c.pc = "idle" /\ c.next = "idle" /\ c.pref = Nowhere
  BY DEF NoChat, Chat
<1>2. Begin(x, c, "pref_find")
  BY DEF SetNotificationEnabled
<1>. HIDE DEF c
<1>3. PICK l \in Chat : /\ chats' = [chats EXCEPT ![x] = l]
                        /\ WriteKnows(l) /\ l.pc # "pref_write"
                        /\ l.user = u /\ Switching(l)
  BY <1>1, <1>2, BeginStep
<1>4. \A y \in Chats : chats'[y] = IF y = x THEN l ELSE chats[y]
  BY <1>0, <1>3
<1>5. /\ seen'.silent = seen.silent \ {u}
      /\ seen'.clash = IF SwitchCalls(u) # {} THEN seen.clash \cup {u} ELSE seen.clash
  BY <1>0 DEF SetNotificationEnabled, Seen
<1>6. \A v : RowsOfUser(v)' = RowsOfUser(v)
  BY <1>0 DEF RowsOfUser
<1>7. UniqueRows' /\ \A y \in Chats : WriteKnows(chats[y])'
  BY <1>0, <1>3, <1>4, <1>6 DEF SilenceInv, UniqueRows, WriteKnows
<1>8. \A v \in People \ {u} : SwitchCalls(v)' \subseteq SwitchCalls(v)
  BY <1>3, <1>4 DEF SwitchCalls
<1>9. ASSUME NEW v \in People \ seen'.clash PROVE OneSwitch(v)'
  <2>1. CASE v = u
    <3>1. SwitchCalls(u) = {} /\ u \notin seen.clash
      BY <1>5, <1>9, <2>1
    <3>2. SwitchCalls(u)' \subseteq {x}
      BY <1>4, <3>1 DEF SwitchCalls
    <3>3. \A p, q \in RowsOfUser(u) : p = q
      BY <3>1 DEF SilenceInv, OneSwitch
    <3>4. chats'[x].pc # "pref_write"
      BY <1>3, <1>4
    <3>5. \A y \in SwitchCalls(u)' : chats'[y].pc # "pref_write"
      BY <3>2, <3>4
    <3>. QED  BY <1>6, <2>1, <3>2, <3>3, <3>5 DEF OneSwitch
  <2>2. CASE v # u
    <3>1. OneSwitch(v)
      BY <1>5, <1>9 DEF SilenceInv
    <3>2. \A y \in SwitchCalls(v)' : y \in SwitchCalls(v) /\ chats'[y] = chats[y]
      <4>1. \A y \in SwitchCalls(v)' : y \in Chats /\ chats'[y].user = v
        BY DEF SwitchCalls
      <4>. QED  BY <1>3, <1>4, <1>8, <2>2, <4>1
    <3>. QED  BY <1>6, <3>1, <3>2 DEF OneSwitch
  <2>. QED  BY <2>1, <2>2
<1>10. ASSUME NEW v \in seen'.silent PROVE SilentRow(v)'
  <2>1. v # u /\ SilentRow(v) /\ v \in People
    BY <1>0, <1>5, <1>10 DEF SilenceInv, Seen
  <2>2. v \notin seen'.clash /\ SwitchCalls(v)' = {}
    BY <1>5, <1>8, <2>1 DEF SilentRow
  <2>. QED  BY <1>6, <2>1, <2>2 DEF SilentRow
<1>. QED
  BY <1>7, <1>9, <1>10 DEF SilenceInv

\* A notification begins.
LEMMA NoteBegins ==
  ASSUME ChatTypeInv, SilenceInv, NEW x \in Chats, NEW u \in People, SendNotification(x, u)
  PROVE  SilenceInv'
<1> DEFINE c(q) == [NoChat EXCEPT !.user = u, !.quiet = q]
<1>1. \A q \in BOOLEAN : /\ c(q) \in Chat
                         /\ c(q).pc = "idle" /\ c(q).next = "idle" /\ c(q).pref = Nowhere
  BY DEF NoChat, Chat
<1>2. (u \in seen.silent) \in BOOLEAN
  OBVIOUS
<1>3. PICK q \in BOOLEAN : Begin(x, c(q), "note_find")
  BY <1>2, Zenon DEF SendNotification
<1>4. PICK d \in Chat : /\ Begin(x, d, "note_find")
                        /\ d.pc = "idle" /\ d.next = "idle" /\ d.pref = Nowhere
  BY <1>1, <1>3, Zenon
<1>5. PICK l \in Chat : chats' = [chats EXCEPT ![x] = l] /\ WriteKnows(l) /\ ~Switching(l)
                        /\ l.pc # "pref_write"
  BY <1>4, BeginStep
<1>. QED
  BY <1>5, QuietStep DEF SendNotification, NoteVars

\* The row is looked for.
LEMMA FindKeepsSilence ==
  ASSUME ChatTypeInv, SilenceInv, NEW x \in Chats, PrefFind(x)
  PROVE  SilenceInv'
<1>. USE NowhereIsNoKey
<1>0. /\ chats[x] \in Chat /\ chats[x].pc = "pref_find" /\ chats[x].pref = Nowhere
      /\ prefs \subseteq [id : Prefs, user : People, on : BOOLEAN]
      /\ prefs' = prefs /\ seen' = seen
  BY DEF ChatTypeInv, ChatTypeOK, SilenceInv, WriteKnows, PrefFind, ChatAt, NoteVars
<1>1. CASE RowsOfUser(chats[x].user) = {}
  <2> DEFINE l == [chats[x] EXCEPT !.pc = "pref_write"]
  <2>1. /\ l \in Chat /\ l.pc = "pref_write" /\ l.pref = Nowhere /\ l.user = chats[x].user
    BY <1>0 DEF Chat
  <2>2. chats' = [chats EXCEPT ![x] = l]
    BY <1>1 DEF PrefFind
  <2>. HIDE DEF l
  <2>3. WriteKnows(l) /\ Switching(chats[x]) /\ RowsOfUser(l.user) = {}
    BY <1>0, <1>1, <2>1 DEF WriteKnows, Switching
  <2>. QED  BY <1>0, <2>1, <2>2, <2>3, QuietStep
<1>2. CASE RowsOfUser(chats[x].user) # {}
  <2>1. PICK p \in RowsOfUser(chats[x].user) :
           chats' = [chats EXCEPT ![x].pc = "pref_write", ![x].pref = p.id]
    BY <1>2 DEF PrefFind
  <2>2. PICK k \in Prefs : k = p.id
    BY <1>0 DEF RowsOfUser
  <2> DEFINE l == [chats[x] EXCEPT !.pc = "pref_write", !.pref = k]
  <2>3. l \in Chat /\ l.pc = "pref_write" /\ l.pref = k /\ l.user = chats[x].user
    BY <1>0 DEF Chat
  <2>4. chats' = [chats EXCEPT ![x] = l]
    BY <1>0, <2>1, <2>2 DEF ChatTypeInv, ChatTypeOK, Chat
  <2>. HIDE DEF l
  <2>5. WriteKnows(l) /\ Switching(chats[x]) /\ l.pref # Nowhere
    BY <1>0, <2>1, <2>2, <2>3 DEF WriteKnows, Switching
  <2>. QED  BY <1>0, <2>3, <2>4, <2>5, QuietStep
<1>. QED
  BY <1>1, <1>2

\* The notification is let pass: not to a silenced user.
LEMMA NoteFindKeepsSilence ==
  ASSUME ChatTypeInv, SilenceInv, NEW x \in Chats, NoteFind(x)
  PROVE  SilenceInv'
<1>0. /\ chats[x] \in Chat /\ chats[x].pc = "note_find" /\ chats[x].pref = Nowhere
      /\ prefs' = prefs /\ seen' = seen
  BY DEF ChatTypeInv, ChatTypeOK, SilenceInv, WriteKnows, NoteFind, ChatAt, NoteVars
<1>1. CASE ChatEnds(x)
  BY <1>0, <1>1, QuietEnd
<1>2. CASE /\ RowsOfUser(chats[x].user) = {} \/ (\E p \in RowsOfUser(chats[x].user) : p.on)
           /\ chats' = [chats EXCEPT ![x].pc = "note_make",
                                     ![x].quiet = @ /\ chats[x].user \in seen.silent]
  <2>1. chats[x].user \notin seen.silent
    BY <1>2 DEF SilenceInv, SilentRow
  <2> DEFINE l == [chats[x] EXCEPT !.pc = "note_make", !.quiet = FALSE]
  <2>2. l \in Chat /\ l.pc = "note_make" /\ l.pref = Nowhere /\ l.quiet = FALSE
        /\ l.next = chats[x].next /\ l.user = chats[x].user
    BY <1>0 DEF Chat
  <2>3. (chats[x].quiet /\ chats[x].user \in seen.silent) = FALSE
    BY <2>1
  <2>4. chats' = [chats EXCEPT ![x].pc = "note_make", ![x].quiet = FALSE]
    BY <1>2, <2>3
  <2>5. chats' = [chats EXCEPT ![x] = l]
    BY <1>0, <2>4 DEF ChatTypeInv, ChatTypeOK, Chat
  <2>. HIDE DEF l
  <2>6. WriteKnows(l) /\ (Switching(l) => Switching(chats[x]))
    BY <2>2 DEF WriteKnows, Switching
  <2>. QED  BY <1>0, <2>2, <2>5, <2>6, QuietStep
<1>. QED
  BY <1>1, <1>2 DEF NoteFind

\* What the write does to the rows: those of other users stay, the user's row says
\* what his call said, and it is the only one unless two calls of his met.
LEMMA RowWritten ==
  ASSUME ChatTypeInv, SilenceInv, NEW x \in Chats, NEW u \in People, u = chats[x].user, PrefWrite(x)
  PROVE  /\ UniqueRows'
         /\ \A v \in People \ {u} : RowsOfUser(v)' = RowsOfUser(v)
         /\ \A q \in RowsOfUser(u) : \E p \in RowsOfUser(u)' : p.id = q.id
         /\ u \notin seen.clash => \E r : RowsOfUser(u)' = {r} /\ r.on = chats[x].on
<1>. USE NowhereIsNoKey
<1>0. /\ prefs \subseteq [id : Prefs, user : People, on : BOOLEAN]
      /\ chats[x] \in Chat /\ chats[x].pc = "pref_write"
      /\ UniqueRows /\ WriteKnows(chats[x])
      /\ u \notin seen.clash => OneSwitch(u)
  BY DEF ChatTypeInv, ChatTypeOK, SilenceInv, PrefWrite, ChatAt
<1>2. x \in SwitchCalls(u)
  BY <1>0 DEF SwitchCalls
<1>3. CASE chats[x].pref # Nowhere
  <2>1. PICK p \in RowsOfUser(u) : p.id = chats[x].pref
    BY <1>0, <1>3 DEF WriteKnows
  <2> DEFINE r == [id |-> p.id, user |-> u, on |-> chats[x].on]
  <2>2. prefs' = {q \in prefs : q.id # p.id} \cup {r}
    BY <1>3, <2>1 DEF PrefWrite
  <2>3. r.id = p.id /\ r.user = u /\ r.on = chats[x].on
    OBVIOUS
  <2>. HIDE DEF r
  <2>4. p \in prefs /\ p.user = u /\ \A q \in prefs : q.id = p.id => q = p
    BY <1>0 DEF RowsOfUser, UniqueRows
  <2>5. UniqueRows'
    BY <1>0, <2>2, <2>3 DEF UniqueRows
  <2>6. \A v \in People \ {u} : RowsOfUser(v)' = RowsOfUser(v)
    BY <2>2, <2>3, <2>4 DEF RowsOfUser
  <2>7. \A q \in RowsOfUser(u) : \E q1 \in RowsOfUser(u)' : q1.id = q.id
    BY <2>2, <2>3, <2>4 DEF RowsOfUser
  <2>8. u \notin seen.clash => RowsOfUser(u)' = {r}
    <3>1. u \notin seen.clash => RowsOfUser(u) = {p}
      BY <1>0 DEF OneSwitch
    <3>. QED  BY <2>2, <2>3, <2>4, <3>1 DEF RowsOfUser
  <2>. QED  BY <2>3, <2>5, <2>6, <2>7, <2>8
<1>4. CASE chats[x].pref = Nowhere
  <2>1. PICK i \in Prefs \ {p.id : p \in prefs} :
           prefs' = prefs \cup {[id |-> i, user |-> u, on |-> chats[x].on]}
    BY <1>4 DEF PrefWrite
  <2> DEFINE r == [id |-> i, user |-> u, on |-> chats[x].on]
  <2>2. r.id = i /\ r.user = u /\ r.on = chats[x].on /\ prefs' = prefs \cup {r}
    BY <2>1
  <2>. HIDE DEF r
  <2>3. UniqueRows'
    BY <1>0, <2>1, <2>2 DEF UniqueRows
  <2>4. (\A v \in People \ {u} : RowsOfUser(v)' = RowsOfUser(v))
        /\ RowsOfUser(u)' = RowsOfUser(u) \cup {r}
    BY <2>2 DEF RowsOfUser
  <2>5. u \notin seen.clash => RowsOfUser(u) = {}
    BY <1>0, <1>2, <1>4 DEF OneSwitch
  <2>. QED  BY <2>2, <2>3, <2>4, <2>5
<1>. QED
  BY <1>3, <1>4

\* The row is written.
LEMMA WriteKeepsSilence ==
  ASSUME ChatTypeInv, SilenceInv, NEW x \in Chats, PrefWrite(x)
  PROVE  SilenceInv'
<1>0. /\ seen \in Seen /\ chats \in [Chats -> Chat]
      /\ chats[x].pc = "pref_write" /\ chats[x].user \in People
  BY DEF ChatTypeInv, ChatTypeOK, Carries, SwitchPC, PrefWrite, ChatAt
<1>1. PICK u \in People : u = chats[x].user
  BY <1>0
<1>2. \A y \in Chats : chats'[y] = IF y = x THEN NoChat ELSE chats[y]
  BY <1>0 DEF PrefWrite, ChatEnds
<1>3. /\ seen'.clash = seen.clash
      /\ seen'.silent \subseteq seen.silent \cup {u}
      /\ u \in seen'.silent => u \in seen.silent \/ (u \notin seen.clash /\ ~chats[x].on)
  BY <1>0, <1>1 DEF PrefWrite, Silenced, Seen
<1>4. x \in SwitchCalls(u) /\ u \notin seen.silent
  <2>1. x \in SwitchCalls(u)
    BY <1>0, <1>1 DEF SwitchCalls
  <2>. QED  BY <2>1 DEF SilenceInv, SilentRow
<1>5. /\ UniqueRows'
      /\ \A v \in People \ {u} : RowsOfUser(v)' = RowsOfUser(v)
      /\ \A q \in RowsOfUser(u) : \E p \in RowsOfUser(u)' : p.id = q.id
      /\ u \notin seen.clash => \E r : RowsOfUser(u)' = {r} /\ r.on = chats[x].on
  BY <1>1, RowWritten
<1>6. ASSUME NEW y \in Chats PROVE WriteKnows(chats[y])'
  <2>1. CASE y = x
    BY <1>2, <2>1 DEF WriteKnows, NoChat
  <2>2. CASE y # x
    <3>1. chats'[y] = chats[y] /\ WriteKnows(chats[y])
      BY <1>2, <2>2 DEF SilenceInv
    <3>2. chats[y].pc = "pref_write" => chats[y].user \in People
      BY DEF ChatTypeInv, Carries, SwitchPC
    <3>. QED  BY <1>5, <3>1, <3>2 DEF WriteKnows
  <2>. QED  BY <2>1, <2>2
<1>7. \A v \in People : SwitchCalls(v)' = SwitchCalls(v) \ {x}
  BY <1>2 DEF SwitchCalls, NoChat
<1>8. \A v \in People : \A y \in SwitchCalls(v)' : chats'[y] = chats[y]
  BY <1>2, <1>7 DEF SwitchCalls
<1>9. ASSUME NEW v \in People \ seen'.clash PROVE OneSwitch(v)'
  <2>0. OneSwitch(v)
    BY <1>3, <1>9 DEF SilenceInv
  <2>1. CASE v = u
    <3>1. SwitchCalls(u)' = {}
      BY <1>4, <1>7, <2>0, <2>1 DEF OneSwitch
    <3>2. \A p, q \in RowsOfUser(u)' : p = q
      BY <1>3, <1>5, <2>1
    <3>. QED  BY <2>1, <3>1, <3>2 DEF OneSwitch
  <2>2. CASE v # u
    BY <1>5, <1>7, <1>8, <2>0, <2>2 DEF OneSwitch
  <2>. QED  BY <2>1, <2>2
<1>10. ASSUME NEW v \in seen'.silent PROVE SilentRow(v)'
  <2>1. CASE v = u
    <3>1. u \notin seen.clash /\ ~chats[x].on
      BY <1>3, <1>4, <1>10, <2>1
    <3>2. SwitchCalls(u)' = {}
      BY <1>4, <1>7, <3>1 DEF SilenceInv, OneSwitch
    <3>. QED  BY <1>3, <1>5, <2>1, <3>1, <3>2 DEF SilentRow
  <2>2. CASE v # u
    <3>1. v \in seen.silent /\ v \in People
      BY <1>0, <1>3, <1>10, <2>2 DEF Seen
    <3>2. SilentRow(v)
      BY <3>1 DEF SilenceInv
    <3>. QED  BY <1>3, <1>5, <1>7, <2>2, <3>1, <3>2 DEF SilentRow
  <2>. QED  BY <2>1, <2>2
<1>. QED
  BY <1>5, <1>6, <1>9, <1>10 DEF SilenceInv

\* The row of settings is made.
LEMMA SettingKeepsSilence ==
  ASSUME ChatTypeInv, SilenceInv, NEW x \in Chats, SettingMake(x)
  PROVE  SilenceInv'
<1>0. /\ chats[x] \in Chat /\ chats[x].pc = "setting_make" /\ chats[x].pref = Nowhere
      /\ prefs' = prefs /\ seen' = seen
  BY DEF ChatTypeInv, ChatTypeOK, SilenceInv, WriteKnows, SettingMake, ChatAt
<1>1. CASE setting
  BY <1>0, <1>1, QuietEnd DEF SettingMake
<1>2. CASE ~setting
  <2> DEFINE l == [chats[x] EXCEPT !.pc = chats[x].next, !.next = "idle"]
  <2>1. /\ l \in Chat /\ l.pc = chats[x].next /\ l.next = "idle" /\ l.pref = Nowhere
        /\ l.user = chats[x].user /\ chats[x].next \in {"idle", "pref_find", "note_find"}
    BY <1>0 DEF Chat
  <2>2. chats' = [chats EXCEPT ![x] = l]
    BY <1>0, <1>2 DEF SettingMake, ChatTypeInv, ChatTypeOK, Chat
  <2>. HIDE DEF l
  <2>3. WriteKnows(l) /\ (Switching(l) => Switching(chats[x])) /\ l.pc # "pref_write"
    BY <2>1 DEF WriteKnows, Switching
  <2>. QED  BY <1>0, <2>1, <2>2, <2>3, QuietStep
<1>. QED
  BY <1>1, <1>2

\* Presence has nothing to do with it.
LEMMA OthersKeepSilence ==
  ASSUME ChatTypeInv, SilenceInv, PresenceNext \/ UNCHANGED chatVars PROVE SilenceInv'
<1>0. seen \in Seen
  BY DEF ChatTypeInv, ChatTypeOK
<1>1. chats' = chats /\ prefs' = prefs /\ seen'.silent = seen.silent /\ seen'.clash = seen.clash
  BY <1>0 DEF PresenceNext, HandleConnection, HandleDisconnect, UpdateUserStatus, StatusWrite, Seen,
              NoteVars, chatVars
<1>. QED
  BY <1>1 DEF SilenceInv, UniqueRows, WriteKnows, OneSwitch, SilentRow, RowsOfUser, SwitchCalls

\* A user who turned his notifications off gets none that began afterwards, until he
\* touches the switch again, as long as two calls of his switch do not overlap.
THEOREM SilenceIsKept == ChatSpec => []SilenceKept
<1>. USE NowhereIsNoKey
<1>1. ChatInit => ChatTypeInv /\ SilenceInv
  <2>1. ChatInit => SilenceInv
    BY DEF ChatInit, NoChat, SilenceInv, UniqueRows, WriteKnows, OneSwitch, SilentRow, RowsOfUser,
           SwitchCalls
  <2>. QED  BY <2>1, ChatInitTypes
<1>2. ChatTypeInv /\ SilenceInv /\ [ChatNext]_chatVars => (ChatTypeInv /\ SilenceInv)'
  <2>1. ASSUME ChatTypeInv, SilenceInv, NoteNext PROVE SilenceInv'
    <3>1. ASSUME NEW x \in Chats, NoteMake(x) PROVE SilenceInv'
      BY <2>1, <3>1, QuietEnd DEF NoteMake, NoteVars
    <3>. QED
      BY <2>1, <3>1, SwitchBegins, NoteBegins, FindKeepsSilence, NoteFindKeepsSilence,
         WriteKeepsSilence, SettingKeepsSilence
      DEF NoteNext
  <2>. QED  BY <2>1, ThreadsKeepSilence, OthersKeepSilence, ChatNextTypes DEF ChatNext
<1>3. SilenceInv => SilenceKept
  BY DEF SilenceInv, WriteKnows, SilenceKept, ChatAt
<1>. QED
  BY <1>1, <1>2, <1>3, PTL DEF ChatSpec

-----------------------------------------------------------------------------
(* Reviews: one per booking, whatever sums the calls carry.                *)

WriterOf(S) == [pc : {"idle", "make", "aggregate", "update"}, booking : Bookings \cup {NoBooking},
                rating : Ratings, sum : S, count : S]

ReviewShape ==
    /\ jobs \in [Bookings -> {"open", "COMPLETED", "gone"}]
    /\ reviews \in [Bookings -> Seq(Ratings)]
    /\ \E S : writer \in [Writers -> WriterOf(S)]
    /\ drift \in [done : SUBSET Bookings, met : SUBSET Bookings, stale : BOOLEAN]

\* A call works for a booking that was completed once, and what it is about to make is not there
\* unless it met another one.
Expects(l) ==
    l.pc # "idle" =>
        /\ l.booking \in Bookings
        /\ l.booking \in drift.done
        /\ l.pc = "make" /\ l.booking \notin drift.met => reviews[l.booking] = << >>

OnceInv ==
    /\ \A x \in Writers : Expects(writer[x])
    /\ \A x, y \in Writing : x # y /\ writer[x].booking = writer[y].booking =>
                                writer[x].booking \in drift.met
    /\ \A b \in Bookings :
          /\ jobs[b] = "COMPLETED" => b \in drift.done
          /\ reviews[b] # << >> => b \in drift.done
          /\ b \notin drift.met => Len(reviews[b]) <= 1

\* Before the first review nothing is reviewed.
LEMMA ReviewInitOnce == ReviewInit => ReviewShape /\ OnceInv
<1>. SUFFICES ASSUME ReviewInit PROVE ReviewShape /\ OnceInv
  OBVIOUS
<1>1. Unrated \in Ratings
  BY RatingsAreNat DEF Unrated
<1>2. NoWriter(Unrated) \in WriterOf({0}) /\ NoWriter(Unrated).pc = "idle"
  BY <1>1 DEF NoWriter, WriterOf
<1>3. writer \in [Writers -> WriterOf({0})]
  BY <1>2 DEF ReviewInit
<1>4. reviews \in [Bookings -> Seq(Ratings)] /\ \A b \in Bookings : Len(reviews[b]) = 0
  BY DEF ReviewInit
<1>5. ReviewShape
  BY <1>3, <1>4 DEF ReviewInit, ReviewShape
<1>6. OnceInv
  BY <1>2, <1>4 DEF ReviewInit, OnceInv, Expects, Writing
<1>. QED
  BY <1>5, <1>6

\* Every step keeps the reviews of a booking at one.
LEMMA ReviewNextOnce == ReviewShape /\ OnceInv /\ [ReviewNext]_reviewVars => (ReviewShape /\ OnceInv)'
<1>. SUFFICES ASSUME ReviewShape, OnceInv, [ReviewNext]_reviewVars PROVE (ReviewShape /\ OnceInv)'
  OBVIOUS
<1>. USE NoBookingIsNoKey
<1>0. PICK S : writer \in [Writers -> WriterOf(S)]
  BY DEF ReviewShape
<1>1. /\ jobs \in [Bookings -> {"open", "COMPLETED", "gone"}]
      /\ reviews \in [Bookings -> Seq(Ratings)]
      /\ drift \in [done : SUBSET Bookings, met : SUBSET Bookings, stale : BOOLEAN]
      /\ \A x \in Writers : writer[x] \in WriterOf(S) /\ Expects(writer[x])
  BY <1>0 DEF ReviewShape, OnceInv
<1>2. ASSUME NEW x \in Writers, NEW b \in Bookings, NEW r \in Ratings, CreateReview(x, b, r)
      PROVE  (ReviewShape /\ OnceInv)'
  <2> DEFINE l == [NoWriter(r) EXCEPT !.pc = "make", !.booking = b]
             T == S \cup {0}
  <2>1. l \in WriterOf(T) /\ l.pc = "make" /\ l.booking = b
    BY DEF NoWriter, WriterOf
  <2>2. writer' = [writer EXCEPT ![x] = l] /\ jobs' = jobs /\ reviews' = reviews
    BY <1>2 DEF CreateReview
  <2>. HIDE DEF l
  <2>3. writer' \in [Writers -> WriterOf(T)]
    BY <1>0, <2>1, <2>2 DEF WriterOf
  <2>4. \A y \in Writers : writer'[y] = IF y = x THEN l ELSE writer[y]
    BY <1>0, <2>2
  <2>5. /\ drift' \in [done : SUBSET Bookings, met : SUBSET Bookings, stale : BOOLEAN]
        /\ drift'.met = drift.met \cup {c \in {b} : \E y \in Writing : writer[y].booking = b}
        /\ drift'.done = drift.done
    <3>1. (Writing # {}) \in BOOLEAN
      OBVIOUS
    <3>. QED  BY <1>1, <1>2, <3>1 DEF CreateReview
  <2>6. b \in drift.done /\ reviews[b] = << >> /\ x \notin Writing
    BY <1>2 DEF CreateReview, WriterAt, Writing, OnceInv
  <2>7. \A y \in Writers : Expects(writer[y])'
    BY <1>1, <2>1, <2>2, <2>4, <2>5, <2>6 DEF Expects
  <2>8. Writing' = Writing \cup {x}
    BY <2>1, <2>4 DEF Writing
  <2>9. ASSUME NEW y \in Writing', NEW z \in Writing', y # z, writer'[y].booking = writer'[z].booking
        PROVE  writer'[y].booking \in drift'.met
    <3>1. CASE y # x /\ z # x
      BY <2>4, <2>5, <2>8, <2>9, <3>1 DEF OnceInv, Writing
    <3>2. CASE y = x \/ z = x
      <4>1. \E w \in Writing : writer[w].booking = b
        BY <2>1, <2>4, <2>8, <2>9, <3>2 DEF Writing
      <4>2. writer'[y].booking = b
        BY <2>1, <2>4, <2>8, <2>9, <3>2 DEF Writing
      <4>. QED  BY <2>5, <4>1, <4>2
    <3>. QED  BY <3>1, <3>2
  <2>. QED
    BY <2>2, <2>3, <2>5, <2>7, <2>9 DEF ReviewShape, OnceInv
<1>3. ASSUME NEW x \in Writers, MakeReview(x) PROVE (ReviewShape /\ OnceInv)'
  <2> DEFINE b == writer[x].booking
             l == [writer[x] EXCEPT !.pc = "aggregate"]
  <2>1. /\ b \in Bookings /\ b \in drift.done /\ writer[x].rating \in Ratings
        /\ b \notin drift.met => reviews[b] = << >>
        /\ x \in Writing
    BY <1>1, <1>3 DEF MakeReview, WriterAt, Expects, Writing, WriterOf
  <2>2. l \in WriterOf(S) /\ l.pc = "aggregate" /\ l.booking = b
    BY <1>1 DEF WriterOf
  <2>3. /\ writer' = [writer EXCEPT ![x] = l] /\ jobs' = jobs /\ drift' = drift
        /\ reviews' = [reviews EXCEPT ![b] = Append(reviews[b], writer[x].rating)]
    BY <1>3 DEF MakeReview
  <2>. HIDE DEF l, b
  <2>4. \A y \in Writers : writer'[y] = IF y = x THEN l ELSE writer[y]
    BY <1>0, <2>3
  <2>5. writer' \in [Writers -> WriterOf(S)] /\ reviews' \in [Bookings -> Seq(Ratings)]
    BY <1>0, <1>1, <2>1, <2>2, <2>3
  <2>6. /\ \A c \in Bookings \ {b} : reviews'[c] = reviews[c]
        /\ b \notin drift.met => Len(reviews'[b]) <= 1
    <3>1. reviews[b] = << >> => Len(Append(reviews[b], writer[x].rating)) <= 1
      BY <1>1, <2>1
    <3>. QED  BY <1>1, <2>1, <2>3, <3>1
  <2>7. ASSUME NEW y \in Writers PROVE Expects(writer[y])'
    <3>1. CASE y = x
      BY <2>1, <2>2, <2>3, <2>4, <3>1 DEF Expects
    <3>2. CASE y # x
      <4>1. writer[y].pc # "idle" /\ writer[y].booking = b => b \in drift.met
        BY <2>1, <3>2 DEF OnceInv, Writing, b
      <4>. QED  BY <1>1, <2>3, <2>4, <2>6, <3>2, <4>1 DEF Expects
    <3>. QED  BY <3>1, <3>2
  <2>8. Writing' = Writing /\ \A y \in Writers : writer'[y].booking = writer[y].booking
    BY <2>1, <2>2, <2>4 DEF Writing, b
  <2>9. \A y, z \in Writing' : y # z /\ writer'[y].booking = writer'[z].booking =>
                                  writer'[y].booking \in drift'.met
    BY <2>3, <2>8 DEF OnceInv, Writing
  <2>10. \A c \in Bookings : /\ reviews'[c] # << >> => c \in drift'.done
                             /\ c \notin drift'.met => Len(reviews'[c]) <= 1
    BY <2>1, <2>3, <2>6 DEF OnceInv
  <2>. QED
    BY <1>1, <2>3, <2>5, <2>7, <2>9, <2>10 DEF ReviewShape, OnceInv
<1>4. ASSUME NEW x \in Writers, Aggregate(x) PROVE (ReviewShape /\ OnceInv)'
  <2>1. PICK m, n : writer' = [writer EXCEPT ![x].pc = "update", ![x].sum = m, ![x].count = n]
    BY <1>4 DEF Aggregate
  <2> DEFINE l == [writer[x] EXCEPT !.pc = "update", !.sum = m, !.count = n]
             T == S \cup {m, n}
  <2>2. /\ l \in WriterOf(T) /\ l.pc = "update" /\ l.booking = writer[x].booking
        /\ x \in Writing
    <3>1. writer[x].pc = "aggregate" /\ writer[x] \in WriterOf(S)
      BY <1>1, <1>4 DEF Aggregate, WriterAt
    <3>. QED  BY <3>1 DEF WriterOf, Writing
  <2>3. writer' = [writer EXCEPT ![x] = l]
    BY <1>0, <2>1 DEF WriterOf
  <2>4. UNCHANGED <<jobs, reviews, drift>>
    BY <1>4 DEF Aggregate
  <2>. HIDE DEF l
  <2>5. writer' \in [Writers -> WriterOf(T)]
    BY <1>0, <2>2, <2>3 DEF WriterOf
  <2>6. \A y \in Writers : writer'[y] = IF y = x THEN l ELSE writer[y]
    BY <1>0, <2>3
  <2>7. Writing' = Writing /\ \A y \in Writers : writer'[y].booking = writer[y].booking
    BY <2>2, <2>6 DEF Writing
  <2>8. \A y \in Writers : Expects(writer[y])'
    BY <1>1, <2>2, <2>4, <2>6 DEF Expects, Writing
  <2>. QED
    BY <1>1, <2>4, <2>5, <2>7, <2>8 DEF ReviewShape, OnceInv, Writing
<1>5. ASSUME NEW x \in Writers, UpdateRating(x) PROVE (ReviewShape /\ OnceInv)'
  <2> DEFINE l == NoWriter(Unrated)
             T == S \cup {0}
  <2>1. Unrated \in Ratings
    BY RatingsAreNat DEF Unrated
  <2>2. l \in WriterOf(T) /\ l.pc = "idle"
    BY <2>1 DEF NoWriter, WriterOf
  <2>3. writer' = [writer EXCEPT ![x] = l] /\ jobs' = jobs /\ reviews' = reviews
    BY <1>5 DEF UpdateRating, WriterEnds
  <2>4. /\ drift' \in [done : SUBSET Bookings, met : SUBSET Bookings, stale : BOOLEAN]
        /\ drift'.met = drift.met
        /\ drift'.done = drift.done
    BY <1>1, <1>5 DEF UpdateRating
  <2>. HIDE DEF l
  <2>5. writer' \in [Writers -> WriterOf(T)]
    BY <1>0, <2>2, <2>3 DEF WriterOf
  <2>6. \A y \in Writers : writer'[y] = IF y = x THEN l ELSE writer[y]
    BY <1>0, <2>3
  <2>7. \A y \in Writing' : y \in Writing /\ writer'[y] = writer[y]
    BY <2>2, <2>6 DEF Writing
  <2>8. \A y \in Writers : Expects(writer[y])'
    BY <1>1, <2>2, <2>3, <2>4, <2>6 DEF Expects
  <2>. QED
    BY <1>1, <2>3, <2>4, <2>5, <2>7, <2>8 DEF ReviewShape, OnceInv
<1>6. ASSUME NEW b \in Bookings, JobDone(b) PROVE (ReviewShape /\ OnceInv)'
  <2>1. /\ jobs' \in [Bookings -> {"open", "COMPLETED", "gone"}]
        /\ \A c \in Bookings \ {b} : jobs'[c] = jobs[c]
        /\ drift' \in [done : SUBSET Bookings, met : SUBSET Bookings, stale : BOOLEAN]
        /\ drift'.met = drift.met /\ drift'.done = drift.done \cup {b}
    BY <1>1, <1>6 DEF JobDone
  <2>2. UNCHANGED <<reviews, profile, writer>>
    BY <1>6 DEF JobDone
  <2>3. \A y \in Writers : Expects(writer[y])'
    BY <1>1, <2>1, <2>2 DEF Expects
  <2>. QED
    BY <1>0, <1>1, <2>1, <2>2, <2>3 DEF ReviewShape, OnceInv, Writing
<1>9. ASSUME NEW b \in Bookings, JobReopened(b) PROVE (ReviewShape /\ OnceInv)'
  <2>1. /\ jobs' \in [Bookings -> {"open", "COMPLETED", "gone"}]
        /\ \A c \in Bookings : jobs'[c] = "COMPLETED" => jobs[c] = "COMPLETED"
    BY <1>1, <1>9 DEF JobReopened
  <2>2. UNCHANGED <<reviews, profile, writer, drift>>
    BY <1>9 DEF JobReopened
  <2>3. \A y \in Writers : Expects(writer[y])'
    BY <1>1, <2>2 DEF Expects
  <2>. QED
    BY <1>0, <1>1, <2>1, <2>2, <2>3 DEF ReviewShape, OnceInv, Writing
<1>7. ASSUME NEW b \in Bookings, AthleteRemoved(b) PROVE (ReviewShape /\ OnceInv)'
  <2>1. /\ jobs' \in [Bookings -> {"open", "COMPLETED", "gone"}]
        /\ reviews' \in [Bookings -> Seq(Ratings)]
        /\ \A c \in Bookings \ {b} : jobs'[c] = jobs[c] /\ reviews'[c] = reviews[c]
        /\ jobs'[b] = "gone"
        /\ reviews'[b] = << >> /\ Len(reviews'[b]) = 0
    BY <1>1, <1>7 DEF AthleteRemoved
  <2>2. writer' = writer /\ \A x \in Writers : writer[x].booking # b
    BY <1>7 DEF AthleteRemoved
  <2>3. /\ drift' \in [done : SUBSET Bookings, met : SUBSET Bookings, stale : BOOLEAN]
        /\ drift'.met = drift.met /\ drift'.done = drift.done
    BY <1>1, <1>7 DEF AthleteRemoved
  <2>4. \A y \in Writers : Expects(writer[y])'
    BY <1>1, <2>1, <2>2, <2>3 DEF Expects
  <2>5. ReviewShape'
    BY <1>0, <2>1, <2>2, <2>3 DEF ReviewShape
  <2>6. \A c \in Bookings : /\ jobs'[c] = "COMPLETED" => c \in drift'.done
                            /\ reviews'[c] # << >> => c \in drift'.done
                            /\ c \notin drift'.met => Len(reviews'[c]) <= 1
    BY SMTT(30), <2>1, <2>3 DEF OnceInv
  <2>7. \A y, z \in Writing' : y # z /\ writer'[y].booking = writer'[z].booking =>
                                  writer'[y].booking \in drift'.met
    BY <2>2, <2>3 DEF OnceInv, Writing
  <2>. QED
    BY <2>4, <2>5, <2>6, <2>7 DEF OnceInv
<1>8. CASE UNCHANGED reviewVars
  BY <1>8, <1>0 DEF reviewVars, ReviewShape, OnceInv, Expects, Writing
<1>. QED
  BY <1>2, <1>3, <1>4, <1>5, <1>6, <1>7, <1>8, <1>9 DEF ReviewNext

\* A booking is reviewed only when it was completed before, and once, unless two
\* reviews of it were in flight together; its status may be written back, accounts may
\* be deleted and updates may fail meanwhile (createReview).
THEOREM ReviewedOnce == ReviewSpec => []OneReviewPerBooking
<1>1. ReviewShape /\ OnceInv => OneReviewPerBooking
  <2>. SUFFICES ASSUME ReviewShape, OnceInv, NEW b \in Bookings
                PROVE  /\ Len(reviews[b]) > 0 => b \in drift.done
                       /\ b \notin drift.met => Len(reviews[b]) <= 1
    BY DEF OneReviewPerBooking
  <2>1. reviews[b] = << >> => Len(reviews[b]) = 0
    OBVIOUS
  <2>. QED  BY <2>1 DEF OnceInv
<1>. QED
  BY <1>1, ReviewInitOnce, ReviewNextOnce, PTL DEF ReviewSpec

-----------------------------------------------------------------------------
(* Reviews: the types and the rating.  While what the profile shows is not *)
(* stale one review is in flight at most, and once it has aggregated the   *)
(* rows there are no others.                                               *)

Figures == [sum |-> RatedSum(reviews), count |-> RatedCount(reviews)]

RatingInv ==
    /\ ReviewTypeOK
    /\ ~drift.stale =>
          /\ \A x, y \in Writing : x = y
          /\ Writing = {} => profile = Figures
          /\ \A x \in Writers : writer[x].pc = "update" =>
                                   [sum |-> writer[x].sum, count |-> writer[x].count] = Figures

\* The figures of any rows are natural numbers, and 0 when there are no rows.
LEMMA FiguresAreNat ==
  ASSUME NEW all, \A b \in Bookings : all[b] \in Seq(Ratings)
  PROVE  RatedSum(all) \in Nat /\ RatedCount(all) \in Nat
<1>. USE BookingsAreFinite, RatingsAreNat
<1>1. ASSUME NEW b \in Bookings PROVE RowsSum(all[b]) \in Nat /\ Cardinality(Rated(all[b])) \in Nat
  <2>. PICK rows : rows = all[b]
    OBVIOUS
  <2>0. rows \in Seq(Ratings) /\ DOMAIN rows = 1..Len(rows)
    OBVIOUS
  <2>1. IsFiniteSet(DOMAIN rows)
    BY <2>0, FS_Interval
  <2>2. /\ Rated(rows) \in SUBSET DOMAIN rows
        /\ \A i \in DOMAIN rows : rows[i] \in Nat
    <3>1. \A i \in DOMAIN rows : rows[i] \in Ratings
      BY <2>0
    <3>2. Rated(rows) \in SUBSET DOMAIN rows
      BY DEF Rated
    <3>. QED  BY <3>1, <3>2
  <2>3. Total(rows, Rated(rows)) \in Nat
    BY <2>1, <2>2, TotalSums
  <2>4. Cardinality(Rated(rows)) \in Nat
    BY <2>1, <2>2, FS_Subset, FS_CardinalityType
  <2>. QED  BY <2>3, <2>4 DEF RowsSum, Total
<1>. PICK G : G = [b \in Bookings |-> RowsSum(all[b])]
  OBVIOUS
<1>. PICK H : H = [b \in Bookings |-> Cardinality(Rated(all[b]))]
  OBVIOUS
<1>2. RatedSum(all) = Total(G, Bookings)
  BY DEF RatedSum, Total, MapThenSumSet, MapThenFoldSet
<1>3. RatedCount(all) = Total(H, Bookings)
  BY DEF RatedCount, Total, MapThenSumSet, MapThenFoldSet
<1>4. \A b \in Bookings : G[b] \in Nat /\ H[b] \in Nat
  BY <1>1
<1>5. Bookings \in SUBSET Bookings
  OBVIOUS
<1>6. Total(G, Bookings) \in Nat /\ Total(H, Bookings) \in Nat
  BY <1>4, <1>5, TotalSums
<1>. QED  BY <1>2, <1>3, <1>6

\* No rows have no rating.
LEMMA NoRowsNoRating ==
  ASSUME NEW all, \A b \in Bookings : all[b] = << >>
  PROVE  RatedSum(all) = 0 /\ RatedCount(all) = 0
<1>. USE BookingsAreFinite
<1>1. Rated(<< >>) = {}
  BY DEF Rated
<1>2. RowsSum(<< >>) = 0
  <2>1. Total(<< >>, {}) = 0
    BY FS_EmptySet, TotalSums
  <2>. QED  BY <1>1, <2>1 DEF RowsSum, Total
<1>3. Cardinality(Rated(<< >>)) = 0
  BY <1>1, FS_EmptySet
<1>. PICK G : G = [b \in Bookings |-> RowsSum(all[b])]
  OBVIOUS
<1>. PICK H : H = [b \in Bookings |-> Cardinality(Rated(all[b]))]
  OBVIOUS
<1>4. RatedSum(all) = Total(G, Bookings)
  BY ZenonT(60) DEF RatedSum, Total, MapThenSumSet, MapThenFoldSet
<1>5. RatedCount(all) = Total(H, Bookings)
  BY ZenonT(60) DEF RatedCount, Total, MapThenSumSet, MapThenFoldSet
<1>6. G = [b \in Bookings |-> 0] /\ H = [b \in Bookings |-> 0]
  BY <1>2, <1>3
<1>7. Total([b \in Bookings |-> 0], Bookings) = 0
  BY NoughtsAddToNought
<1>. QED  BY <1>4, <1>5, <1>6, <1>7

\* Without reviews the ratings are nought.
LEMMA RatingStarts == ReviewInit => RatingInv
<1>. SUFFICES ASSUME ReviewInit PROVE RatingInv
  OBVIOUS
<1>1. Unrated \in Ratings
  BY RatingsAreNat DEF Unrated
<1>2. NoWriter(Unrated) \in Writer /\ NoWriter(Unrated).pc = "idle"
  BY <1>1 DEF NoWriter, Writer
<1>3. writer \in [Writers -> Writer] /\ \A x \in Writers : writer[x].pc = "idle"
  BY <1>2 DEF ReviewInit
<1>4. reviews \in [Bookings -> Seq(Ratings)] /\ \A b \in Bookings : reviews[b] = << >>
  BY DEF ReviewInit
<1>5. Figures = profile
  BY <1>4, NoRowsNoRating DEF Figures, ReviewInit
<1>6. ReviewTypeOK
  BY <1>3, <1>4 DEF ReviewInit, ReviewTypeOK
<1>7. Writing = {}
  BY <1>3 DEF Writing
<1>. QED  BY <1>3, <1>5, <1>6, <1>7 DEF RatingInv

\* A call that no other meets keeps what the profile shows; one that meets others
\* makes it stale.
LEMMA RatingBegins ==
  ASSUME RatingInv, NEW x \in Writers, NEW b \in Bookings, NEW r \in Ratings, CreateReview(x, b, r)
  PROVE  RatingInv'
<1>. USE NoBookingIsNoKey
<1> DEFINE l == [NoWriter(r) EXCEPT !.pc = "make", !.booking = b]
<1>1. l \in Writer /\ l.pc = "make"
  BY DEF NoWriter, Writer
<1>2. writer' = [writer EXCEPT ![x] = l] /\ UNCHANGED <<jobs, reviews, profile>>
  BY DEF CreateReview
<1>. HIDE DEF l
<1>3. /\ drift' \in [done : SUBSET Bookings, met : SUBSET Bookings, stale : BOOLEAN]
      /\ (drift'.stale <=> Writing # {})
  <2>1. (Writing # {}) \in BOOLEAN
    OBVIOUS
  <2>. QED  BY <2>1 DEF CreateReview, RatingInv, ReviewTypeOK
<1>4. writer' \in [Writers -> Writer] /\ \A y \in Writers : writer'[y] = IF y = x THEN l ELSE writer[y]
  BY <1>1, <1>2 DEF RatingInv, ReviewTypeOK
<1>5. ReviewTypeOK'
  BY <1>2, <1>3, <1>4 DEF RatingInv, ReviewTypeOK
<1>6. CASE Writing # {}
  BY <1>3, <1>5, <1>6 DEF RatingInv
<1>7. CASE Writing = {}
  <2>1. Writing' = {x} /\ \A y \in Writers : writer'[y].pc # "update"
    BY <1>1, <1>4, <1>7 DEF Writing
  <2>. QED  BY <1>5, <2>1 DEF RatingInv
<1>. QED  BY <1>6, <1>7

\* A step of a call in flight.  While the profile is not stale there is no other.
LEMMA RatingGoesOn ==
  ASSUME RatingInv, NEW x \in Writers, x \in Writing, NEW l \in Writer, l.pc # "idle",
         writer' = [writer EXCEPT ![x] = l],
         UNCHANGED <<jobs, profile, drift>>, reviews' \in [Bookings -> Seq(Ratings)],
         l.pc = "update" => [sum |-> l.sum, count |-> l.count] = Figures'
  PROVE  RatingInv'
<1>1. writer' \in [Writers -> Writer] /\ \A y \in Writers : writer'[y] = IF y = x THEN l ELSE writer[y]
  BY DEF RatingInv, ReviewTypeOK
<1>2. ReviewTypeOK'
  BY <1>1 DEF RatingInv, ReviewTypeOK
<1>3. Writing' = Writing
  BY <1>1 DEF Writing
<1>4. ASSUME ~drift.stale, NEW y \in Writers, writer'[y].pc = "update"
      PROVE  [sum |-> writer'[y].sum, count |-> writer'[y].count] = Figures'
  <2>1. y \in Writing'
    BY <1>4 DEF Writing
  <2>2. y = x
    BY <1>3, <1>4, <2>1 DEF RatingInv
  <2>. QED  BY <1>1, <1>4, <2>2
<1>. QED  BY <1>2, <1>3, <1>4 DEF RatingInv

\* A new review leaves its writer with the aggregate to write.
LEMMA RatingMakes == ASSUME RatingInv, NEW x \in Writers, MakeReview(x) PROVE RatingInv'
<1>. USE NoBookingIsNoKey
<1> DEFINE l == [writer[x] EXCEPT !.pc = "aggregate"]
<1>0. writer[x] \in Writer /\ writer[x].pc = "make"
  BY DEF MakeReview, WriterAt, RatingInv, ReviewTypeOK
<1>1. l \in Writer /\ l.pc = "aggregate"
  BY <1>0 DEF Writer
<1>2. writer' = [writer EXCEPT ![x] = l] /\ UNCHANGED <<jobs, profile, drift>>
  BY DEF MakeReview
<1>3. x \in Writing
  BY <1>0 DEF Writing
<1>. HIDE DEF l
<1>4. reviews' \in [Bookings -> Seq(Ratings)]
  <2>1. writer[x].rating \in Ratings /\ reviews \in [Bookings -> Seq(Ratings)]
    BY <1>0 DEF Writer, RatingInv, ReviewTypeOK
  <2>2. \A c \in Bookings : Append(reviews[c], writer[x].rating) \in Seq(Ratings)
    BY <2>1
  <2>3. reviews' = [reviews EXCEPT ![writer[x].booking] = Append(reviews[writer[x].booking], writer[x].rating)]
    BY DEF MakeReview
  <2>. QED  BY <2>1, <2>2, <2>3
<1>. QED  BY <1>1, <1>2, <1>3, <1>4, RatingGoesOn

\* The aggregate that is written is that of the reviews read.
LEMMA RatingAggregates == ASSUME RatingInv, NEW x \in Writers, Aggregate(x) PROVE RatingInv'
<1>. PICK m, n : m = RatedSum(reviews) /\ n = RatedCount(reviews)
  OBVIOUS
<1> DEFINE l == [writer[x] EXCEPT !.pc = "update", !.sum = m, !.count = n]
<1>0. /\ writer[x] \in Writer /\ writer[x].pc = "aggregate" /\ writer \in [Writers -> Writer]
      /\ reviews \in [Bookings -> Seq(Ratings)]
  BY DEF Aggregate, WriterAt, RatingInv, ReviewTypeOK
<1>1. m \in Nat /\ n \in Nat
  BY <1>0, FiguresAreNat
<1>2. l \in Writer /\ l.pc = "update" /\ l.sum = m /\ l.count = n
  BY <1>0, <1>1 DEF Writer
<1>3. UNCHANGED <<jobs, reviews, profile, drift>>
  BY DEF Aggregate
<1>4. writer' = [writer EXCEPT ![x] = l]
  <2>1. writer' = [writer EXCEPT ![x].pc = "update", ![x].sum = m, ![x].count = n]
    BY DEF Aggregate
  <2>. QED  BY <1>0, <2>1 DEF Writer
<1>5. x \in Writing
  BY <1>0 DEF Writing
<1>6. Figures' = [sum |-> m, count |-> n]
  BY <1>3 DEF Figures
<1>. HIDE DEF l
<1>. QED  BY <1>0, <1>2, <1>3, <1>4, <1>5, <1>6, RatingGoesOn

\* The update writes the figures of the rows there are, or fails and leaves the
\* profile stale.
LEMMA RatingUpdates == ASSUME RatingInv, NEW x \in Writers, UpdateRating(x) PROVE RatingInv'
<1> DEFINE l == NoWriter(Unrated)
<1>1. Unrated \in Ratings
  BY RatingsAreNat DEF Unrated
<1>2. l \in Writer /\ l.pc = "idle"
  BY <1>1 DEF NoWriter, Writer
<1>3. writer' = [writer EXCEPT ![x] = l] /\ UNCHANGED <<jobs, reviews>>
  BY DEF UpdateRating, WriterEnds
<1>. HIDE DEF l
<1>4. /\ writer \in [Writers -> Writer] /\ writer' \in [Writers -> Writer]
      /\ \A y \in Writers : writer'[y] = IF y = x THEN l ELSE writer[y]
  BY <1>2, <1>3 DEF RatingInv, ReviewTypeOK
<1>5. writer[x].pc = "update" /\ x \in Writing /\ writer[x] \in Writer
  BY <1>4 DEF UpdateRating, WriterAt, Writing
<1>6. CASE profile' = [sum |-> writer[x].sum, count |-> writer[x].count] /\ drift' = drift
  <2>1. profile' \in [sum : Nat, count : Nat]
    BY <1>5, <1>6 DEF Writer
  <2>2. ReviewTypeOK'
    BY <1>3, <1>4, <1>6, <2>1 DEF RatingInv, ReviewTypeOK
  <2>3. ASSUME ~drift.stale PROVE Writing' = {} /\ profile' = Figures'
    <3>1. Writing = {x} /\ profile' = Figures
      BY <1>5, <1>6, <2>3 DEF RatingInv
    <3>2. Writing' = {}
      BY <1>2, <1>4, <3>1 DEF Writing
    <3>. QED  BY <1>3, <3>1, <3>2 DEF Figures
  <2>4. Writing' = {} => \A y \in Writers : writer'[y].pc # "update"
    BY DEF Writing
  <2>. QED  BY <1>6, <2>2, <2>3, <2>4 DEF RatingInv
<1>7. CASE drift' = [drift EXCEPT !.stale = TRUE] /\ profile' = profile
  <2>1. drift' \in [done : SUBSET Bookings, met : SUBSET Bookings, stale : BOOLEAN] /\ drift'.stale
    BY <1>7 DEF RatingInv, ReviewTypeOK
  <2>2. ReviewTypeOK'
    BY <1>3, <1>4, <1>7, <2>1 DEF RatingInv, ReviewTypeOK
  <2>. QED  BY <2>1, <2>2 DEF RatingInv
<1>. QED  BY <1>6, <1>7 DEF UpdateRating

\* The deletion of an account that has reviews makes the profile stale; one that has
\* none leaves the rows as they are.
LEMMA RatingOthers ==
  ASSUME RatingInv, NEW b \in Bookings, JobDone(b) \/ JobReopened(b) \/ AthleteRemoved(b)
  PROVE  RatingInv'
<1>1. CASE JobDone(b) \/ JobReopened(b)
  <2>1. /\ jobs' \in [Bookings -> {"open", "COMPLETED", "gone"}]
        /\ drift' \in [done : SUBSET Bookings, met : SUBSET Bookings, stale : BOOLEAN]
        /\ drift'.stale = drift.stale
        /\ UNCHANGED <<reviews, profile, writer>>
    <3>1. /\ jobs \in [Bookings -> {"open", "COMPLETED", "gone"}]
          /\ drift \in [done : SUBSET Bookings, met : SUBSET Bookings, stale : BOOLEAN]
      BY DEF RatingInv, ReviewTypeOK
    <3>2. CASE JobDone(b)
      BY <3>1, <3>2 DEF JobDone
    <3>3. CASE JobReopened(b)
      BY <3>1, <3>3 DEF JobReopened
    <3>. QED  BY <1>1, <3>2, <3>3
  <2>. QED  BY <2>1 DEF RatingInv, ReviewTypeOK, Writing, Figures
<1>2. CASE AthleteRemoved(b)
  <2>1. /\ jobs' \in [Bookings -> {"open", "COMPLETED", "gone"}]
        /\ reviews' \in [Bookings -> Seq(Ratings)]
        /\ UNCHANGED <<profile, writer>>
    BY <1>2 DEF AthleteRemoved, RatingInv, ReviewTypeOK
  <2>2. reviews \in [Bookings -> Seq(Ratings)] /\ reviews' = [reviews EXCEPT ![b] = << >>]
    BY <1>2 DEF AthleteRemoved, RatingInv, ReviewTypeOK
  <2>. PICK s \in BOOLEAN : s <=> drift.stale \/ reviews[b] # << >>
    OBVIOUS
  <2>3. drift \in [done : SUBSET Bookings, met : SUBSET Bookings, stale : BOOLEAN]
    BY DEF RatingInv, ReviewTypeOK
  <2>4. drift' \in [done : SUBSET Bookings, met : SUBSET Bookings, stale : BOOLEAN] /\ (drift'.stale <=> s)
    <3>1. (drift.stale \/ reviews[b] # << >>) \in BOOLEAN
      OBVIOUS
    <3>. QED  BY <1>2, <2>3, <3>1 DEF AthleteRemoved
  <2>5. ReviewTypeOK'
    BY <2>1, <2>4 DEF RatingInv, ReviewTypeOK
  <2>6. ~drift'.stale => ~drift.stale /\ reviews' = reviews
    BY <2>2, <2>4
  <2>. QED  BY <2>1, <2>5, <2>6 DEF RatingInv, Writing, Figures
<1>. QED  BY <1>1, <1>2

\* Every step keeps the ratings true.
LEMMA RatingNext == RatingInv /\ [ReviewNext]_reviewVars => RatingInv'
<1>1. RatingInv /\ ReviewNext => RatingInv'
  BY RatingBegins, RatingMakes, RatingAggregates, RatingUpdates, RatingOthers DEF ReviewNext
<1>2. RatingInv /\ UNCHANGED reviewVars => RatingInv'
  BY DEF reviewVars, RatingInv, ReviewTypeOK, Writing, Figures
<1>. QED  BY <1>1, <1>2

\* Rows, jobs, calls and the profile have their types.
THEOREM ReviewTypesKept == ReviewSpec => []ReviewTypeOK
<1>1. RatingInv => ReviewTypeOK
  BY DEF RatingInv
<1>. QED  BY <1>1, RatingStarts, RatingNext, PTL DEF ReviewSpec

\* When no review is in flight the profile of the coach shows the rating of the rows
\* there are, unless since the last review that was written alone two of them met,
\* the update failed, or an account was deleted with its rows (createReview).
THEOREM RatingIsOfReviews == ReviewSpec => []RatingFollowsReviews
<1>1. RatingInv => RatingFollowsReviews
  BY DEF RatingInv, RatingFollowsReviews, Figures
<1>. QED  BY <1>1, RatingStarts, RatingNext, PTL DEF ReviewSpec

-----------------------------------------------------------------------------
(* Goals: the types, the limit and the titles, and the percentage.         *)

AtGoal == {"goal_update", "entry_make", "entry_latest", "entry_percent", "note_make"}

\* What a call carries; those that make or rename a goal carry a title.
WorkFits(l) ==
    /\ l.pc \in AtGoal => l.goal \in Existing
    /\ l.pc \notin AtGoal => l.goal = NoGoal
    /\ l.pc \in {"goal_make", "goal_update"} <=> l.title # NoGoal
    /\ l.pc = "note_make" => l.mentor \in Mentors
    /\ l.pc = "entry_latest" => entries[l.goal] # << >>
    /\ l.pc = "entry_percent" => l.value \in Amounts /\ l.target > 0

GoalTypeInv == GoalTypeOK /\ IsFiniteSet(Existing) /\ \A x \in GoalCalls : WorkFits(work[x])

\* A call about goals that is not running holds nothing.
LEMMA NoWorkFits ==
  /\ NoWork \in Work /\ WorkFits(NoWork) /\ NoWork.pc = "idle" /\ NoWork.title = NoGoal
  /\ NoWork.goal = NoGoal
  BY AmountsAreNat DEF NoWork, Work, WorkFits, AtGoal

\* What the state is made of.
LEMMA GoalShape ==
  ASSUME GoalTypeInv
  PROVE  /\ Existing \subseteq GoalIds /\ goals \in [Existing -> Goal] /\ IsFiniteSet(Existing)
         /\ entries \in [GoalIds -> Seq(Amounts \cup {Unsaid})]
         /\ goalNotes \subseteq [goal : GoalIds, mentor : Mentors]
         /\ work \in [GoalCalls -> Work] /\ \A x \in GoalCalls : WorkFits(work[x])
         /\ beside \in [met : SUBSET (GoalIds \cup {NoGoal}), behind : SUBSET GoalIds]
         /\ NoGoal \notin GoalIds /\ NoGoal \notin Titles /\ NoGoal \notin Mentors
         /\ Amounts \subseteq Nat /\ 0 \in Amounts /\ Unsaid \notin Amounts
  BY NoGoalIsNoKey, AmountsAreNat, UnsaidIsNoAmount DEF GoalTypeInv, GoalTypeOK

\* A percentage is one.
LEMMA PercentIsPercent ==
  ASSUME NEW v \in Nat, NEW t \in Nat, t > 0 PROVE PercentOf(v, t) \in 0..100
<1>1. (100 * v) \div t \in Nat
  OBVIOUS
<1>. QED  BY <1>1 DEF PercentOf, Min100

\* A step of one call that makes no goal and takes none away.
LEMMA WorkStep ==
  ASSUME GoalTypeInv, NEW x \in GoalCalls, NEW l \in Work, work' = [work EXCEPT ![x] = l],
         goals' \in [Existing -> Goal], entries' \in [GoalIds -> Seq(Amounts \cup {Unsaid})],
         \A g \in GoalIds : entries[g] # << >> => entries'[g] # << >>,
         goalNotes' \subseteq [goal : GoalIds, mentor : Mentors],
         beside' \in [met : SUBSET (GoalIds \cup {NoGoal}), behind : SUBSET GoalIds],
         WorkFits(work[x])'
  PROVE  GoalTypeInv'
<1>1. Existing' = Existing
  BY DEF Existing
<1>2. work' \in [GoalCalls -> Work] /\ \A y \in GoalCalls : y # x => work'[y] = work[y]
  BY GoalShape
<1>3. ASSUME NEW y \in GoalCalls, y # x PROVE WorkFits(work[y])'
  <2>1. WorkFits(work[y]) /\ work'[y] = work[y]
    BY <1>2, <1>3, GoalShape
  <2>2. work[y].pc = "entry_latest" => work[y].goal \in GoalIds
    BY <2>1, GoalShape DEF WorkFits, AtGoal
  <2>. QED  BY <1>1, <2>1, <2>2 DEF WorkFits
<1>4. GoalTypeOK'
  BY <1>1, <1>2, GoalShape DEF GoalTypeOK
<1>. QED  BY <1>1, <1>3, <1>4, GoalShape DEF GoalTypeInv

\* A call begins: it only takes down what it will go on with.
LEMMA GoalCallsBegin ==
  ASSUME GoalTypeInv, NEW x \in GoalCalls, NEW l \in Work, work' = [work EXCEPT ![x] = l],
         UNCHANGED <<goals, entries, goalNotes>>, WorkFits(l),
         beside'.met \subseteq GoalIds \cup {NoGoal}, beside'.behind \subseteq GoalIds,
         beside' = [met |-> beside'.met, behind |-> beside'.behind]
  PROVE  GoalTypeInv'
<1>1. work'[x] = l
  BY GoalShape
<1>2. WorkFits(work[x])'
  BY <1>1 DEF WorkFits, Existing
<1>. QED  BY <1>2, GoalShape, WorkStep

\* Where one more call meets those that are at a goal already.
LEMMA BesideRecord ==
  ASSUME GoalTypeInv, NEW m, NEW a
  PROVE  /\ beside = [met |-> beside.met, behind |-> beside.behind]
         /\ [beside EXCEPT !.met = m] = [met |-> m, behind |-> beside.behind]
         /\ [beside EXCEPT !.behind = a] = [met |-> beside.met, behind |-> a]
  BY GoalShape

\* Before the first goal the types hold.
LEMMA GoalInitTypes == GoalInit => GoalTypeInv
<1>. SUFFICES ASSUME GoalInit PROVE GoalTypeInv
  OBVIOUS
<1>1. Existing = {} /\ goals \in [Existing -> Goal]
  BY DEF GoalInit, Existing
<1>2. \A x \in GoalCalls : work[x] = NoWork
  BY DEF GoalInit
<1>3. GoalTypeOK
  BY <1>1, NoWorkFits DEF GoalInit, GoalTypeOK
<1>. QED  BY <1>1, <1>2, <1>3, NoWorkFits, FS_EmptySet DEF GoalTypeInv

\* What the calls carry when they begin.
LEMMA GoalBegins ==
  ASSUME GoalTypeInv, NEW x \in GoalCalls,
         \/ \E t \in Titles, n \in Amounts : CreateGoal(x, t, n)
         \/ \E g \in Existing : \/ \E t \in Titles, n \in Amounts \cup {Unsaid} : UpdateGoal(x, g, t, n)
                                \/ \E n \in Amounts \cup {Unsaid} : AddProgress(x, g, n)
                                \/ \E m \in Mentors : AddCoachNote(x, g, m)
  PROVE  GoalTypeInv'
<1>0. Meets(NoGoal) \subseteq GoalIds \cup {NoGoal}
      /\ \A g \in Existing : Meets(g) \subseteq GoalIds \cup {NoGoal}
  BY GoalShape DEF Meets
<1>1. ASSUME NEW t \in Titles, NEW n \in Amounts, CreateGoal(x, t, n) PROVE GoalTypeInv'
  <2> DEFINE l == [NoWork EXCEPT !.pc = "goal_make", !.title = t, !.target = n]
             m == IF \E y \in GoalCalls : work[y].title # NoGoal THEN beside.met \cup {NoGoal}
                  ELSE beside.met
  <2>1. l \in Work /\ WorkFits(l)
    BY GoalShape DEF NoWork, Work, WorkFits, AtGoal
  <2>2. /\ work' = [work EXCEPT ![x] = l] /\ beside' = [beside EXCEPT !.met = m]
        /\ UNCHANGED <<goals, entries, goalNotes>>
    BY <1>1 DEF CreateGoal
  <2>3. m \subseteq GoalIds \cup {NoGoal} /\ beside.behind \subseteq GoalIds
    BY GoalShape
  <2>. HIDE DEF l, m
  <2>4. beside' = [met |-> m, behind |-> beside.behind]
    BY <2>2, BesideRecord
  <2>. QED  BY <2>1, <2>2, <2>3, <2>4, GoalCallsBegin
<1>2. ASSUME NEW g \in Existing, NEW t \in Titles, NEW n \in Amounts \cup {Unsaid}, UpdateGoal(x, g, t, n)
      PROVE  GoalTypeInv'
  <2> DEFINE l == [NoWork EXCEPT !.pc = "goal_update", !.goal = g, !.title = t, !.value = n]
             m == IF \E y \in GoalCalls : work[y].title # NoGoal THEN Meets(g) \cup {NoGoal}
                  ELSE Meets(g)
  <2>1. l \in Work /\ WorkFits(l)
    BY GoalShape DEF NoWork, Work, WorkFits, AtGoal
  <2>2. /\ work' = [work EXCEPT ![x] = l] /\ beside' = [beside EXCEPT !.met = m]
        /\ UNCHANGED <<goals, entries, goalNotes>>
    BY <1>2 DEF UpdateGoal
  <2>3. m \subseteq GoalIds \cup {NoGoal} /\ beside.behind \subseteq GoalIds
    BY <1>0, GoalShape
  <2>. HIDE DEF l, m
  <2>4. beside' = [met |-> m, behind |-> beside.behind]
    BY <2>2, BesideRecord
  <2>. QED  BY <2>1, <2>2, <2>3, <2>4, GoalCallsBegin
<1>3. ASSUME NEW g \in Existing, NEW n \in Amounts \cup {Unsaid}, AddProgress(x, g, n)
      PROVE  GoalTypeInv'
  <2> DEFINE l == [NoWork EXCEPT !.pc = "entry_make", !.goal = g, !.value = n,
                                 !.target = goals[g].target]
  <2>1. goals[g].target \in Amounts
    BY GoalShape DEF Goal
  <2>2. l \in Work /\ WorkFits(l)
    BY <2>1, GoalShape DEF NoWork, Work, WorkFits, AtGoal
  <2>3. work' = [work EXCEPT ![x] = l] /\ UNCHANGED <<goals, entries, goalNotes>>
    BY <1>3 DEF AddProgress
  <2>. HIDE DEF l
  <2>4. \/ beside' = [met |-> beside.met \ {g}, behind |-> beside.behind \ {g}]
        \/ beside' = [met |-> Meets(g), behind |-> beside.behind]
    BY <1>3, BesideRecord DEF AddProgress
  <2>5. /\ beside'.met \subseteq GoalIds \cup {NoGoal} /\ beside'.behind \subseteq GoalIds
        /\ beside' = [met |-> beside'.met, behind |-> beside'.behind]
    <3>0. beside.met \subseteq GoalIds \cup {NoGoal} /\ beside.behind \subseteq GoalIds
          /\ Meets(g) \subseteq GoalIds \cup {NoGoal}
      BY <1>0, GoalShape
    <3>1. CASE beside' = [met |-> beside.met \ {g}, behind |-> beside.behind \ {g}]
      BY <3>0, <3>1
    <3>2. CASE beside' = [met |-> Meets(g), behind |-> beside.behind]
      BY <3>0, <3>2
    <3>. QED  BY <2>4, <3>1, <3>2
  <2>. QED  BY <2>2, <2>3, <2>5, GoalCallsBegin
<1>4. ASSUME NEW g \in Existing, NEW m \in Mentors, AddCoachNote(x, g, m) PROVE GoalTypeInv'
  <2> DEFINE l == [NoWork EXCEPT !.pc = "note_make", !.goal = g, !.mentor = m]
  <2>1. l \in Work /\ WorkFits(l)
    BY GoalShape DEF NoWork, Work, WorkFits, AtGoal
  <2>2. /\ work' = [work EXCEPT ![x] = l] /\ beside' = [met |-> Meets(g), behind |-> beside.behind]
        /\ UNCHANGED <<goals, entries, goalNotes>>
    BY <1>4, BesideRecord DEF AddCoachNote
  <2>. HIDE DEF l
  <2>. QED  BY <1>0, <2>1, <2>2, GoalShape, GoalCallsBegin
<1>. QED  BY <1>1, <1>2, <1>3, <1>4

\* Who has nothing left to do fits, and the others with him.
LEMMA GoalEnds ==
  ASSUME GoalTypeInv, NEW x \in GoalCalls, WorkEnds(x), goals' \in [Existing -> Goal],
         goalNotes' \subseteq [goal : GoalIds, mentor : Mentors], entries' = entries,
         beside' \in [met : SUBSET (GoalIds \cup {NoGoal}), behind : SUBSET GoalIds]
  PROVE  GoalTypeInv'
<1>1. work' = [work EXCEPT ![x] = NoWork]
  BY DEF WorkEnds
<1>2. work'[x] = NoWork
  BY <1>1, GoalShape
<1>3. WorkFits(work[x])'
  BY <1>2, NoWorkFits DEF WorkFits, NoWork, AtGoal
<1>. QED  BY <1>1, <1>3, NoWorkFits, GoalShape, WorkStep

\* createGoal's write keeps the types of the goals.
LEMMA GoalMakeTypes == ASSUME GoalTypeInv, NEW x \in GoalCalls, GoalMake(x) PROVE GoalTypeInv'
<1>1. PICK g \in GoalIds \ Existing :
         goals' = [h \in Existing \cup {g} |->
                       IF h = g THEN [title |-> work[x].title, target |-> work[x].target,
                                      percent |-> 0, mentor |-> NoGoal]
                       ELSE goals[h]]
  BY DEF GoalMake
<1>2. work[x] \in Work /\ work[x].title \in Titles /\ work[x].target \in Amounts
  <2>1. work[x] \in Work /\ WorkFits(work[x]) /\ work[x].pc = "goal_make"
    BY GoalShape DEF GoalMake, WorkAt
  <2>. QED  BY <2>1 DEF WorkFits, Work
<1>3. [title |-> work[x].title, target |-> work[x].target, percent |-> 0, mentor |-> NoGoal] \in Goal
  BY <1>2 DEF Goal
<1>4. Existing' = Existing \cup {g} /\ goals' \in [Existing' -> Goal]
  BY <1>1, <1>3, GoalShape DEF Existing
<1>5. IsFiniteSet(Existing')
  BY <1>4, GoalShape, FS_AddElement
<1>6. work' = [work EXCEPT ![x] = NoWork] /\ UNCHANGED <<entries, goalNotes, beside>>
  BY DEF GoalMake, WorkEnds
<1>7. work' \in [GoalCalls -> Work] /\ work'[x] = NoWork
      /\ \A y \in GoalCalls : y # x => work'[y] = work[y]
  BY <1>6, NoWorkFits, GoalShape
<1>8. ASSUME NEW y \in GoalCalls PROVE WorkFits(work[y])'
  <2>1. CASE y = x
    BY <2>1, <1>7, NoWorkFits DEF WorkFits, NoWork, AtGoal
  <2>2. CASE y # x
    <3>1. WorkFits(work[y]) /\ work'[y] = work[y]
      BY <2>2, <1>7, GoalShape
    <3>. QED  BY <3>1, <1>4, <1>6 DEF WorkFits
  <2>. QED  BY <2>1, <2>2
<1>9. GoalTypeOK'
  BY <1>4, <1>6, <1>7, GoalShape DEF GoalTypeOK
<1>. QED  BY <1>5, <1>8, <1>9 DEF GoalTypeInv

\* updateGoal's write does.
LEMMA GoalUpdateTypes == ASSUME GoalTypeInv, NEW x \in GoalCalls, GoalUpdate(x) PROVE GoalTypeInv'
<1> DEFINE g == work[x].goal
           target == IF work[x].value = Unsaid THEN goals[g].target ELSE work[x].value
           row == [goals[g] EXCEPT !.title = work[x].title, !.target = target]
<1>1. work[x] \in Work /\ work[x].title \in Titles /\ g \in Existing /\ goals[g] \in Goal
      /\ g \in GoalIds
  <2>1. work[x] \in Work /\ WorkFits(work[x]) /\ work[x].pc = "goal_update"
    BY GoalShape DEF GoalUpdate, WorkAt
  <2>. QED  BY <2>1, GoalShape DEF WorkFits, Work, AtGoal
<1>2. target \in Amounts
  BY <1>1 DEF Work, Goal
<1>3. row \in Goal
  <2>. HIDE DEF target
  <2>. QED  BY <1>1, <1>2 DEF Goal
<1>4. goals' = [goals EXCEPT ![g] = row]
  BY DEF GoalUpdate
<1>5. goals' \in [Existing -> Goal]
  <2>. HIDE DEF row, g
  <2>. QED  BY <1>1, <1>3, <1>4, GoalShape
<1>6. beside' = [beside EXCEPT !.behind = beside.behind \cup {g}] \/ beside' = beside
  BY DEF GoalUpdate
<1>7. beside' \in [met : SUBSET (GoalIds \cup {NoGoal}), behind : SUBSET GoalIds]
  <2>. HIDE DEF g
  <2>. QED  BY <1>1, <1>6, GoalShape
<1>8. WorkEnds(x) /\ UNCHANGED <<entries, goalNotes>>
  BY DEF GoalUpdate
<1>. QED  BY <1>5, <1>7, <1>8, GoalShape, GoalEnds

\* addProgress, when it stores an entry, does.
LEMMA EntryMakeTypes == ASSUME GoalTypeInv, NEW x \in GoalCalls, EntryMake(x) PROVE GoalTypeInv'
<1> DEFINE g == work[x].goal
           l == [work[x] EXCEPT !.pc = "entry_latest"]
<1>1. work[x] \in Work /\ WorkFits(work[x]) /\ work[x].pc = "entry_make" /\ g \in Existing
      /\ g \in GoalIds /\ work[x].value \in Amounts \cup {Unsaid} /\ work[x].title = NoGoal
  <2>1. work[x] \in Work /\ WorkFits(work[x]) /\ work[x].pc = "entry_make"
    BY GoalShape DEF EntryMake, WorkAt
  <2>. QED  BY <2>1, GoalShape DEF WorkFits, Work, AtGoal
<1>2. l \in Work /\ l.pc = "entry_latest" /\ l.goal = g /\ l.title = NoGoal
  BY <1>1 DEF Work
<1>3. work' = [work EXCEPT ![x] = l] /\ entries' = [entries EXCEPT ![g] = Append(entries[g], work[x].value)]
      /\ UNCHANGED <<goals, goalNotes, beside>>
  BY DEF EntryMake
<1>. HIDE DEF g, l
<1>4. entries[g] \in Seq(Amounts \cup {Unsaid})
  BY <1>1, GoalShape
<1>5. Append(entries[g], work[x].value) \in Seq(Amounts \cup {Unsaid})
      /\ Append(entries[g], work[x].value) # << >>
  BY <1>1, <1>4
<1>6. entries' \in [GoalIds -> Seq(Amounts \cup {Unsaid})] /\ entries'[g] # << >>
      /\ \A h \in GoalIds : entries[h] # << >> => entries'[h] # << >>
  BY <1>1, <1>3, <1>5, GoalShape
<1>7. work'[x] = l
  BY <1>3, GoalShape
<1>8. WorkFits(work[x])'
  BY <1>1, <1>2, <1>3, <1>6, <1>7 DEF WorkFits, AtGoal, Existing
<1>. QED  BY <1>2, <1>3, <1>6, <1>8, GoalShape, WorkStep

\* addProgress, when it looks for the latest entry, does.
LEMMA EntryLatestTypes == ASSUME GoalTypeInv, NEW x \in GoalCalls, EntryLatest(x) PROVE GoalTypeInv'
<1> DEFINE g == work[x].goal
           last == entries[g][Len(entries[g])]
           l == [work[x] EXCEPT !.pc = "entry_percent", !.value = last]
<1>1. work[x] \in Work /\ WorkFits(work[x]) /\ work[x].pc = "entry_latest" /\ g \in Existing
      /\ g \in GoalIds /\ entries[g] # << >> /\ work[x].title = NoGoal
  <2>1. work[x] \in Work /\ WorkFits(work[x]) /\ work[x].pc = "entry_latest"
    BY GoalShape DEF EntryLatest, WorkAt
  <2>. QED  BY <2>1, GoalShape DEF WorkFits, Work, AtGoal
<1>2. entries[g] \in Seq(Amounts \cup {Unsaid}) /\ last \in Amounts \cup {Unsaid}
  <2>1. entries[g] \in Seq(Amounts \cup {Unsaid})
    BY <1>1, GoalShape
  <2>. HIDE DEF g
  <2>2. Len(entries[g]) \in 1..Len(entries[g])
    BY <2>1, <1>1
  <2>. QED  BY <2>1, <2>2
<1>3. UNCHANGED <<goals, entries, goalNotes, beside>>
  BY DEF EntryLatest
<1>4. CASE last # Unsaid /\ work[x].target > 0
  <2>1. work' = [work EXCEPT ![x] = l]
    BY <1>4 DEF EntryLatest
  <2>. HIDE DEF last, g
  <2>2. l \in Work /\ l.pc = "entry_percent" /\ l.goal = g /\ l.value = last /\ l.target > 0
        /\ l.title = NoGoal
    BY <1>1, <1>2, <1>4 DEF Work, g
  <2>. HIDE DEF l
  <2>3. WorkFits(l)
    BY <2>2, <1>1, <1>2, <1>4 DEF WorkFits, AtGoal
  <2>4. work'[x] = l
    BY <2>1, GoalShape
  <2>5. WorkFits(work[x])'
    BY <2>3, <2>4, <1>3 DEF WorkFits, Existing
  <2>. QED  BY <2>1, <2>2, <2>5, <1>3, GoalShape, WorkStep
<1>5. CASE ~(last # Unsaid /\ work[x].target > 0)
  <2>1. WorkEnds(x)
    BY <1>5 DEF EntryLatest, WorkEnds
  <2>. QED  BY <2>1, <1>3, GoalShape, GoalEnds
<1>. QED  BY <1>4, <1>5

\* addProgress, when it writes the percentage, does.
LEMMA EntryPercentTypes == ASSUME GoalTypeInv, NEW x \in GoalCalls, EntryPercent(x) PROVE GoalTypeInv'
<1> DEFINE g == work[x].goal
           row == [goals[g] EXCEPT !.percent = PercentOf(work[x].value, work[x].target)]
<1>1. work[x] \in Work /\ g \in Existing /\ goals[g] \in Goal
      /\ work[x].value \in Nat /\ work[x].target \in Nat /\ work[x].target > 0
  <2>1. work[x] \in Work /\ WorkFits(work[x]) /\ work[x].pc = "entry_percent"
    BY GoalShape DEF EntryPercent, WorkAt
  <2>. QED  BY <2>1, GoalShape DEF WorkFits, Work, AtGoal
<1>2. PercentOf(work[x].value, work[x].target) \in 0..100
  BY <1>1, PercentIsPercent
<1>3. row \in Goal
  BY <1>1, <1>2 DEF Goal
<1>4. goals' = [goals EXCEPT ![g] = row] /\ WorkEnds(x) /\ UNCHANGED <<entries, goalNotes, beside>>
  BY DEF EntryPercent
<1>. HIDE DEF row, g
<1>5. goals' \in [Existing -> Goal]
  BY <1>1, <1>3, <1>4, GoalShape
<1>. QED  BY <1>4, <1>5, GoalShape, GoalEnds

\* So do a mentor's note and his assignment.
LEMMA GoalOthersTypes ==
  ASSUME GoalTypeInv,
         \/ \E x \in GoalCalls : NoteRow(x)
         \/ \E g \in Existing, m \in Mentors \cup {NoGoal} : AssignCoach(g, m)
  PROVE  GoalTypeInv'
<1>1. ASSUME NEW x \in GoalCalls, NoteRow(x) PROVE GoalTypeInv'
  <2>1. work[x] \in Work /\ WorkFits(work[x]) /\ work[x].pc = "note_make"
    BY <1>1, GoalShape DEF NoteRow, WorkAt
  <2>2. work[x].goal \in GoalIds /\ work[x].mentor \in Mentors
    BY <2>1, GoalShape DEF WorkFits, Work, AtGoal
  <2>3. [goal |-> work[x].goal, mentor |-> work[x].mentor] \in [goal : GoalIds, mentor : Mentors]
    BY <2>2
  <2>4. goalNotes' \subseteq [goal : GoalIds, mentor : Mentors]
    BY <1>1, <2>3, GoalShape DEF NoteRow
  <2>. QED  BY <1>1, <2>4, GoalShape, GoalEnds DEF NoteRow
<1>2. ASSUME NEW g \in Existing, NEW m \in Mentors \cup {NoGoal}, AssignCoach(g, m) PROVE GoalTypeInv'
  <2> DEFINE row == [goals[g] EXCEPT !.mentor = m]
  <2>1. row \in Goal
    <3>1. goals[g] \in Goal
      BY GoalShape
    <3>. QED  BY <3>1 DEF Goal
  <2>2. goals' = [goals EXCEPT ![g] = row] /\ UNCHANGED <<entries, goalNotes, work, beside>>
    BY <1>2 DEF AssignCoach
  <2>. HIDE DEF row
  <2>3. goals' \in [Existing -> Goal]
    BY <2>1, <2>2, GoalShape
  <2>4. Existing' = Existing
    BY <2>3 DEF Existing
  <2>5. \A x \in GoalCalls : WorkFits(work[x])'
    BY <2>2, <2>4, GoalShape DEF WorkFits
  <2>. QED  BY <2>2, <2>3, <2>4, <2>5, GoalShape DEF GoalTypeInv, GoalTypeOK
<1>. QED  BY <1>1, <1>2

\* A call that fails leaves the rows as they are.
LEMMA GoalFailsTypes == ASSUME GoalTypeInv, NEW x \in GoalCalls, GoalCallFails(x) PROVE GoalTypeInv'
<1>. PICK g : g = work[x].goal
  OBVIOUS
<1>1. WorkFits(work[x])
  BY GoalShape
<1>2. CASE work[x].pc \in {"entry_make", "entry_latest", "entry_percent"}
  <2>1. g \in GoalIds
    BY <1>1, <1>2, GoalShape DEF WorkFits, AtGoal
  <2>2. beside' = [met |-> beside.met, behind |-> beside.behind \cup {g}]
    BY <1>2, BesideRecord DEF GoalCallFails
  <2>3. beside' \in [met : SUBSET (GoalIds \cup {NoGoal}), behind : SUBSET GoalIds]
    BY <2>1, <2>2, GoalShape
  <2>. QED  BY <2>3, GoalShape, GoalEnds DEF GoalCallFails
<1>3. CASE work[x].pc \notin {"entry_make", "entry_latest", "entry_percent"}
  <2>1. beside' \in [met : SUBSET (GoalIds \cup {NoGoal}), behind : SUBSET GoalIds]
    BY <1>3, GoalShape DEF GoalCallFails
  <2>. QED  BY <2>1, GoalShape, GoalEnds DEF GoalCallFails
<1>. QED  BY <1>2, <1>3

\* Every step keeps the types of the goals.
LEMMA GoalNextTypes == GoalTypeInv /\ [GoalNext]_goalVars => GoalTypeInv'
<1>. SUFFICES ASSUME GoalTypeInv, [GoalNext]_goalVars PROVE GoalTypeInv'
  OBVIOUS
<1>1. CASE UNCHANGED goalVars
  BY <1>1 DEF goalVars, GoalTypeInv, GoalTypeOK, Existing, WorkFits
<1>2. CASE GoalNext
  BY <1>2, GoalBegins, GoalMakeTypes, GoalUpdateTypes, EntryMakeTypes, EntryLatestTypes,
     EntryPercentTypes, GoalOthersTypes, GoalFailsTypes DEF GoalNext
<1>. QED  BY <1>1, <1>2

\* The table of goals, their progress and the calls in flight keep their types:
\* a percentage is one, and a call is at work on a goal that exists.
THEOREM GoalTypesKept == GoalSpec => []GoalTypeOK
<1>1. GoalTypeInv => GoalTypeOK
  BY DEF GoalTypeInv
<1>. QED  BY <1>1, GoalInitTypes, GoalNextTypes, PTL DEF GoalSpec

\* At most one call makes or renames a goal, and its title is free.
LimitInv ==
    NoGoal \notin beside.met =>
        /\ Cardinality(Existing) <= MaxGoals
        /\ \A g, h \in Existing : goals[g].title = goals[h].title => g = h
        /\ \A x, y \in GoalCalls : work[x].title # NoGoal /\ work[y].title # NoGoal => x = y
        /\ \A x \in GoalCalls : work[x].title # NoGoal =>
              /\ TitleFree(work[x].title, work[x].goal)
              /\ work[x].pc = "goal_make" => Cardinality(Existing) < MaxGoals

-----------------------------------------------------------------------------
(* Goals: the limit and the titles.                                        *)

\* A step that makes no goal, keeps the titles and begins no call with one.
LEMMA LimitsRest ==
  ASSUME LimitInv, Existing' = Existing,
         \A g \in Existing : goals'[g].title = goals[g].title,
         NoGoal \in beside.met => NoGoal \in beside'.met,
         \A x \in GoalCalls : work'[x].title # NoGoal => work'[x] = work[x]
  PROVE  LimitInv'
<1>. SUFFICES ASSUME NoGoal \notin beside'.met
              PROVE  /\ Cardinality(Existing') <= MaxGoals
                     /\ \A g, h \in Existing' : goals'[g].title = goals'[h].title => g = h
                     /\ \A x, y \in GoalCalls :
                           work'[x].title # NoGoal /\ work'[y].title # NoGoal => x = y
                     /\ \A x \in GoalCalls : work'[x].title # NoGoal =>
                           /\ TitleFree(work[x].title, work[x].goal)'
                           /\ work'[x].pc = "goal_make" => Cardinality(Existing') < MaxGoals
  BY DEF LimitInv, TitleFree
<1>1. /\ Cardinality(Existing) <= MaxGoals
      /\ \A g, h \in Existing : goals[g].title = goals[h].title => g = h
      /\ \A x, y \in GoalCalls : work[x].title # NoGoal /\ work[y].title # NoGoal => x = y
      /\ \A x \in GoalCalls : work[x].title # NoGoal =>
            /\ TitleFree(work[x].title, work[x].goal)
            /\ work[x].pc = "goal_make" => Cardinality(Existing) < MaxGoals
  BY DEF LimitInv
<1>. QED  BY <1>1 DEF TitleFree

\* The call that begins is the only one with a title, and its title is free.
LEMMA LimitsBegin ==
  ASSUME GoalTypeInv, LimitInv, NEW x \in GoalCalls, NEW l \in Work,
         work' = [work EXCEPT ![x] = l], goals' = goals,
         NoGoal \in beside.met \/ (\E y \in GoalCalls : work[y].title # NoGoal)
            => NoGoal \in beside'.met,
         TitleFree(l.title, l.goal), l.pc = "goal_make" => Cardinality(Existing) < MaxGoals
  PROVE  LimitInv'
<1>. SUFFICES ASSUME NoGoal \notin beside'.met PROVE LimitInv'
  BY DEF LimitInv
<1>1. work'[x] = l /\ \A y \in GoalCalls : y # x => work'[y] = work[y]
  BY GoalShape
<1>2. \A y \in GoalCalls : y # x => work'[y].title = NoGoal
  BY <1>1
<1>3. Existing' = Existing /\ goals' = goals
  BY DEF Existing
<1>4. Cardinality(Existing) <= MaxGoals
      /\ \A g, h \in Existing : goals[g].title = goals[h].title => g = h
  BY DEF LimitInv
<1>5. ASSUME NEW y \in GoalCalls, work'[y].title # NoGoal
      PROVE  TitleFree(work[y].title, work[y].goal)'
             /\ (work'[y].pc = "goal_make" => Cardinality(Existing') < MaxGoals)
  <2>1. y = x
    BY <1>2, <1>5
  <2>. QED  BY <2>1, <1>1, <1>3 DEF TitleFree
<1>. QED  BY <1>2, <1>3, <1>4, <1>5 DEF LimitInv

\* The goal is made with a free title while there is room for it.
LEMMA LimitsMake ==
  ASSUME GoalTypeInv, LimitInv, NEW x \in GoalCalls, GoalMake(x) PROVE LimitInv'
<1>. SUFFICES ASSUME NoGoal \notin beside'.met PROVE LimitInv'
  BY DEF LimitInv
<1>1. PICK g \in GoalIds \ Existing :
         goals' = [h \in Existing \cup {g} |->
                       IF h = g THEN [title |-> work[x].title, target |-> work[x].target,
                                      percent |-> 0, mentor |-> NoGoal]
                       ELSE goals[h]]
  BY DEF GoalMake
<1>2. Existing' = Existing \cup {g} /\ goals'[g].title = work[x].title
      /\ \A h \in Existing : goals'[h] = goals[h]
  BY <1>1 DEF Existing
<1>3. WorkFits(work[x]) /\ work[x].pc = "goal_make"
  BY GoalShape DEF GoalMake, WorkAt
<1>4. work[x].title # NoGoal /\ work[x].goal = NoGoal
  BY <1>3 DEF WorkFits, AtGoal
<1>5. NoGoal \notin beside.met
  BY DEF GoalMake
<1>6. TitleFree(work[x].title, NoGoal) /\ Cardinality(Existing) < MaxGoals
      /\ \A h, k \in Existing : goals[h].title = goals[k].title => h = k
  BY <1>3, <1>4, <1>5 DEF LimitInv
<1>7. \A h \in Existing : goals[h].title # work[x].title
  BY <1>6, GoalShape DEF TitleFree
<1>8. \A h, k \in Existing' : goals'[h].title = goals'[k].title => h = k
  BY <1>2, <1>6, <1>7
<1>9. Cardinality(Existing') <= MaxGoals
  <2>1. Cardinality(Existing') = Cardinality(Existing) + 1 /\ Cardinality(Existing) \in Nat
    BY <1>2, GoalShape, FS_AddElement, FS_CardinalityType
  <2>. QED  BY <2>1, <1>6, LimitsAreNat
<1>10. \A y \in GoalCalls : work'[y].title = NoGoal
  <2>1. work' = [work EXCEPT ![x] = NoWork]
    BY DEF GoalMake, WorkEnds
  <2>2. \A y \in GoalCalls : y # x => work[y].title = NoGoal
    BY <1>4, <1>5 DEF LimitInv
  <2>. QED  BY <2>1, <2>2, GoalShape, NoWorkFits
<1>. QED  BY <1>8, <1>9, <1>10 DEF LimitInv

\* The goal gets a title no other goal has.
LEMMA LimitsUpdate ==
  ASSUME GoalTypeInv, LimitInv, NEW x \in GoalCalls, GoalUpdate(x) PROVE LimitInv'
<1>. SUFFICES ASSUME NoGoal \notin beside'.met PROVE LimitInv'
  BY DEF LimitInv
<1> DEFINE g == work[x].goal
           target == IF work[x].value = Unsaid THEN goals[g].target ELSE work[x].value
<1>1. WorkFits(work[x]) /\ work[x].pc = "goal_update"
  BY GoalShape DEF GoalUpdate, WorkAt
<1>2. work[x].title # NoGoal /\ g \in Existing
  BY <1>1 DEF WorkFits, AtGoal
<1>3. goals' = [goals EXCEPT ![g].title = work[x].title, ![g].target = target]
      /\ (beside' = beside \/ beside' = [beside EXCEPT !.behind = beside.behind \cup {g}])
  BY DEF GoalUpdate
<1>4. NoGoal \notin beside.met
  BY <1>3, GoalShape
<1>5. TitleFree(work[x].title, g) /\ Cardinality(Existing) <= MaxGoals
      /\ \A h, k \in Existing : goals[h].title = goals[k].title => h = k
  BY <1>2, <1>4 DEF LimitInv
<1>6. Existing' = Existing /\ goals'[g].title = work[x].title
      /\ \A h \in Existing : h # g => goals'[h] = goals[h]
  <2>1. goals[g] \in Goal
    BY <1>2, GoalShape
  <2>. HIDE DEF g, target
  <2>. QED  BY <1>2, <1>3, <2>1, GoalShape DEF Existing, Goal
<1>7. \A h, k \in Existing' : goals'[h].title = goals'[k].title => h = k
  <2>. HIDE DEF g
  <2>. QED  BY <1>5, <1>6 DEF TitleFree
<1>8. \A y \in GoalCalls : work'[y].title = NoGoal
  <2>1. work' = [work EXCEPT ![x] = NoWork]
    BY DEF GoalUpdate, WorkEnds
  <2>2. \A y \in GoalCalls : y # x => work[y].title = NoGoal
    BY <1>2, <1>4 DEF LimitInv
  <2>. QED  BY <2>1, <2>2, GoalShape, NoWorkFits
<1>. QED  BY <1>5, <1>6, <1>7, <1>8 DEF LimitInv

\* A call that goes on without a title, or that ends.
LEMMA LimitsGoOn ==
  ASSUME GoalTypeInv, LimitInv, NEW x \in GoalCalls, NEW l, l.title = NoGoal,
         work' = [work EXCEPT ![x] = l], Existing' = Existing,
         \A g \in Existing : goals'[g].title = goals[g].title,
         NoGoal \in beside.met => NoGoal \in beside'.met
  PROVE  LimitInv'
<1>1. \A y \in GoalCalls : work'[y].title # NoGoal => work'[y] = work[y]
  BY GoalShape
<1>. QED  BY <1>1, LimitsRest

\* Every step keeps the number of goals and entries under their limits.
LEMMA LimitNext == GoalTypeInv /\ LimitInv /\ [GoalNext]_goalVars => LimitInv'
<1>. SUFFICES ASSUME GoalTypeInv, LimitInv, [GoalNext]_goalVars PROVE LimitInv'
  OBVIOUS
<1>1. CASE UNCHANGED goalVars
  BY <1>1, LimitsRest DEF goalVars, Existing
<1>2. ASSUME NEW x \in GoalCalls, NEW t \in Titles, NEW n \in Amounts, CreateGoal(x, t, n) PROVE LimitInv'
  <2> DEFINE l == [NoWork EXCEPT !.pc = "goal_make", !.title = t, !.target = n]
             m == IF \E y \in GoalCalls : work[y].title # NoGoal THEN beside.met \cup {NoGoal}
                  ELSE beside.met
  <2>1. l \in Work /\ l.title = t /\ l.goal = NoGoal
    BY GoalShape DEF NoWork, Work
  <2>2. /\ work' = [work EXCEPT ![x] = l] /\ beside' = [beside EXCEPT !.met = m] /\ goals' = goals
        /\ TitleFree(t, NoGoal) /\ Cardinality(Existing) < MaxGoals
    BY <1>2 DEF CreateGoal
  <2>3. NoGoal \in beside.met \/ (\E y \in GoalCalls : work[y].title # NoGoal) => NoGoal \in m
    OBVIOUS
  <2>. HIDE DEF l, m
  <2>4. beside'.met = m
    BY <2>2, BesideRecord
  <2>. QED  BY <2>1, <2>2, <2>3, <2>4, LimitsBegin
<1>3. ASSUME NEW x \in GoalCalls, NEW g \in Existing, NEW t \in Titles, NEW n \in Amounts \cup {Unsaid},
             UpdateGoal(x, g, t, n)
      PROVE  LimitInv'
  <2> DEFINE l == [NoWork EXCEPT !.pc = "goal_update", !.goal = g, !.title = t, !.value = n]
             m == IF \E y \in GoalCalls : work[y].title # NoGoal THEN Meets(g) \cup {NoGoal}
                  ELSE Meets(g)
  <2>1. l \in Work /\ l.title = t /\ l.goal = g /\ l.pc = "goal_update"
    BY GoalShape DEF NoWork, Work
  <2>2. /\ work' = [work EXCEPT ![x] = l] /\ beside' = [beside EXCEPT !.met = m] /\ goals' = goals
        /\ TitleFree(t, g)
    BY <1>3 DEF UpdateGoal
  <2>3. NoGoal \in beside.met \/ (\E y \in GoalCalls : work[y].title # NoGoal) => NoGoal \in m
    BY DEF Meets
  <2>. HIDE DEF l, m
  <2>4. beside'.met = m
    BY <2>2, BesideRecord
  <2>. QED  BY <2>1, <2>2, <2>3, <2>4, LimitsBegin
<1>4. ASSUME NEW x \in GoalCalls, NEW g \in Existing, NEW n \in Amounts \cup {Unsaid}, AddProgress(x, g, n)
      PROVE  LimitInv'
  <2> DEFINE l == [NoWork EXCEPT !.pc = "entry_make", !.goal = g, !.value = n,
                                 !.target = goals[g].target]
  <2>1. l.title = NoGoal
    BY DEF NoWork
  <2>2. work' = [work EXCEPT ![x] = l] /\ goals' = goals /\ Existing' = Existing
    BY <1>4 DEF AddProgress, Existing
  <2>3. g # NoGoal
    BY GoalShape
  <2>4. \/ beside' = [met |-> beside.met \ {g}, behind |-> beside.behind \ {g}]
        \/ beside' = [met |-> Meets(g), behind |-> beside.behind]
    BY <1>4, BesideRecord DEF AddProgress
  <2>5. NoGoal \in beside.met => NoGoal \in beside'.met
    <3>1. CASE beside' = [met |-> beside.met \ {g}, behind |-> beside.behind \ {g}]
      BY <2>3, <3>1
    <3>2. CASE beside' = [met |-> Meets(g), behind |-> beside.behind]
      BY <3>2 DEF Meets
    <3>. QED  BY <2>4, <3>1, <3>2
  <2>. HIDE DEF l
  <2>. QED  BY <2>1, <2>2, <2>5, LimitsGoOn
<1>5. ASSUME NEW x \in GoalCalls, NEW g \in Existing, NEW m \in Mentors, AddCoachNote(x, g, m) PROVE LimitInv'
  <2> DEFINE l == [NoWork EXCEPT !.pc = "note_make", !.goal = g, !.mentor = m]
  <2>1. l.title = NoGoal
    BY DEF NoWork
  <2>2. work' = [work EXCEPT ![x] = l] /\ goals' = goals /\ Existing' = Existing
        /\ beside' = [met |-> Meets(g), behind |-> beside.behind]
    BY <1>5, BesideRecord DEF AddCoachNote, Existing
  <2>3. NoGoal \in beside.met => NoGoal \in beside'.met
    BY <2>2 DEF Meets
  <2>. HIDE DEF l
  <2>. QED  BY <2>1, <2>2, <2>3, LimitsGoOn
<1>6. ASSUME NEW x \in GoalCalls, EntryMake(x) \/ EntryLatest(x) PROVE LimitInv'
  <2>1. WorkFits(work[x]) /\ work[x].pc \in {"entry_make", "entry_latest"} /\ work[x] \in Work
    BY <1>6, GoalShape DEF EntryMake, EntryLatest, WorkAt
  <2>2. work[x].title = NoGoal
    BY <2>1 DEF WorkFits
  <2>3. goals' = goals /\ Existing' = Existing /\ beside' = beside
    BY <1>6 DEF EntryMake, EntryLatest, Existing
  <2>4. \E l : l.title = NoGoal /\ work' = [work EXCEPT ![x] = l]
    <3>1. CASE EntryMake(x)
      <4> DEFINE l == [work[x] EXCEPT !.pc = "entry_latest"]
      <4>1. l.title = NoGoal
        BY <2>1, <2>2 DEF Work
      <4>2. work' = [work EXCEPT ![x] = l]
        BY <3>1 DEF EntryMake
      <4>. HIDE DEF l
      <4>. QED  BY <4>1, <4>2
    <3>2. CASE EntryLatest(x)
      <4> DEFINE last == entries[work[x].goal][Len(entries[work[x].goal])]
                 l == [work[x] EXCEPT !.pc = "entry_percent", !.value = last]
      <4>1. work' = [work EXCEPT ![x] = l] \/ work' = [work EXCEPT ![x] = NoWork]
        BY <3>2 DEF EntryLatest
      <4>. HIDE DEF last
      <4>2. l.title = NoGoal
        BY <2>1, <2>2 DEF Work
      <4>. HIDE DEF l
      <4>. QED  BY <4>1, <4>2, NoWorkFits
    <3>. QED  BY <1>6, <3>1, <3>2
  <2>. QED  BY <2>3, <2>4, LimitsGoOn
<1>7. ASSUME NEW x \in GoalCalls, EntryPercent(x) \/ NoteRow(x) PROVE LimitInv'
  <2>1. work' = [work EXCEPT ![x] = NoWork] /\ beside' = beside
    BY <1>7 DEF EntryPercent, NoteRow, WorkEnds
  <2>2. Existing' = Existing /\ \A g \in Existing : goals'[g].title = goals[g].title
    <3>1. CASE EntryPercent(x)
      <4> DEFINE n == PercentOf(work[x].value, work[x].target)
                 k == work[x].goal
      <4>1. goals' = [goals EXCEPT ![k].percent = n]
        BY <3>1 DEF EntryPercent
      <4>. HIDE DEF n, k
      <4>. QED  BY <4>1, GoalShape DEF Existing, Goal
    <3>2. CASE NoteRow(x)
      BY <3>2 DEF NoteRow, Existing
    <3>. QED  BY <1>7, <3>1, <3>2
  <2>. QED  BY <2>1, <2>2, NoWorkFits, LimitsGoOn
<1>8. ASSUME NEW g \in Existing, NEW m \in Mentors \cup {NoGoal}, AssignCoach(g, m) PROVE LimitInv'
  <2>1. Existing' = Existing /\ \A h \in Existing : goals'[h].title = goals[h].title
    BY <1>8, GoalShape DEF AssignCoach, Existing, Goal
  <2>. QED  BY <1>8, <2>1, LimitsRest DEF AssignCoach
<1>9. ASSUME NEW x \in GoalCalls, GoalCallFails(x) PROVE LimitInv'
  <2>1. work' = [work EXCEPT ![x] = NoWork] /\ goals' = goals /\ Existing' = Existing
    BY <1>9 DEF GoalCallFails, WorkEnds, Existing
  <2>2. beside' = beside \/ beside' = [beside EXCEPT !.behind = beside.behind \cup {work[x].goal}]
    BY <1>9 DEF GoalCallFails
  <2>3. beside'.met = beside.met
    BY <2>2, BesideRecord
  <2>. QED  BY <2>1, <2>3, NoWorkFits, LimitsGoOn
<1>. QED
  BY <1>1, <1>2, <1>3, <1>4, <1>5, <1>6, <1>7, <1>8, <1>9, LimitsMake, LimitsUpdate DEF GoalNext

\* Unless two calls that make or rename goals overlap, an athlete never has more
\* goals than the limit, nor two of one title (createGoal, updateGoal).
THEOREM GoalsKeepTheirLimits == GoalSpec => []GoalsWithinLimits
<1>1. GoalInit => LimitInv
  <2>1. GoalInit => Existing = {} /\ \A x \in GoalCalls : work[x].title = NoGoal
    BY NoWorkFits DEF GoalInit, Existing
  <2>2. Existing = {} => Cardinality(Existing) <= MaxGoals
    BY FS_EmptySet, LimitsAreNat
  <2>. QED  BY <2>1, <2>2 DEF LimitInv
<1>2. LimitInv => GoalsWithinLimits
  BY DEF LimitInv, GoalsWithinLimits
<1>. QED  BY <1>1, <1>2, GoalInitTypes, GoalNextTypes, LimitNext, PTL DEF GoalSpec

LastRow(g) == entries[g][Len(entries[g])]

\* What the one call at goal g has still to say of it.
OneTells(l, g) ==
    /\ l.pc \in {"goal_update", "note_make"} => Agrees(g)
    /\ l.pc = "entry_make" => l.target = goals[g].target /\ (l.value = Unsaid => Agrees(g))
    /\ l.pc = "entry_latest" => l.target = goals[g].target /\ (LastRow(g) = Unsaid => Agrees(g))
    /\ l.pc = "entry_percent" => l.target = goals[g].target /\ l.value = LastRow(g) /\ LastRow(g) # Unsaid

PercentInv ==
    /\ \A g \in GoalIds \ Existing : entries[g] = << >>
    /\ \A g \in Existing \ beside.met :
          /\ \A x, y \in Busy(g) : x = y
          /\ g \notin beside.behind => /\ Busy(g) = {} => Agrees(g)
                                      /\ \A x \in Busy(g) : OneTells(work[x], g)

\* What is shown of a goal depends on its progress, its target and its percentage.
LEMMA AgreesStays ==
  ASSUME NEW g, entries'[g] = entries[g], goals'[g].target = goals[g].target,
         goals'[g].percent = goals[g].percent
  PROVE  (Agrees(g)' <=> Agrees(g)) /\ LastRow(g)' = LastRow(g)
<1>1. LatestSaid(g)' = LatestSaid(g)
  BY DEF LatestSaid
<1>2. LastRow(g)' = LastRow(g)
  BY DEF LastRow
<1>. QED  BY <1>1, <1>2 DEF Agrees

\* What the one call has to tell depends on nothing else.
LEMMA TellsStays ==
  ASSUME NEW x, NEW g, entries'[g] = entries[g], goals'[g].target = goals[g].target,
         goals'[g].percent = goals[g].percent, work'[x] = work[x], OneTells(work[x], g)
  PROVE  OneTells(work[x], g)'
  BY AgreesStays DEF OneTells

\* A step that touches neither the calls at goals nor what is shown of goals.
LEMMA PercentRest ==
  ASSUME PercentInv, Existing \subseteq Existing', entries' = entries,
         \A g \in Existing : goals'[g].target = goals[g].target /\ goals'[g].percent = goals[g].percent,
         \A g \in Existing : Busy(g)' = Busy(g) /\ \A x \in Busy(g) : work'[x] = work[x],
         \A g \in Existing' \ Existing : g \in GoalIds /\ Busy(g)' = {},
         \A g \in Existing : (g \in beside.met => g \in beside'.met)
                             /\ (g \in beside.behind => g \in beside'.behind)
  PROVE  PercentInv'
<1>1. \A g \in GoalIds \ Existing' : entries'[g] = << >>
  BY DEF PercentInv
<1>2. ASSUME NEW g \in Existing, g \notin beside'.met
      PROVE  /\ \A x, y \in Busy(g)' : x = y
             /\ g \notin beside'.behind => /\ Busy(g)' = {} => Agrees(g)'
                                          /\ \A x \in Busy(g)' : OneTells(work[x], g)'
  <2>1. /\ \A x, y \in Busy(g) : x = y
        /\ g \notin beside.behind => /\ Busy(g) = {} => Agrees(g)
                                    /\ \A x \in Busy(g) : OneTells(work[x], g)
    BY <1>2 DEF PercentInv
  <2>2. ASSUME g \notin beside'.behind, NEW x \in Busy(g) PROVE OneTells(work[x], g)'
    BY <2>1, <2>2, TellsStays
  <2>3. ASSUME g \notin beside'.behind, Busy(g) = {} PROVE Agrees(g)'
    BY <2>1, <2>3, AgreesStays
  <2>. QED  BY <2>1, <2>2, <2>3
<1>3. ASSUME NEW g \in Existing' \ Existing
      PROVE  Busy(g)' = {} /\ Agrees(g)'
  <2>1. entries'[g] = << >>
    BY DEF PercentInv
  <2>2. LatestSaid(g)' = {}
    BY <2>1 DEF LatestSaid
  <2>. QED  BY <2>2 DEF Agrees
<1>4. ASSUME NEW g \in Existing' \ beside'.met
      PROVE  (/\ \A x, y \in Busy(g) : x = y
              /\ g \notin beside.behind => /\ Busy(g) = {} => Agrees(g)
                                          /\ \A x \in Busy(g) : OneTells(work[x], g))'
  BY <1>2, <1>3
<1>. QED  BY <1>1, <1>4 DEF PercentInv

\* A step of one call at one goal.
LEMMA PercentStep ==
  ASSUME GoalTypeInv, PercentInv, NEW x \in GoalCalls, NEW g \in Existing, NEW l,
         work' = [work EXCEPT ![x] = l],
         work[x].pc = "idle" \/ work[x].goal = g, l.pc = "idle" \/ l.goal = g, Existing' = Existing,
         \A h \in Existing : h # g => goals'[h] = goals[h],
         \A h \in GoalIds : h # g => entries'[h] = entries[h],
         \A h \in Existing : h # g => (h \in beside.met => h \in beside'.met)
                                      /\ (h \in beside.behind => h \in beside'.behind),
         g \notin beside'.met => Busy(g) \subseteq {x},
         g \notin beside'.met /\ g \notin beside'.behind
            => (l.pc = "idle" => Agrees(g)') /\ (l.pc # "idle" => OneTells(work[x], g)')
  PROVE  PercentInv'
<1>1. work'[x] = l /\ \A y \in GoalCalls : y # x => work'[y] = work[y]
  BY GoalShape
<1>2. g \in GoalIds /\ \A h \in GoalIds \ Existing' : entries'[h] = << >>
  BY GoalShape DEF PercentInv
<1>3. ASSUME NEW h \in Existing, h # g, h \notin beside'.met
      PROVE  (/\ \A y, z \in Busy(h) : y = z
              /\ h \notin beside.behind => /\ Busy(h) = {} => Agrees(h)
                                          /\ \A y \in Busy(h) : OneTells(work[y], h))'
  <2>1. Busy(h)' = Busy(h) /\ x \notin Busy(h)
    BY <1>1, <1>3 DEF Busy
  <2>2. \A y \in Busy(h) : work'[y] = work[y]
    BY <2>1, <1>1 DEF Busy
  <2>3. entries'[h] = entries[h] /\ goals'[h] = goals[h]
    BY <1>3, GoalShape
  <2>4. /\ \A y, z \in Busy(h) : y = z
        /\ h \notin beside.behind => /\ Busy(h) = {} => Agrees(h)
                                    /\ \A y \in Busy(h) : OneTells(work[y], h)
    BY <1>3 DEF PercentInv
  <2>5. ASSUME h \notin beside'.behind, NEW y \in Busy(h) PROVE OneTells(work[y], h)'
    BY <1>3, <2>2, <2>3, <2>4, <2>5, TellsStays
  <2>6. ASSUME h \notin beside'.behind, Busy(h) = {} PROVE Agrees(h)'
    BY <1>3, <2>3, <2>4, <2>6, AgreesStays
  <2>. QED  BY <2>1, <2>4, <2>5, <2>6
<1>4. ASSUME g \notin beside'.met
      PROVE  (/\ \A y, z \in Busy(g) : y = z
              /\ g \notin beside.behind => /\ Busy(g) = {} => Agrees(g)
                                          /\ \A y \in Busy(g) : OneTells(work[y], g))'
  <2>1. Busy(g)' \subseteq {x}
    BY <1>1, <1>4 DEF Busy
  <2>2. ASSUME g \notin beside'.behind, NEW y \in Busy(g)' PROVE OneTells(work[y], g)'
    <3>1. y = x /\ l.pc # "idle"
      BY <2>1, <2>2, <1>1 DEF Busy
    <3>. QED  BY <3>1, <1>4, <2>2
  <2>3. ASSUME g \notin beside'.behind, Busy(g)' = {} PROVE Agrees(g)'
    <3>1. l.pc = "idle"
      BY <2>3, <1>1 DEF Busy
    <3>. QED  BY <3>1, <1>4, <2>3
  <2>. QED  BY <2>1, <2>2, <2>3
<1>. QED  BY <1>2, <1>3, <1>4 DEF PercentInv

\* A call that begins at a goal: alone there, it has its part to tell.
LEMMA PercentBegins ==
  ASSUME GoalTypeInv, PercentInv, NEW x \in GoalCalls, WorkAt(x, "idle"), NEW g \in Existing, NEW l \in Work,
         l.pc \in AtGoal, l.goal = g, work' = [work EXCEPT ![x] = l], goals' = goals, entries' = entries,
         Meets(g) \subseteq beside'.met, beside'.behind = beside.behind,
         g \notin beside.met /\ g \notin beside.behind /\ Busy(g) = {} /\ Agrees(g) => OneTells(l, g)
  PROVE  PercentInv'
<1>1. work[x].pc = "idle" /\ Existing' = Existing /\ l.pc # "idle" /\ work'[x] = l
  BY GoalShape DEF WorkAt, Existing, AtGoal
<1>2. \A h \in Existing : h \in beside.met => h \in beside'.met
  BY DEF Meets
<1>3. g \notin beside'.met => Busy(g) = {} /\ g \notin beside.met
  BY DEF Meets
<1>4. ASSUME g \notin beside'.met, g \notin beside'.behind PROVE OneTells(work[x], g)'
  <2>1. Agrees(g)
    BY <1>3, <1>4 DEF PercentInv
  <2>2. OneTells(l, g)
    BY <1>3, <1>4, <2>1
  <2>3. (Agrees(g)' <=> Agrees(g)) /\ LastRow(g)' = LastRow(g)
    BY AgreesStays
  <2>. QED  BY <1>1, <2>2, <2>3 DEF OneTells
<1>. QED  BY <1>1, <1>2, <1>3, <1>4, PercentStep

\* A call that begins leaves every percentage as true as it was.
LEMMA PercentCallsBegin ==
  ASSUME GoalTypeInv, PercentInv, NEW x \in GoalCalls, NEW g \in Existing,
         \/ \E t \in Titles, n \in Amounts \cup {Unsaid} : UpdateGoal(x, g, t, n)
         \/ \E n \in Amounts \cup {Unsaid} : AddProgress(x, g, n)
         \/ \E m \in Mentors : AddCoachNote(x, g, m)
  PROVE  PercentInv'
<1>1. ASSUME NEW t \in Titles, NEW n \in Amounts \cup {Unsaid}, UpdateGoal(x, g, t, n) PROVE PercentInv'
  <2> DEFINE l == [NoWork EXCEPT !.pc = "goal_update", !.goal = g, !.title = t, !.value = n]
             m == IF \E y \in GoalCalls : work[y].title # NoGoal THEN Meets(g) \cup {NoGoal}
                  ELSE Meets(g)
  <2>1. l \in Work /\ l.pc = "goal_update" /\ l.goal = g
    BY GoalShape DEF NoWork, Work
  <2>2. /\ work' = [work EXCEPT ![x] = l] /\ beside' = [beside EXCEPT !.met = m]
        /\ goals' = goals /\ entries' = entries /\ WorkAt(x, "idle")
    BY <1>1 DEF UpdateGoal
  <2>3. Meets(g) \subseteq m
    OBVIOUS
  <2>. HIDE DEF l, m
  <2>4. beside'.met = m /\ beside'.behind = beside.behind
    BY <2>2, BesideRecord
  <2>5. Agrees(g) => OneTells(l, g)
    BY <2>1 DEF OneTells
  <2>. QED  BY <2>1, <2>2, <2>3, <2>4, <2>5, PercentBegins DEF AtGoal
<1>2. ASSUME NEW m \in Mentors, AddCoachNote(x, g, m) PROVE PercentInv'
  <2> DEFINE l == [NoWork EXCEPT !.pc = "note_make", !.goal = g, !.mentor = m]
  <2>1. l \in Work /\ l.pc = "note_make" /\ l.goal = g
    BY GoalShape DEF NoWork, Work
  <2>2. /\ work' = [work EXCEPT ![x] = l] /\ beside' = [met |-> Meets(g), behind |-> beside.behind]
        /\ goals' = goals /\ entries' = entries /\ WorkAt(x, "idle")
    BY <1>2, BesideRecord DEF AddCoachNote
  <2>. HIDE DEF l
  <2>5. Agrees(g) => OneTells(l, g)
    BY <2>1 DEF OneTells
  <2>. QED  BY <2>1, <2>2, <2>5, PercentBegins DEF AtGoal
<1>3. ASSUME NEW n \in Amounts \cup {Unsaid}, AddProgress(x, g, n) PROVE PercentInv'
  <2> DEFINE l == [NoWork EXCEPT !.pc = "entry_make", !.goal = g, !.value = n,
                                 !.target = goals[g].target]
  <2>1. goals[g].target \in Amounts
    BY GoalShape DEF Goal
  <2>2. l \in Work /\ l.pc = "entry_make" /\ l.goal = g /\ l.value = n /\ l.target = goals[g].target
    BY <2>1, GoalShape DEF NoWork, Work
  <2>3. work' = [work EXCEPT ![x] = l] /\ goals' = goals /\ entries' = entries /\ WorkAt(x, "idle")
        /\ Existing' = Existing
    BY <1>3 DEF AddProgress, Existing
  <2>. HIDE DEF l
  <2>4. CASE n # Unsaid /\ Busy(g) = {}
    <3>1. beside' = [met |-> beside.met \ {g}, behind |-> beside.behind \ {g}]
      BY <1>3, <2>4 DEF AddProgress
    <3>2. OneTells(work[x], g)'
      <4>1. work'[x] = l
        BY <2>3, GoalShape
      <4>. QED  BY <4>1, <2>2, <2>3, <2>4 DEF OneTells
    <3>3. work[x].pc = "idle" /\ l.pc # "idle"
      BY <2>2, <2>3 DEF WorkAt
    <3>4. \A h \in Existing : h # g => (h \in beside.met => h \in beside'.met)
                                       /\ (h \in beside.behind => h \in beside'.behind)
      BY <3>1
    <3>. QED  BY <2>2, <2>3, <2>4, <3>2, <3>3, <3>4, PercentStep
  <2>5. CASE ~(n # Unsaid /\ Busy(g) = {})
    <3>1. beside' = [met |-> Meets(g), behind |-> beside.behind]
      BY <1>3, <2>5, BesideRecord DEF AddProgress
    <3>2. Busy(g) = {} /\ Agrees(g) => OneTells(l, g)
      BY <2>2, <2>5 DEF OneTells
    <3>. QED  BY <2>2, <2>3, <3>1, <3>2, PercentBegins DEF AtGoal
  <2>. QED  BY <2>4, <2>5
<1>. QED  BY <1>1, <1>2, <1>3

\* A call at a goal is the only one there unless two have met.
LEMMA AloneAt ==
  ASSUME GoalTypeInv, PercentInv, NEW x \in GoalCalls, work[x].pc \in AtGoal
  PROVE  /\ work[x].goal \in Existing /\ x \in Busy(work[x].goal)
         /\ work[x].goal \notin beside.met => Busy(work[x].goal) \subseteq {x}
         /\ work[x].goal \notin beside.met /\ work[x].goal \notin beside.behind
               => OneTells(work[x], work[x].goal)
<1>1. work[x].goal \in Existing
  BY GoalShape DEF WorkFits
<1>2. x \in Busy(work[x].goal)
  BY DEF Busy, AtGoal
<1>. QED  BY <1>1, <1>2 DEF PercentInv

\* updateGoal keeps what is known of the percentages.
LEMMA PercentUpdate ==
  ASSUME GoalTypeInv, PercentInv, NEW x \in GoalCalls, GoalUpdate(x) PROVE PercentInv'
<1>0. PICK g : g = work[x].goal
  OBVIOUS
<1> DEFINE target == IF work[x].value = Unsaid THEN goals[g].target ELSE work[x].value
<1>1. work[x].pc = "goal_update"
  BY DEF GoalUpdate, WorkAt
<1>2. g \in Existing /\ (g \notin beside.met => Busy(g) \subseteq {x})
      /\ (g \notin beside.met /\ g \notin beside.behind => Agrees(g))
  BY <1>0, <1>1, AloneAt DEF AtGoal, OneTells
<1>3. /\ goals' = [goals EXCEPT ![g].title = work[x].title, ![g].target = target]
      /\ beside' = IF target # goals[g].target THEN [beside EXCEPT !.behind = beside.behind \cup {g}] ELSE beside
      /\ work' = [work EXCEPT ![x] = NoWork] /\ entries' = entries
  BY <1>0 DEF GoalUpdate, WorkEnds
<1>. HIDE DEF target
<1>4. goals[g] \in Goal
  BY <1>2, GoalShape
<1>5. Existing' = Existing /\ \A h \in Existing : h # g => goals'[h] = goals[h]
  BY <1>2, <1>3, GoalShape DEF Existing
<1>6. goals'[g].percent = goals[g].percent /\ goals'[g].target = target
  BY <1>2, <1>3, <1>4, GoalShape DEF Goal
<1>7. beside'.met = beside.met /\ beside.behind \subseteq beside'.behind
      /\ (g \notin beside'.behind => target = goals[g].target)
  <2>1. CASE target # goals[g].target
    <3>1. beside' = [met |-> beside.met, behind |-> beside.behind \cup {g}]
      BY <2>1, <1>3, BesideRecord
    <3>. QED  BY <3>1
  <2>2. CASE target = goals[g].target
    BY <2>2, <1>3
  <2>. QED  BY <2>1, <2>2
<1>8. g \notin beside'.met /\ g \notin beside'.behind => Agrees(g)'
  BY <1>2, <1>3, <1>6, <1>7, AgreesStays
<1>9. work[x].goal = g /\ NoWork.pc = "idle"
  BY <1>0, NoWorkFits
<1>. QED  BY <1>0, <1>2, <1>3, <1>5, <1>7, <1>8, <1>9, PercentStep

\* An entry without a value leaves the latest value what it was.
LEMMA UnsaidStays ==
  ASSUME NEW g, entries[g] \in Seq(Amounts \cup {Unsaid}), entries'[g] = Append(entries[g], Unsaid),
         goals'[g] = goals[g], Agrees(g)
  PROVE  Agrees(g)'
<1>. SUFFICES ASSUME NEW i \in LatestSaid(g)'
              PROVE  goals'[g].target > 0 => goals'[g].percent = PercentOf(entries'[g][i], goals'[g].target)
  BY DEF Agrees
<1>1. DOMAIN entries[g] = 1..Len(entries[g]) /\ DOMAIN entries'[g] = 1..(Len(entries[g]) + 1)
      /\ \A j \in 1..Len(entries[g]) : entries'[g][j] = entries[g][j]
      /\ entries'[g][Len(entries[g]) + 1] = Unsaid /\ Len(entries[g]) \in Nat
  OBVIOUS
<1>2. i \in DOMAIN entries'[g] /\ entries'[g][i] # Unsaid
      /\ \A j \in DOMAIN entries'[g] : j > i => entries'[g][j] = Unsaid
  BY DEF LatestSaid
<1>3. i \in 1..Len(entries[g])
  BY <1>1, <1>2
<1>4. i \in LatestSaid(g)
  BY <1>1, <1>2, <1>3 DEF LatestSaid
<1>. QED  BY <1>1, <1>3, <1>4 DEF Agrees

\* A new entry does, while its call still has the percentage to write.
LEMMA PercentEntry ==
  ASSUME GoalTypeInv, PercentInv, NEW x \in GoalCalls, EntryMake(x) PROVE PercentInv'
<1>0. PICK g : g = work[x].goal
  OBVIOUS
<1> DEFINE l == [work[x] EXCEPT !.pc = "entry_latest"]
<1>1. work[x].pc = "entry_make" /\ work[x] \in Work
  BY GoalShape DEF EntryMake, WorkAt
<1>2. g \in Existing /\ (g \notin beside.met => Busy(g) \subseteq {x})
      /\ (g \notin beside.met /\ g \notin beside.behind
            => work[x].target = goals[g].target /\ (work[x].value = Unsaid => Agrees(g)))
  BY <1>0, <1>1, AloneAt DEF AtGoal, OneTells
<1>3. /\ work' = [work EXCEPT ![x] = l] /\ entries' = [entries EXCEPT ![g] = Append(entries[g], work[x].value)]
      /\ goals' = goals /\ beside' = beside
  BY <1>0 DEF EntryMake
<1>4. l.pc = "entry_latest" /\ l.goal = g /\ l.target = work[x].target
  BY <1>0, <1>1 DEF Work
<1>5. work[x].value \in Amounts \cup {Unsaid}
  BY <1>1 DEF Work
<1>. HIDE DEF l
<1>6. Existing' = Existing /\ g \in GoalIds /\ entries[g] \in Seq(Amounts \cup {Unsaid})
  BY <1>2, <1>3, GoalShape DEF Existing
<1>7. entries'[g] = Append(entries[g], work[x].value) /\ \A h \in GoalIds : h # g => entries'[h] = entries[h]
  BY <1>3, <1>6, GoalShape
<1>8. LastRow(g)' = work[x].value
  BY <1>5, <1>6, <1>7 DEF LastRow
<1>9. ASSUME g \notin beside'.met, g \notin beside'.behind PROVE OneTells(work[x], g)'
  <2>1. work'[x] = l
    BY <1>3, GoalShape
  <2>2. work[x].value = Unsaid => Agrees(g)'
    BY <1>2, <1>3, <1>6, <1>7, <1>9, UnsaidStays
  <2>. QED  BY <2>1, <2>2, <1>2, <1>3, <1>4, <1>8, <1>9 DEF OneTells
<1>10. work[x].goal = g /\ l.pc # "idle"
  BY <1>0, <1>4
<1>. QED  BY <1>0, <1>2, <1>3, <1>4, <1>6, <1>7, <1>9, <1>10, PercentStep

\* Reading the latest entry does.
LEMMA PercentLatest ==
  ASSUME GoalTypeInv, PercentInv, NEW x \in GoalCalls, EntryLatest(x) PROVE PercentInv'
<1>0. PICK g : g = work[x].goal
  OBVIOUS
<1> DEFINE last == entries[g][Len(entries[g])]
           l == [work[x] EXCEPT !.pc = "entry_percent", !.value = last]
<1>1. work[x].pc = "entry_latest" /\ work[x] \in Work
  BY GoalShape DEF EntryLatest, WorkAt
<1>2. g \in Existing /\ (g \notin beside.met => Busy(g) \subseteq {x})
      /\ (g \notin beside.met /\ g \notin beside.behind
            => work[x].target = goals[g].target /\ (LastRow(g) = Unsaid => Agrees(g)))
  BY <1>0, <1>1, AloneAt DEF AtGoal, OneTells
<1>3. goals' = goals /\ beside' = beside /\ entries' = entries /\ Existing' = Existing
  BY DEF EntryLatest, Existing
<1>4. l.pc = "entry_percent" /\ l.goal = g /\ l.target = work[x].target /\ l.value = last
  BY <1>0, <1>1 DEF Work
<1>5. IF last # Unsaid /\ work[x].target > 0 THEN work' = [work EXCEPT ![x] = l]
      ELSE work' = [work EXCEPT ![x] = NoWork]
  BY <1>0 DEF EntryLatest
<1>6. last = LastRow(g) /\ work[x].goal = g
  BY <1>0 DEF LastRow
<1>. HIDE DEF l, last
<1>7. (Agrees(g)' <=> Agrees(g)) /\ LastRow(g)' = LastRow(g)
  BY <1>3, AgreesStays
<1>8. CASE last # Unsaid /\ work[x].target > 0
  <2>1. work' = [work EXCEPT ![x] = l] /\ work'[x] = l
    BY <1>5, <1>8, GoalShape
  <2>2. g \notin beside'.met /\ g \notin beside'.behind => OneTells(work[x], g)'
    BY <2>1, <1>2, <1>3, <1>4, <1>6, <1>7, <1>8 DEF OneTells
  <2>. QED  BY <1>0, <2>1, <2>2, <1>2, <1>3, <1>4, <1>6, PercentStep
<1>9. CASE ~(last # Unsaid /\ work[x].target > 0)
  <2>1. work' = [work EXCEPT ![x] = NoWork]
    BY <1>5, <1>9
  <2>2. g \notin beside'.met /\ g \notin beside'.behind => Agrees(g)'
    BY <1>2, <1>3, <1>6, <1>7, <1>9 DEF Agrees
  <2>. QED  BY <1>0, <2>1, <2>2, <1>2, <1>3, <1>6, NoWorkFits, PercentStep
<1>. QED  BY <1>8, <1>9

\* Writing the percentage does.
LEMMA PercentWritten ==
  ASSUME GoalTypeInv, PercentInv, NEW x \in GoalCalls, EntryPercent(x) PROVE PercentInv'
<1>0. PICK g : g = work[x].goal
  OBVIOUS
<1> DEFINE n == PercentOf(work[x].value, work[x].target)
<1>1. work[x].pc = "entry_percent"
  BY GoalShape DEF EntryPercent, WorkAt
<1>2. g \in Existing /\ (g \notin beside.met => Busy(g) \subseteq {x})
      /\ (g \notin beside.met /\ g \notin beside.behind
            => work[x].target = goals[g].target /\ work[x].value = LastRow(g) /\ LastRow(g) # Unsaid)
  BY <1>0, <1>1, AloneAt DEF AtGoal, OneTells
<1>3. goals' = [goals EXCEPT ![g].percent = n] /\ beside' = beside /\ entries' = entries
      /\ work' = [work EXCEPT ![x] = NoWork]
  BY <1>0 DEF EntryPercent, WorkEnds
<1>4. work[x].goal = g /\ n = PercentOf(work[x].value, work[x].target)
  BY <1>0
<1>. HIDE DEF n
<1>5. Existing' = Existing /\ \A h \in Existing : h # g => goals'[h] = goals[h]
  BY <1>2, <1>3, GoalShape DEF Existing
<1>6. goals'[g].target = goals[g].target /\ goals'[g].percent = n
  <2>1. goals[g] \in Goal
    BY <1>2, GoalShape
  <2>. QED  BY <2>1, <1>2, <1>3, GoalShape DEF Goal
<1>7. ASSUME g \notin beside'.met, g \notin beside'.behind PROVE Agrees(g)'
  <2>. SUFFICES ASSUME NEW i \in LatestSaid(g)' PROVE goals'[g].percent = PercentOf(entries'[g][i], goals'[g].target)
    BY DEF Agrees
  <2>1. entries[g] \in Seq(Amounts \cup {Unsaid})
    BY <1>2, GoalShape
  <2>2. i \in 1..Len(entries[g]) /\ \A j \in 1..Len(entries[g]) : j > i => entries[g][j] = Unsaid
    BY <2>1, <1>3 DEF LatestSaid
  <2>3. entries[g][Len(entries[g])] # Unsaid
    BY <1>2, <1>3, <1>7 DEF LastRow
  <2>4. i = Len(entries[g])
    BY <2>1, <2>2, <2>3
  <2>. QED  BY <2>4, <1>2, <1>3, <1>4, <1>6, <1>7 DEF LastRow
<1>. QED  BY <1>0, <1>2, <1>3, <1>4, <1>5, <1>7, NoWorkFits, PercentStep

\* A mentor's note does.
LEMMA PercentNote ==
  ASSUME GoalTypeInv, PercentInv, NEW x \in GoalCalls, NoteRow(x) PROVE PercentInv'
<1>0. PICK g : g = work[x].goal
  OBVIOUS
<1>1. work[x].pc = "note_make"
  BY GoalShape DEF NoteRow, WorkAt
<1>2. g \in Existing /\ (g \notin beside.met => Busy(g) \subseteq {x})
      /\ (g \notin beside.met /\ g \notin beside.behind => Agrees(g))
  BY <1>0, <1>1, AloneAt DEF AtGoal, OneTells
<1>3. goals' = goals /\ beside' = beside /\ entries' = entries /\ work' = [work EXCEPT ![x] = NoWork]
      /\ Existing' = Existing
  BY <1>0 DEF NoteRow, WorkEnds, Existing
<1>4. Agrees(g)' <=> Agrees(g)
  BY <1>3, AgreesStays
<1>. QED  BY <1>0, <1>2, <1>3, <1>4, NoWorkFits, PercentStep

\* A call that fails at a goal does: what it had still to write of its progress is
\* behind from then on.
LEMMA PercentFails ==
  ASSUME GoalTypeInv, PercentInv, NEW x \in GoalCalls, GoalCallFails(x), work[x].pc \in AtGoal
  PROVE  PercentInv'
<1>0. PICK g : g = work[x].goal
  OBVIOUS
<1>1. g \in Existing /\ (g \notin beside.met => Busy(g) \subseteq {x})
      /\ (g \notin beside.met /\ g \notin beside.behind => OneTells(work[x], g))
  BY <1>0, AloneAt
<1>2. goals' = goals /\ entries' = entries /\ work' = [work EXCEPT ![x] = NoWork] /\ Existing' = Existing
  BY DEF GoalCallFails, WorkEnds, Existing
<1>3. (Agrees(g)' <=> Agrees(g))
  BY <1>2, AgreesStays
<1>4. CASE work[x].pc \in {"entry_make", "entry_latest", "entry_percent"}
  <2>1. beside' = [met |-> beside.met, behind |-> beside.behind \cup {g}]
    BY <1>0, <1>4, BesideRecord DEF GoalCallFails
  <2>2. beside'.met = beside.met /\ beside'.behind = beside.behind \cup {g}
    BY <2>1
  <2>. QED  BY <1>0, <1>1, <1>2, <2>2, NoWorkFits, PercentStep
<1>5. CASE work[x].pc \in {"goal_update", "note_make"}
  <2>1. beside' = beside
    BY <1>5 DEF GoalCallFails
  <2>2. g \notin beside.met /\ g \notin beside.behind => Agrees(g)'
    BY <1>1, <1>3, <1>5 DEF OneTells
  <2>. QED  BY <1>0, <1>1, <1>2, <2>1, <2>2, NoWorkFits, PercentStep
<1>. QED  BY <1>4, <1>5 DEF AtGoal

\* A goal that is made has no progress yet, nor a call at it; neither has one whose
\* making failed.
LEMMA PercentMake ==
  ASSUME GoalTypeInv, PercentInv, NEW x \in GoalCalls,
         \/ GoalMake(x)
         \/ GoalCallFails(x) /\ work[x].pc \notin AtGoal
         \/ \E t \in Titles, n \in Amounts : CreateGoal(x, t, n)
  PROVE  PercentInv'
<1>1. /\ entries' = entries /\ Existing \subseteq Existing' /\ Existing' \subseteq GoalIds
      /\ \A g \in Existing : goals'[g] = goals[g]
  <2>1. CASE \E t \in Titles, n \in Amounts : CreateGoal(x, t, n)
    BY <2>1, GoalShape DEF CreateGoal, Existing
  <2>2. CASE GoalMake(x)
    BY <2>2, GoalShape DEF GoalMake, Existing
  <2>3. CASE GoalCallFails(x)
    BY <2>3, GoalShape DEF GoalCallFails, Existing
  <2>. QED  BY <2>1, <2>2, <2>3
<1>2. \E l : work' = [work EXCEPT ![x] = l] /\ l.goal = NoGoal
  <2>1. ASSUME NEW t \in Titles, NEW n \in Amounts, CreateGoal(x, t, n)
        PROVE  \E l : work' = [work EXCEPT ![x] = l] /\ l.goal = NoGoal
    <3> DEFINE l == [NoWork EXCEPT !.pc = "goal_make", !.title = t, !.target = n]
    <3>1. work' = [work EXCEPT ![x] = l]
      BY <2>1 DEF CreateGoal
    <3>2. l.goal = NoGoal
      BY DEF NoWork
    <3>. HIDE DEF l
    <3>. QED  BY <3>1, <3>2
  <2>2. CASE GoalMake(x)
    BY <2>2, NoWorkFits DEF GoalMake, WorkEnds
  <2>3. CASE GoalCallFails(x)
    BY <2>3, NoWorkFits DEF GoalCallFails, WorkEnds
  <2>. QED  BY <1>1, <2>1, <2>2, <2>3
<1>3. work[x].goal = NoGoal
  <2>1. work[x].pc \notin AtGoal /\ WorkFits(work[x])
    BY GoalShape DEF CreateGoal, GoalMake, WorkAt, AtGoal
  <2>. QED  BY <2>1 DEF WorkFits, AtGoal
<1>4. PICK l : work' = [work EXCEPT ![x] = l] /\ l.goal = NoGoal
  BY <1>2
<1>5. work'[x].goal = NoGoal /\ \A y \in GoalCalls : y # x => work'[y] = work[y]
  BY <1>4, GoalShape
<1>6. ASSUME NEW g \in GoalIds PROVE Busy(g)' = Busy(g) /\ \A y \in Busy(g) : work'[y] = work[y]
  <2>1. g # NoGoal
    BY GoalShape
  <2>. QED  BY <2>1, <1>3, <1>5 DEF Busy
<1>7. \A g \in GoalIds \ Existing : Busy(g) = {}
  <2>. SUFFICES ASSUME NEW g \in GoalIds, g \notin Existing, NEW y \in Busy(g) PROVE FALSE
    OBVIOUS
  <2>1. y \in GoalCalls /\ work[y].goal = g /\ WorkFits(work[y]) /\ g # NoGoal
    BY GoalShape DEF Busy
  <2>. QED  BY <2>1 DEF WorkFits
<1>8. \A g \in Existing : (g \in beside.met => g \in beside'.met) /\ (g \in beside.behind => g \in beside'.behind)
  <2>1. CASE beside' = beside
    BY <2>1
  <2>2. ASSUME NEW t \in Titles, NEW n \in Amounts, CreateGoal(x, t, n)
        PROVE  beside.met \subseteq beside'.met /\ beside'.behind = beside.behind
    <3> DEFINE m == IF \E y \in GoalCalls : work[y].title # NoGoal THEN beside.met \cup {NoGoal}
                    ELSE beside.met
    <3>1. beside' = [beside EXCEPT !.met = m] /\ beside.met \subseteq m
      BY <2>2 DEF CreateGoal
    <3>. HIDE DEF m
    <3>. QED  BY <3>1, BesideRecord
  <2>3. ASSUME GoalCallFails(x), work[x].pc \notin AtGoal PROVE beside' = beside
    BY <2>3 DEF GoalCallFails, AtGoal
  <2>. QED  BY <2>1, <2>2, <2>3 DEF GoalMake
<1>9. \A g \in Existing : g \in GoalIds
  BY GoalShape
<1>. QED  BY <1>1, <1>6, <1>7, <1>8, <1>9, PercentRest

\* Every step keeps what is known of the percentages.
LEMMA PercentNext == GoalTypeInv /\ PercentInv /\ [GoalNext]_goalVars => PercentInv'
<1>. SUFFICES ASSUME GoalTypeInv, PercentInv, [GoalNext]_goalVars PROVE PercentInv'
  OBVIOUS
<1>1. CASE UNCHANGED goalVars
  <2>1. \A g \in Existing : Busy(g)' = Busy(g)
    BY <1>1 DEF Busy, goalVars
  <2>. QED  BY <1>1, <2>1, PercentRest DEF goalVars, Existing
<1>2. ASSUME NEW g \in Existing, NEW m \in Mentors \cup {NoGoal}, AssignCoach(g, m) PROVE PercentInv'
  <2>1. Existing' = Existing
        /\ \A h \in Existing : goals'[h].target = goals[h].target /\ goals'[h].percent = goals[h].percent
    BY <1>2, GoalShape DEF AssignCoach, Existing, Goal
  <2>2. UNCHANGED <<entries, work, beside>> /\ \A h \in Existing : Busy(h)' = Busy(h)
    BY <1>2 DEF AssignCoach, Busy
  <2>. QED  BY <2>1, <2>2, PercentRest
<1>. QED
  BY <1>1, <1>2, PercentCallsBegin, PercentUpdate, PercentEntry, PercentLatest, PercentWritten,
     PercentNote, PercentMake, PercentFails DEF GoalNext

\* The percentage shown of a goal is that of its latest progress that has a value,
\* when no call is at work on it, unless two calls met there, its target was changed
\* after that entry, or a call that recorded progress failed and none has got through
\* since (addProgress computes it once and swallows a failure, updateGoal does not).
THEOREM ProgressIsShown == GoalSpec => []PercentOfLatest
<1>1. GoalInit => PercentInv
  BY DEF GoalInit, PercentInv, Existing
<1>2. PercentInv => PercentOfLatest
  BY DEF PercentInv, PercentOfLatest
<1>. QED  BY <1>1, <1>2, GoalInitTypes, GoalNextTypes, PercentNext, PTL DEF GoalSpec

-----------------------------------------------------------------------------
(* Badges: the types, and the athlete's awards.                            *)

\* A call in flight carries a badge; a badge that is not there has no rows.  At a
\* badge where no two calls met there is one call at most, and it found no row.
BadgeInv ==
    /\ BadgeTypeOK
    /\ \A x \in BadgeCalls : claims[x].pc # "idle" <=> claims[x].badge # NoBadge
    /\ \A b \in BadgeIds \ DOMAIN badges : held[b] = 0
    /\ \A b \in BadgeIds \ award.met :
          /\ held[b] = IF b \in award.told THEN 1 ELSE 0
          /\ \A x \in At(b) : b \notin award.told /\ \A y \in At(b) : x = y

\* The parts of the badges' type that the proofs below use.
LEMMA BadgeShape ==
  ASSUME BadgeInv
  PROVE  /\ DOMAIN badges \subseteq BadgeIds
         /\ badges \in [DOMAIN badges -> [criteria : Criteria \cup {NoBadge}, points : Points]]
         /\ held \in [BadgeIds -> Nat] /\ done \in [Jobs -> -1..MaxAge] /\ goalCount \in 0..MaxGoalCount
         /\ claims \in [BadgeCalls -> Claim]
         /\ award \in [told : SUBSET BadgeIds, met : SUBSET BadgeIds]
         /\ award = [told |-> award.told, met |-> award.met]
         /\ NoBadge \notin BadgeIds /\ NoBadge \notin Criteria /\ MaxAge \in Nat /\ MaxGoalCount \in Nat
  BY NoBadgeIsNoKey, BadgeBoundsAreNat DEF BadgeInv, BadgeTypeOK

\* A call about badges that is not running holds nothing.
LEMMA NoClaimType == NoClaim \in Claim /\ NoClaim.pc = "idle" /\ NoClaim.badge = NoBadge
  BY DEF NoClaim, Claim

\* Before the first badge nothing was awarded.
LEMMA BadgeInitInv == BadgeInit => BadgeInv
<1>. SUFFICES ASSUME BadgeInit PROVE BadgeInv
  OBVIOUS
<1>1. /\ DOMAIN badges = {} /\ held = [b \in BadgeIds |-> 0] /\ done = [j \in Jobs |-> -1]
      /\ goalCount = 0 /\ claims = [x \in BadgeCalls |-> NoClaim] /\ award = [told |-> {}, met |-> {}]
  BY DEF BadgeInit
<1>2. badges \in [DOMAIN badges -> [criteria : Criteria \cup {NoBadge}, points : Points]]
  BY <1>1 DEF BadgeInit
<1>3. BadgeTypeOK
  BY <1>1, <1>2, NoClaimType, BadgeBoundsAreNat DEF BadgeTypeOK
<1>4. \A b \in BadgeIds : At(b) = {}
  BY <1>1, NoClaimType, NoBadgeIsNoKey DEF At
<1>. QED  BY <1>1, <1>3, <1>4, NoClaimType DEF BadgeInv

\* A call begins at a badge that has no row.
LEMMA ClaimBegins ==
  ASSUME BadgeInv, NEW x \in BadgeCalls, NEW b \in BadgeIds, ClaimBadge(x, b) \/ DeleteBadge(x, b)
  PROVE  BadgeInv'
<1>1. /\ claims[x].pc = "idle" /\ b \in DOMAIN badges /\ held[b] = 0
      /\ award' = MeetsAt(b) /\ UNCHANGED <<badges, held, done, goalCount>>
  BY DEF ClaimBadge, DeleteBadge, ClaimAt
<1>2. PICK l \in Claim : l.pc # "idle" /\ l.badge = b /\ claims' = [claims EXCEPT ![x] = l]
  <2>1. CASE ClaimBadge(x, b)
    <3>1. badges[b].criteria \in Criteria
      BY <1>1, <2>1, BadgeShape DEF ClaimBadge
    <3>2. [pc |-> "stats", badge |-> b, criteria |-> badges[b].criteria] \in Claim
      BY <3>1 DEF Claim
    <3>. QED  BY <2>1, <3>2 DEF ClaimBadge
  <2>2. CASE DeleteBadge(x, b)
    <3> DEFINE l == [NoClaim EXCEPT !.pc = "delete", !.badge = b]
    <3>1. l \in Claim /\ l.pc # "idle" /\ l.badge = b
      BY DEF NoClaim, Claim
    <3>2. claims' = [claims EXCEPT ![x] = l]
      BY <2>2 DEF DeleteBadge
    <3>. HIDE DEF l
    <3>. QED  BY <3>1, <3>2
  <2>. QED  BY <2>1, <2>2
<1>3. award'.told = award.told /\ award.met \subseteq award'.met /\ (At(b) # {} => b \in award'.met)
      /\ award' \in [told : SUBSET BadgeIds, met : SUBSET BadgeIds]
  <2>1. award' = [told |-> award.told, met |-> award.met \cup {b}]
        \/ (At(b) = {} /\ award' = [told |-> award.told, met |-> award.met])
    BY <1>1, BadgeShape DEF MeetsAt
  <2>. QED  BY <2>1, BadgeShape
<1>4. claims' \in [BadgeCalls -> Claim] /\ claims'[x] = l
      /\ \A y \in BadgeCalls : y # x => claims'[y] = claims[y]
  BY <1>2, BadgeShape
<1>5. BadgeTypeOK'
  BY <1>1, <1>3, <1>4, BadgeShape DEF BadgeTypeOK
<1>6. claims[x].badge = NoBadge
  BY <1>1 DEF BadgeInv
<1>7. At(b)' = At(b) \cup {x} /\ \A d \in BadgeIds : d # b => At(d)' = At(d)
  BY <1>2, <1>4, <1>6, BadgeShape DEF At
<1>8. ASSUME NEW d \in BadgeIds, d \notin award'.met
      PROVE  /\ held'[d] = IF d \in award'.told THEN 1 ELSE 0
             /\ \A y \in At(d)' : d \notin award'.told /\ \A z \in At(d)' : y = z
  <2>1. /\ held[d] = IF d \in award.told THEN 1 ELSE 0
        /\ \A y \in At(d) : d \notin award.told /\ \A z \in At(d) : y = z
    BY <1>3, <1>8 DEF BadgeInv
  <2>2. CASE d = b
    BY <2>1, <2>2, <1>1, <1>3, <1>7, <1>8
  <2>3. CASE d # b
    BY <2>1, <2>3, <1>1, <1>3, <1>7
  <2>. QED  BY <2>2, <2>3
<1>9. \A y \in BadgeCalls : claims'[y].pc # "idle" <=> claims'[y].badge # NoBadge
  BY <1>2, <1>4, BadgeShape DEF BadgeInv
<1>. QED  BY <1>1, <1>5, <1>8, <1>9 DEF BadgeInv

\* A call ends, or goes on to the award.
LEMMA ClaimGoesOn ==
  ASSUME BadgeInv, NEW x \in BadgeCalls, NEW l \in Claim, claims' = [claims EXCEPT ![x] = l],
         l = NoClaim \/ (l.badge = claims[x].badge /\ l.pc # "idle" /\ claims[x].pc # "idle")
  PROVE  /\ claims' \in [BadgeCalls -> Claim]
         /\ \A y \in BadgeCalls : claims'[y].pc # "idle" <=> claims'[y].badge # NoBadge
         /\ \A b \in BadgeIds : At(b)' \subseteq At(b)
         /\ l = NoClaim => \A b \in BadgeIds : At(b)' = At(b) \ {x}
<1>1. claims' \in [BadgeCalls -> Claim] /\ claims'[x] = l
      /\ \A y \in BadgeCalls : y # x => claims'[y] = claims[y]
  BY BadgeShape
<1>. QED  BY <1>1, NoClaimType, BadgeShape DEF At, BadgeInv

\* Reading the figures of a claim keeps the awards in step with what was told.
LEMMA StatsKeepAwards == ASSUME BadgeInv, NEW x \in BadgeCalls, ClaimStats(x) PROVE BadgeInv'
<1>1. claims[x].pc = "stats" /\ claims[x] \in Claim /\ UNCHANGED <<badges, held, done, goalCount, award>>
  BY BadgeShape DEF ClaimStats, ClaimAt
<1>2. PICK l \in Claim : (l = NoClaim \/ (l.badge = claims[x].badge /\ l.pc # "idle"))
                         /\ claims' = [claims EXCEPT ![x] = l]
  <2> DEFINE l == [claims[x] EXCEPT !.pc = "award"]
  <2>1. l \in Claim /\ l.badge = claims[x].badge /\ l.pc # "idle"
    BY <1>1 DEF Claim
  <2>2. claims' = [claims EXCEPT ![x] = l] \/ claims' = [claims EXCEPT ![x] = NoClaim]
    BY DEF ClaimStats, ClaimEnds
  <2>. HIDE DEF l
  <2>. QED  BY <2>1, <2>2, NoClaimType
<1>3. /\ claims' \in [BadgeCalls -> Claim]
      /\ \A y \in BadgeCalls : claims'[y].pc # "idle" <=> claims'[y].badge # NoBadge
      /\ \A b \in BadgeIds : At(b)' \subseteq At(b)
  BY <1>1, <1>2, ClaimGoesOn
<1>4. BadgeTypeOK'
  BY <1>1, <1>3, BadgeShape DEF BadgeTypeOK
<1>. QED  BY <1>1, <1>3, <1>4 DEF BadgeInv

\* So does the award.
LEMMA AwardKeepsAwards == ASSUME BadgeInv, NEW x \in BadgeCalls, ClaimAward(x) PROVE BadgeInv'
<1>1. claims[x].pc = "award" /\ UNCHANGED <<badges, done, goalCount>>
      /\ claims' = [claims EXCEPT ![x] = NoClaim]
  BY DEF ClaimAward, ClaimAt, ClaimEnds
<1>2. PICK b \in BadgeIds : b = claims[x].badge
  <2>1. claims[x].badge # NoBadge /\ claims[x] \in Claim
    BY <1>1, BadgeShape DEF BadgeInv
  <2>. QED  BY <2>1 DEF Claim
<1>3. /\ claims' \in [BadgeCalls -> Claim]
      /\ \A y \in BadgeCalls : claims'[y].pc # "idle" <=> claims'[y].badge # NoBadge
      /\ \A d \in BadgeIds : At(d)' = At(d) \ {x}
  BY <1>1, NoClaimType, ClaimGoesOn
<1>4. x \in At(b)
  BY <1>2 DEF At
<1>5. CASE b \in DOMAIN badges
  <2>1. held' = [held EXCEPT ![b] = held[b] + 1] /\ award' = [award EXCEPT !.told = award.told \cup {b}]
    BY <1>2, <1>5 DEF ClaimAward
  <2>2. held' \in [BadgeIds -> Nat] /\ held'[b] = held[b] + 1
        /\ \A d \in BadgeIds : d # b => held'[d] = held[d]
    BY <2>1, BadgeShape
  <2>3. award' = [told |-> award.told \cup {b}, met |-> award.met]
    BY <2>1, BadgeShape
  <2>4. BadgeTypeOK'
    BY <1>1, <1>3, <2>2, <2>3, BadgeShape DEF BadgeTypeOK
  <2>5. ASSUME NEW d \in BadgeIds, d \notin award'.met
        PROVE  /\ held'[d] = IF d \in award'.told THEN 1 ELSE 0
               /\ \A y \in At(d)' : d \notin award'.told /\ \A z \in At(d)' : y = z
    <3>1. /\ held[d] = IF d \in award.told THEN 1 ELSE 0
          /\ \A y \in At(d) : d \notin award.told /\ \A z \in At(d) : y = z
      BY <2>3, <2>5 DEF BadgeInv
    <3>2. CASE d = b
      BY <3>1, <3>2, <1>3, <1>4, <2>2, <2>3
    <3>3. CASE d # b
      BY <3>1, <3>3, <1>3, <2>2, <2>3
    <3>. QED  BY <3>2, <3>3
  <2>6. \A d \in BadgeIds \ DOMAIN badges' : held'[d] = 0
    BY <1>1, <1>5, <2>2 DEF BadgeInv
  <2>. QED  BY <1>3, <2>4, <2>5, <2>6 DEF BadgeInv
<1>6. CASE b \notin DOMAIN badges
  <2>1. UNCHANGED <<held, award>>
    BY <1>2, <1>6 DEF ClaimAward
  <2>2. BadgeTypeOK'
    BY <1>1, <1>3, <2>1, BadgeShape DEF BadgeTypeOK
  <2>. QED  BY <1>1, <1>3, <2>1, <2>2 DEF BadgeInv
<1>. QED  BY <1>5, <1>6

\* So does the deletion of a badge, with its awards.
LEMMA DeletionKeepsAwards == ASSUME BadgeInv, NEW x \in BadgeCalls, DeleteRow(x) PROVE BadgeInv'
<1>1. claims[x].pc = "delete" /\ UNCHANGED <<done, goalCount, award>>
      /\ claims' = [claims EXCEPT ![x] = NoClaim]
  BY DEF DeleteRow, ClaimAt, ClaimEnds
<1>2. PICK b \in BadgeIds : b = claims[x].badge
  <2>1. claims[x].badge # NoBadge /\ claims[x] \in Claim
    BY <1>1, BadgeShape DEF BadgeInv
  <2>. QED  BY <2>1 DEF Claim
<1>3. /\ claims' \in [BadgeCalls -> Claim]
      /\ \A y \in BadgeCalls : claims'[y].pc # "idle" <=> claims'[y].badge # NoBadge
      /\ \A d \in BadgeIds : At(d)' = At(d) \ {x}
  BY <1>1, NoClaimType, ClaimGoesOn
<1>4. x \in At(b)
  BY <1>2 DEF At
<1>5. badges' = [d \in DOMAIN badges \ {b} |-> badges[d]] /\ held' = [held EXCEPT ![b] = 0]
  BY <1>2 DEF DeleteRow
<1>6. held' \in [BadgeIds -> Nat] /\ held'[b] = 0 /\ \A d \in BadgeIds : d # b => held'[d] = held[d]
  BY <1>5, BadgeShape
<1>7. DOMAIN badges' = DOMAIN badges \ {b}
      /\ badges' \in [DOMAIN badges' -> [criteria : Criteria \cup {NoBadge}, points : Points]]
  BY <1>5, BadgeShape
<1>8. BadgeTypeOK'
  BY <1>1, <1>3, <1>6, <1>7, BadgeShape DEF BadgeTypeOK
<1>9. ASSUME NEW d \in BadgeIds, d \notin award'.met
      PROVE  /\ held'[d] = IF d \in award'.told THEN 1 ELSE 0
             /\ \A y \in At(d)' : d \notin award'.told /\ \A z \in At(d)' : y = z
  <2>1. /\ held[d] = IF d \in award.told THEN 1 ELSE 0
        /\ \A y \in At(d) : d \notin award.told /\ \A z \in At(d) : y = z
    BY <1>1, <1>9 DEF BadgeInv
  <2>2. CASE d = b
    BY <2>1, <2>2, <1>1, <1>3, <1>4, <1>6
  <2>3. CASE d # b
    BY <2>1, <2>3, <1>1, <1>3, <1>6
  <2>. QED  BY <2>2, <2>3
<1>10. \A d \in BadgeIds \ DOMAIN badges' : held'[d] = 0
  BY <1>6, <1>7 DEF BadgeInv
<1>. QED  BY <1>3, <1>8, <1>9, <1>10 DEF BadgeInv

\* A badge that is made anew has no row.
LEMMA AdminKeepsAwards ==
  ASSUME BadgeInv, NEW b \in BadgeIds, NEW c \in Roots \cup {NoBadge}, NEW n \in Points,
         CreateBadge(b, c, n) \/ UpdateBadge(b, c, n)
  PROVE  BadgeInv'
<1>1. [criteria |-> c, points |-> n] \in [criteria : Criteria \cup {NoBadge}, points : Points]
  BY CriteriaAreValid
<1>2. CASE CreateBadge(b, c, n)
  <2>1. /\ b \notin DOMAIN badges /\ At(b) = {} /\ UNCHANGED <<held, done, goalCount, claims>>
        /\ badges' = [d \in DOMAIN badges \cup {b} |->
                         IF d = b THEN [criteria |-> c, points |-> n] ELSE badges[d]]
        /\ award' = [told |-> award.told \ {b}, met |-> award.met \ {b}]
    BY <1>2 DEF CreateBadge
  <2>2. DOMAIN badges' = DOMAIN badges \cup {b}
        /\ badges' \in [DOMAIN badges' -> [criteria : Criteria \cup {NoBadge}, points : Points]]
    BY <1>1, <2>1, BadgeShape
  <2>3. award' \in [told : SUBSET BadgeIds, met : SUBSET BadgeIds]
    BY <2>1, BadgeShape
  <2>4. BadgeTypeOK'
    BY <2>1, <2>2, <2>3, BadgeShape DEF BadgeTypeOK
  <2>5. held[b] = 0
    BY <2>1 DEF BadgeInv
  <2>6. \A d \in BadgeIds : At(d)' = At(d)
    BY <2>1 DEF At
  <2>7. ASSUME NEW d \in BadgeIds, d \notin award'.met
        PROVE  /\ held'[d] = IF d \in award'.told THEN 1 ELSE 0
               /\ \A y \in At(d)' : d \notin award'.told /\ \A z \in At(d)' : y = z
    <3>1. CASE d = b
      BY <3>1, <2>1, <2>5, <2>6
    <3>2. CASE d # b
      <4>1. d \notin award.met
        BY <3>2, <2>1, <2>7
      <4>2. /\ held[d] = IF d \in award.told THEN 1 ELSE 0
            /\ \A y \in At(d) : d \notin award.told /\ \A z \in At(d) : y = z
        BY <4>1 DEF BadgeInv
      <4>. QED  BY <4>2, <3>2, <2>1, <2>6
    <3>. QED  BY <3>1, <3>2
  <2>8. /\ \A y \in BadgeCalls : claims'[y].pc # "idle" <=> claims'[y].badge # NoBadge
        /\ \A d \in BadgeIds \ DOMAIN badges' : held'[d] = 0
    BY <2>1, <2>2 DEF BadgeInv
  <2>. QED  BY <2>4, <2>7, <2>8 DEF BadgeInv
<1>3. CASE UpdateBadge(b, c, n)
  <2>1. /\ UNCHANGED <<held, done, goalCount, claims, award>> /\ b \in DOMAIN badges
        /\ badges' = [badges EXCEPT ![b] = [criteria |-> c, points |-> n]]
    BY <1>3 DEF UpdateBadge
  <2>2. DOMAIN badges' = DOMAIN badges
        /\ badges' \in [DOMAIN badges' -> [criteria : Criteria \cup {NoBadge}, points : Points]]
    BY <1>1, <2>1, BadgeShape
  <2>3. BadgeTypeOK'
    BY <2>1, <2>2, BadgeShape DEF BadgeTypeOK
  <2>. QED  BY <2>1, <2>2, <2>3 DEF BadgeInv, At
<1>. QED  BY <1>2, <1>3

\* What the athlete does and time change none of this.
LEMMA DaysKeepAwards ==
  ASSUME BadgeInv, DayEnds \/ GoalCounted \/ (\E j \in Jobs : JobCompletes(j)) PROVE BadgeInv'
<1>1. UNCHANGED <<badges, held, claims, award>>
  BY DEF DayEnds, GoalCounted, JobCompletes
<1>2. done' \in [Jobs -> -1..MaxAge] /\ goalCount' \in 0..MaxGoalCount
  <2>1. CASE GoalCounted
    BY <2>1, BadgeShape DEF GoalCounted
  <2>2. CASE \E j \in Jobs : JobCompletes(j)
    BY <2>2, BadgeShape DEF JobCompletes
  <2>3. CASE DayEnds
    <3>1. done' = [j \in Jobs |-> IF done[j] \in {-1, MaxAge} THEN done[j] ELSE done[j] + 1]
          /\ goalCount' = goalCount
      BY <2>3 DEF DayEnds
    <3>2. \A j \in Jobs : done[j] \in -1..MaxAge
      BY BadgeShape
    <3>. QED  BY <3>1, <3>2, BadgeShape
  <2>. QED  BY <2>1, <2>2, <2>3
<1>3. BadgeTypeOK'
  BY <1>1, <1>2, BadgeShape DEF BadgeTypeOK
<1>. QED  BY <1>1, <1>3 DEF BadgeInv, At

\* Every step does.
LEMMA BadgeNextInv == BadgeInv /\ [BadgeNext]_badgeVars => BadgeInv'
<1>. SUFFICES ASSUME BadgeInv, [BadgeNext]_badgeVars PROVE BadgeInv'
  OBVIOUS
<1>1. CASE UNCHANGED badgeVars
  BY <1>1 DEF badgeVars, BadgeInv, BadgeTypeOK, At
<1>2. CASE BadgeNext
  BY <1>2, ClaimBegins, StatsKeepAwards, AwardKeepsAwards, DeletionKeepsAwards, AdminKeepsAwards,
     DaysKeepAwards DEF BadgeNext
<1>. QED  BY <1>1, <1>2

\* The tables of badges and awards and the calls in flight keep their types.
THEOREM BadgeTypesKept == BadgeSpec => []BadgeTypeOK
<1>1. BadgeInv => BadgeTypeOK
  BY DEF BadgeInv
<1>. QED  BY <1>1, BadgeInitInv, BadgeNextInv, PTL DEF BadgeSpec

\* A badge the athlete was told he has is one row, and stays one, unless two claims,
\* or a claim and the deletion of the badge, overlap (claimBadge, deleteBadge).
THEOREM AwardsAreKept == BadgeSpec => []AwardsKept
<1>1. BadgeInv => AwardsKept
  BY DEF BadgeInv, AwardsKept
<1>. QED  BY <1>1, BadgeInitInv, BadgeNextInv, PTL DEF BadgeSpec

-----------------------------------------------------------------------------
(* Badges: the progress.  What a criterion comes to is a recursive         *)
(* function on the criteria; it exists because no criterion is a part of   *)
(* itself.                                                                 *)

Evaluated(c, f) == IF c.conditions = << >> THEN Leaf(c)
                   ELSE Combined(c, [i \in DOMAIN c.conditions |-> f[c.conditions[i]]])

Closed(T) == \A c \in T : \A i \in DOMAIN c.conditions : c.conditions[i] \in T
HasProgress(T) == Closed(T) /\ \E f : f = [c \in T |-> Evaluated(c, f)]

\* The recursive definition of Progress has a solution on no criteria.
LEMMA NoneHasProgress == HasProgress({})
<1> DEFINE f == [c \in {} |-> c]
<1>1. f = [c \in {} |-> Evaluated(c, f)]
  OBVIOUS
<1>. QED  BY <1>1 DEF HasProgress, Closed

\* It has one on one criteria more, when the parts of that are there already.
LEMMA OneMoreHasProgress ==
  ASSUME NEW T \in SUBSET Criteria, HasProgress(T), NEW c \in Criteria,
         \A i \in DOMAIN c.conditions : c.conditions[i] \in T
  PROVE  HasProgress(T \cup {c})
<1>1. PICK f : f = [d \in T |-> Evaluated(d, f)]
  BY DEF HasProgress
<1> DEFINE g == [d \in T \cup {c} |-> IF d \in T THEN f[d] ELSE Evaluated(c, f)]
<1>2. ASSUME NEW d \in T \cup {c} PROVE g[d] = Evaluated(d, g)
  <2>1. \A i \in DOMAIN d.conditions : d.conditions[i] \in T
    BY DEF HasProgress, Closed
  <2>2. [i \in DOMAIN d.conditions |-> g[d.conditions[i]]] = [i \in DOMAIN d.conditions |-> f[d.conditions[i]]]
    BY <2>1
  <2>. HIDE DEF g
  <2>3. Evaluated(d, g) = Evaluated(d, f)
    BY <2>2 DEF Evaluated
  <2>4. g[d] = IF d \in T THEN f[d] ELSE Evaluated(c, f)
    BY DEF g
  <2>. QED  BY <1>1, <2>3, <2>4
<1>3. g = [d \in T \cup {c} |-> Evaluated(d, g)]
  <2>1. g = [d \in T \cup {c} |-> g[d]]
    OBVIOUS
  <2>. HIDE DEF g
  <2>. QED  BY <1>2, <2>1
<1>4. Closed(T \cup {c})
  BY DEF HasProgress, Closed
<1>. HIDE DEF g
<1>. QED  BY <1>3, <1>4 DEF HasProgress

\* The progress of a criterion is evaluated from that of its parts.
LEMMA ProgressIsEvaluated == \A c \in Criteria : Progress[c] = Evaluated(c, Progress)
<1> DEFINE U == {R \in SUBSET Criteria : HasProgress(Criteria \ R)}
<1>1. Criteria \in U
  BY NoneHasProgress
<1>2. PICK R \in U : \A c \in R : R \ {c} \notin U
  <2>1. U \in SUBSET SUBSET Criteria /\ U # {}
    BY <1>1
  <2>. HIDE DEF U
  <2>. QED  BY <2>1, BadgeSetsAreFinite, LeastSubset
<1>3. ASSUME R # {} PROVE FALSE
  <2>1. PICK c \in R : \A i \in DOMAIN c.conditions : c.conditions[i] \notin R
    BY <1>3, PartsComeFirst
  <2>2. \A i \in DOMAIN c.conditions : c.conditions[i] \in Criteria
    <3>1. c.conditions = << >> => DOMAIN c.conditions = {}
      OBVIOUS
    <3>2. c.conditions # << >> => c.conditions \in Seq(Criteria)
      BY CriteriaAreValid
    <3>. QED  BY <3>1, <3>2
  <2>3. HasProgress((Criteria \ R) \cup {c})
    BY <2>1, <2>2, OneMoreHasProgress
  <2>4. (Criteria \ R) \cup {c} = Criteria \ (R \ {c})
    OBVIOUS
  <2>. QED  BY <1>2, <2>3, <2>4
<1>4. HasProgress(Criteria)
  <2>1. Criteria \ R = Criteria
    BY <1>3
  <2>. QED  BY <1>2, <2>1
<1>5. PICK f : f = [c \in Criteria |-> Evaluated(c, f)]
  BY <1>4 DEF HasProgress
<1>6. Progress = (CHOOSE P : P = [c \in Criteria |-> Evaluated(c, P)])
  BY DEF Progress, Evaluated
<1>7. Progress = [c \in Criteria |-> Evaluated(c, Progress)]
  <2>. HIDE DEF Progress
  <2>. QED  BY <1>5, <1>6
<1>. QED  BY <1>7

\* What is shown of a criterion tells whether it is met.
Tells(p) ==
    /\ p.eligible \in BOOLEAN
    /\ p.eligible <=> p.percent = 100
    /\ p.percent \in 0..100
    /\ p.target \in Nat
    /\ p.current \in 0..p.target

\* A share of a hundred is reached exactly when the target is.
LEMMA ShareOfTarget ==
  ASSUME NEW n \in Nat, NEW t \in Nat \ {0}
  PROVE  /\ (n * 100) \div t \in Nat
         /\ (n * 100) \div t >= 100 <=> n >= t
<1>. PICK q : q = (n * 100) \div t
  OBVIOUS
<1>1. q \in Int /\ t * q <= n * 100 /\ n * 100 < t * (q + 1)
  OBVIOUS
<1>2. q >= 0
  <2>1. q + 1 > 0
    <3>. SUFFICES ASSUME q + 1 <= 0 PROVE FALSE
      BY <1>1
    <3>1. t * (q + 1) <= 0
      BY <1>1
    <3>. QED  BY <1>1, <3>1
  <2>. QED  BY <1>1, <2>1
<1>3. ASSUME q >= 100 PROVE n >= t
  <2>1. t * q >= t * 100
    BY <1>1, <1>3
  <2>. QED  BY <1>1, <2>1
<1>4. ASSUME n >= t, ~(q >= 100) PROVE FALSE
  <2>1. q + 1 <= 100
    BY <1>1, <1>4
  <2>2. t * (q + 1) <= t * 100
    BY <1>1, <2>1
  <2>. QED  BY <1>1, <1>4, <2>2
<1>. QED  BY <1>1, <1>2, <1>3, <1>4

\* What is counted is a natural number.
LEMMA MetricIsNat ==
  ASSUME BadgeTypeOK, NEW field \in Fields, NEW days \in Nat
  PROVE  Metric(field, days) \in Nat
<1>. USE BadgeSetsAreFinite, BadgeBoundsAreNat
<1>1. IsFiniteSet(Completed) /\ IsFiniteSet(Within(days))
  BY FS_Subset DEF Completed, Within
<1>2. Cardinality({done[j] : j \in Within(days)}) \in Nat
  <2>1. {done[j] : j \in Within(days)} \in SUBSET (-1)..MaxAge
    BY DEF BadgeTypeOK, Within, Completed
  <2>2. IsFiniteSet((-1)..MaxAge)
    BY FS_Interval
  <2>. QED  BY <2>1, <2>2, FS_Subset, FS_CardinalityType
<1>3. Cardinality(Completed) \in Nat /\ Cardinality(Within(days)) \in Nat
  BY <1>1, FS_CardinalityType
<1>4. goalCount \in Nat
  BY DEF BadgeTypeOK
<1>. PICK G : G = [b \in DOMAIN badges |-> held[b] * badges[b].points]
  OBVIOUS
<1>. PICK H : H = [b \in DOMAIN badges |-> held[b]]
  OBVIOUS
<1>5. IsFiniteSet(DOMAIN badges) /\ DOMAIN badges \in SUBSET DOMAIN badges
  BY FS_Subset DEF BadgeTypeOK
<1>6. \A b \in DOMAIN badges : held[b] \in Nat /\ badges[b].points \in Nat
  BY DEF BadgeTypeOK
<1>7. \A b \in DOMAIN badges : G[b] \in Nat /\ H[b] \in Nat
  BY <1>6
<1>8. Total(G, DOMAIN badges) \in Nat /\ Total(H, DOMAIN badges) \in Nat
  BY <1>5, <1>7, TotalSums
<1>9. MapThenSumSet(LAMBDA b : held[b] * badges[b].points, DOMAIN badges) = Total(G, DOMAIN badges)
  BY DEF Total, MapThenSumSet, MapThenFoldSet
<1>10. MapThenSumSet(LAMBDA b : held[b], DOMAIN badges) = Total(H, DOMAIN badges)
  BY DEF Total, MapThenSumSet, MapThenFoldSet
<1>11. CASE field = "completed_bookings"
  BY <1>3, <1>11 DEF Metric
<1>12. CASE field = "completed_booking_days"
  BY <1>2, <1>12 DEF Metric
<1>13. CASE field = "goals"
  BY <1>4, <1>13 DEF Metric
<1>14. CASE field = "earned_badge_points"
  <2>1. Metric(field, days) = MapThenSumSet(LAMBDA b : held[b] * badges[b].points, DOMAIN badges)
    BY <1>14 DEF Metric
  <2>. QED  BY <1>8, <1>9, <2>1
<1>15. CASE field = "earned_badges"
  <2>1. Metric(field, days) = MapThenSumSet(LAMBDA b : held[b], DOMAIN badges)
    BY <1>15 DEF Metric
  <2>. QED  BY <1>8, <1>10, <2>1
<1>. QED  BY <1>11, <1>12, <1>13, <1>14, <1>15 DEF Fields

\* A percentage is capped at 100, which it shows from 100 on.
LEMMA LesserThanHundred ==
  ASSUME NEW q \in Nat
  PROVE  Lesser(q, 100) \in 0..100 /\ (Lesser(q, 100) = 100 <=> q >= 100)
  BY DEF Lesser

\* Criteria of one field show 100 per cent when they are met, and only then.
LEMMA LeafTells ==
  ASSUME BadgeTypeOK, NEW c \in Criteria, c.conditions = << >>
  PROVE  Tells(Leaf(c))
<1>. PICK n : n = Metric(c.field, c.halves \div 2)
  OBVIOUS
<1>1. c.field \in Fields /\ c.halves \in Nat /\ (c.type # "exists" => c.value \in Nat \ {0})
  BY CriteriaAreValid
<1>2. n \in Nat
  <2>1. c.halves \div 2 \in Nat
    BY <1>1
  <2>. QED  BY <1>1, <2>1, MetricIsNat
<1>3. CASE c.type = "exists"
  <2>1. /\ Leaf(c).eligible = (n >= 1)
        /\ Leaf(c).current = Lesser(n, 1) /\ Leaf(c).target = 1
        /\ Leaf(c).percent = IF n > 0 THEN 100 ELSE 0
    BY <1>3 DEF Leaf
  <2>2. Lesser(n, 1) \in 0..1 /\ (n >= 1 <=> n > 0)
    BY <1>2 DEF Lesser
  <2>3. (n >= 1) \in BOOLEAN
    OBVIOUS
  <2>4. Leaf(c).eligible \in BOOLEAN /\ (Leaf(c).eligible <=> n >= 1)
    BY <2>1, <2>3, Zenon
  <2>. QED  BY <1>2, <2>1, <2>2, <2>4 DEF Tells
<1>4. CASE c.type # "exists"
  <2>. PICK t : t = c.value
    OBVIOUS
  <2>. PICK q : q = (n * 100) \div t
    OBVIOUS
  <2>0. t \in Nat \ {0}
    BY <1>1, <1>4
  <2>1. /\ Leaf(c).eligible = (n >= t)
        /\ Leaf(c).current = Lesser(n, t) /\ Leaf(c).target = t
        /\ Leaf(c).percent = Lesser(q, 100)
    BY <1>4 DEF Leaf
  <2>2. q \in Nat /\ (q >= 100 <=> n >= t)
    BY <1>2, <2>0, ShareOfTarget
  <2>3. Lesser(n, t) \in 0..t
    BY <1>2, <2>0 DEF Lesser
  <2>4. Lesser(q, 100) \in 0..100 /\ (Lesser(q, 100) = 100 <=> q >= 100)
    BY <2>2, LesserThanHundred
  <2>5. (n >= t) \in BOOLEAN
    OBVIOUS
  <2>6. Leaf(c).eligible \in BOOLEAN /\ (Leaf(c).eligible <=> n >= t)
    BY <2>1, <2>5, Zenon
  <2>. QED  BY <2>0, <2>1, <2>2, <2>3, <2>4, <2>6 DEF Tells
<1>. QED  BY <1>3, <1>4

\* The greatest of some percentages is one of them.
LEMMA BestIsOne ==
  ASSUME NEW S \in SUBSET (0..100), S # {}
  PROVE  Max(S) \in S
<1> DEFINE R == {100 - p : p \in S}
<1>1. R \in SUBSET Nat /\ R # {}
  <2>1. \A p \in S : p \in 0..100 /\ 100 - p \in Nat
    OBVIOUS
  <2>. QED  BY <2>1
<1>2. PICK r \in R : \A q \in R : r <= q
  <2>. HIDE DEF R
  <2>. QED  BY <1>1, LeastOfSet
<1>3. PICK p \in S : r = 100 - p
  BY <1>2
<1>4. \A q \in S : p >= q
  <2>. SUFFICES ASSUME NEW q \in S PROVE p >= q
    OBVIOUS
  <2>1. r <= 100 - q
    BY <1>2
  <2>. QED  BY <1>3, <2>1
<1>. QED  BY <1>4 DEF Max

\* A share of the whole is 100 exactly when it is the whole.
LEMMA ShareOfWhole ==
  ASSUME NEW n \in Nat \ {0}, NEW k \in 0..n
  PROVE  /\ (k * 100) \div n \in 0..100
         /\ (k * 100) \div n = 100 <=> k = n
<1>. PICK q : q = (k * 100) \div n
  OBVIOUS
<1>1. q \in Int /\ n * q <= k * 100
  OBVIOUS
<1>2. q \in Nat /\ (q >= 100 <=> k >= n)
  BY ShareOfTarget
<1>3. q <= 100
  <2>. SUFFICES ASSUME q >= 101 PROVE FALSE
    BY <1>1
  <2>1. n * q >= n * 101
    BY <1>1
  <2>. QED  BY <1>1, <2>1
<1>. QED  BY <1>2, <1>3

AllTell(parts, n) == DOMAIN parts = 1..n /\ Len(parts) = n /\ \A i \in 1..n : Tells(parts[i])

\* Criteria of several parts tell whether they are met, when the parts do.
LEMMA CombinedTells ==
  ASSUME NEW c, c.type \in {"all", "any"}, NEW parts, NEW n \in Nat \ {0},
         AllTell(parts, n)
  PROVE  Tells(Combined(c, parts))
<1>. PICK met : met = {i \in DOMAIN parts : parts[i].eligible}
  OBVIOUS
<1>. PICK S : S = {parts[i].percent : i \in DOMAIN parts}
  OBVIOUS
<1>. PICK k : k = Cardinality(met)
  OBVIOUS
<1>0. DOMAIN parts = 1..n /\ Len(parts) = n /\ \A i \in 1..n : Tells(parts[i])
  BY DEF AllTell
<1>1. met \in SUBSET (1..n)
  BY <1>0
<1>2. IsFiniteSet(1..n) /\ Cardinality(1..n) = n
  BY FS_Interval
<1>3. k \in 0..n
  BY <1>1, <1>2, FS_Subset, FS_CardinalityType
<1>4. ASSUME NEW p \in S PROVE \E i \in 1..n : p = parts[i].percent
  BY <1>0
<1>5. CASE c.type = "any" /\ met # {}
  <2>1. /\ Combined(c, parts).eligible = (met # {}) /\ Combined(c, parts).current = 1
        /\ Combined(c, parts).target = 1 /\ Combined(c, parts).percent = 100
    BY <1>5 DEF Combined
  <2>2. Combined(c, parts).eligible
    BY <1>5, <2>1, Zenon
  <2>3. Combined(c, parts).eligible = TRUE
    BY <1>5, <2>1, Zenon
  <2>. QED  BY <2>1, <2>2, <2>3 DEF Tells
<1>6. CASE c.type = "any" /\ met = {}
  <2>1. /\ Combined(c, parts).eligible = (met # {}) /\ Combined(c, parts).current = 0
        /\ Combined(c, parts).target = 1 /\ Combined(c, parts).percent = Max(S)
    BY <1>6 DEF Combined
  <2>2. Combined(c, parts).eligible = FALSE
    BY <1>6, <2>1, Zenon
  <2>3. \A i \in 1..n : ~parts[i].eligible /\ parts[i].percent \in 0..100 /\ parts[i].percent # 100
    BY <1>0, <1>6 DEF Tells
  <2>4. \A p \in S : p \in 0..100 /\ p # 100
    <3>. SUFFICES ASSUME NEW p \in S PROVE p \in 0..100 /\ p # 100
      OBVIOUS
    <3>1. PICK i \in 1..n : p = parts[i].percent
      BY <1>4
    <3>. QED  BY <2>3, <3>1
  <2>5. S \in SUBSET (0..100) /\ S # {}
    <3>1. 1 \in DOMAIN parts
      BY <1>0
    <3>. QED  BY <2>4, <3>1
  <2>6. Max(S) \in S
    BY <2>5, BestIsOne
  <2>. PICK m : m = Max(S)
    OBVIOUS
  <2>7. m \in 0..100 /\ m # 100
    BY <2>4, <2>6
  <2>8. Combined(c, parts).percent = m
    BY <2>1
  <2>9. Combined(c, parts).eligible \in BOOLEAN /\ ~Combined(c, parts).eligible
    BY <2>2, Zenon
  <2>. PICK p : p = Combined(c, parts)
    OBVIOUS
  <2>10. p.current \in 0..p.target /\ p.target \in Nat
    BY <2>1
  <2>11. p.percent \in 0..100 /\ p.percent # 100
    BY <2>7, <2>8
  <2>12. p.eligible \in BOOLEAN /\ ~p.eligible
    BY <2>9
  <2>. QED  BY <2>10, <2>11, <2>12 DEF Tells
<1>7. CASE c.type = "all"
  <2>. PICK q : q = (k * 100) \div n
    OBVIOUS
  <2>1. /\ Combined(c, parts).eligible = (k = n) /\ Combined(c, parts).current = k
        /\ Combined(c, parts).target = n /\ Combined(c, parts).percent = q
    BY <1>0, <1>7 DEF Combined
  <2>2. (k = n) \in BOOLEAN
    OBVIOUS
  <2>3. Combined(c, parts).eligible \in BOOLEAN /\ (Combined(c, parts).eligible <=> k = n)
    BY <2>1, <2>2, Zenon
  <2>4. q \in 0..100 /\ (q = 100 <=> k = n)
    BY <1>3, ShareOfWhole
  <2>. QED  BY <1>3, <2>1, <2>3, <2>4 DEF Tells
<1>. QED  BY <1>5, <1>6, <1>7

\* The percentage shown for any criteria is 100 exactly when the badge can be claimed.
LEMMA EveryCriterionTells == ASSUME BadgeTypeOK PROVE \A c \in Criteria : Tells(Progress[c])
<1> DEFINE U == {c \in Criteria : ~Tells(Progress[c])}
<1>. SUFFICES ASSUME U # {} PROVE FALSE
  OBVIOUS
<1>1. PICK c \in U : \A i \in DOMAIN c.conditions : c.conditions[i] \notin U
  <2>1. U \in SUBSET Criteria
    OBVIOUS
  <2>. HIDE DEF U
  <2>. QED  BY <2>1, PartsComeFirst
<1>2. c \in Criteria /\ Progress[c] = Evaluated(c, Progress) /\ ~Tells(Progress[c])
  BY ProgressIsEvaluated
<1>3. CASE c.conditions = << >>
  <2>1. Progress[c] = Leaf(c)
    BY <1>2, <1>3 DEF Evaluated
  <2>. QED  BY <1>2, <1>3, <2>1, LeafTells
<1>4. CASE c.conditions # << >>
  <2>. PICK cs : cs = c.conditions
    OBVIOUS
  <2>. PICK parts : parts = [i \in DOMAIN cs |-> Progress[cs[i]]]
    OBVIOUS
  <2>1. cs \in Seq(Criteria) /\ cs # << >> /\ c.type \in {"all", "any"}
    BY <1>2, <1>4, CriteriaAreValid
  <2>. PICK n : n = Len(cs)
    OBVIOUS
  <2>2. n \in Nat \ {0} /\ DOMAIN cs = 1..n
    BY <2>1
  <2>3. DOMAIN parts = 1..n /\ Len(parts) = n
    BY <2>1, <2>2
  <2>4. \A i \in 1..n : Tells(parts[i])
    <3>. SUFFICES ASSUME NEW i \in 1..n PROVE Tells(Progress[cs[i]])
      BY <2>2
    <3>1. cs[i] \in Criteria /\ cs[i] \notin U
      BY <1>1, <2>1, <2>2
    <3>. QED  BY <3>1
  <2>5. Progress[c] = Combined(c, parts)
    BY <1>2, <1>4 DEF Evaluated
  <2>6. Tells(Combined(c, parts))
    <3>1. AllTell(parts, n)
      BY <2>3, <2>4 DEF AllTell
    <3>. QED  BY <2>1, <2>2, <3>1, CombinedTells
  <2>. QED  BY <1>2, <2>5, <2>6
<1>. QED  BY <1>3, <1>4

\* The percentage shown for any criteria, however nested, is 100 exactly when the
\* badge can be claimed, and the part done never passes its target.
THEOREM PercentIsHonest == BadgeSpec => []PercentTellsEligible
<1>1. BadgeInv => PercentTellsEligible
  <2>1. BadgeInv => \A c \in Criteria : Tells(Progress[c])
    BY EveryCriterionTells DEF BadgeInv
  <2>. QED  BY <2>1 DEF PercentTellsEligible, Tells
<1>. QED  BY <1>1, BadgeInitInv, BadgeNextInv, PTL DEF BadgeSpec

-----------------------------------------------------------------------------
(* Messaging: the conversation of a pair, and the room of a conversation.  *)

Posting == {"text_touch", "text_emit"}

\* A conversation is made by one call at a time and while there is none.
PairInv ==
    ~seen.met =>
        /\ \A x, y \in InFlight("thread_make") : x = y
        /\ InFlight("thread_make") # {} => threads = {}
        /\ \A c, d \in threads : c = d

\* The client in the room has each message, or will hear of it from its call.
RoomInv ==
    /\ \A m, n \in texts : m.id = n.id => m = n
    /\ view.whole => \A m \in texts : m.thread = view.room =>
          \/ m.id \in view.texts \cup seen.unsaid
          \/ \E y \in Chats : chats[y].pc \in Posting /\ chats[y].text = m.id /\ chats[y].thread = m.thread

\* The other parts of the chat leave conversations, messages and their calls alone.
Talking == {"thread_make", "text_touch", "text_emit"}

\* Presence and notifications leave the conversations alone.
LEMMA OthersLeaveThreads ==
  ASSUME ChatTypeInv, PresenceNext \/ NoteNext \/ UNCHANGED chatVars
  PROVE  /\ UNCHANGED <<threads, texts, view>> /\ seen'.met = seen.met /\ seen'.unsaid = seen.unsaid
         /\ \A y \in Chats : chats[y].pc \in Talking \/ chats'[y].pc \in Talking => chats'[y] = chats[y]
<1>0. chats \in [Chats -> Chat] /\ seen \in Seen
  BY DEF ChatTypeInv, ChatTypeOK
<1>1. CASE PresenceNext
  <2>1. UNCHANGED <<threads, texts, view, chats>>
    BY <1>1 DEF PresenceNext, HandleConnection, HandleDisconnect, UpdateUserStatus, ThreadVars
  <2>2. seen'.met = seen.met /\ seen'.unsaid = seen.unsaid
    <3>1. CASE seen' = seen
      BY <3>1
    <3>2. ASSUME NEW u, NEW s, NEW o, StatusWrite(u, s, o) PROVE seen'.met = seen.met /\ seen'.unsaid = seen.unsaid
      BY <1>0, <3>2 DEF StatusWrite, Seen
    <3>. QED  BY <1>1, <3>1, <3>2 DEF PresenceNext, HandleConnection, HandleDisconnect, UpdateUserStatus
  <2>. QED  BY <2>1, <2>2
<1>2. CASE UNCHANGED chatVars
  BY <1>2 DEF chatVars
<1>3. ASSUME NEW x \in Chats, NEW l, chats' = [chats EXCEPT ![x] = l], chats[x].pc \notin Talking,
             l.pc \notin Talking
      PROVE  \A y \in Chats : chats[y].pc \in Talking \/ chats'[y].pc \in Talking => chats'[y] = chats[y]
  BY <1>0, <1>3
<1>4. ASSUME NEW x \in Chats, NEW c \in Chat, NEW next \in {"pref_find", "note_find"}, Begin(x, c, next)
      PROVE  \E l : chats' = [chats EXCEPT ![x] = l] /\ l.pc \notin Talking
  <2>1. CASE setting
    <3> DEFINE l == [c EXCEPT !.pc = next]
    <3>1. chats' = [chats EXCEPT ![x] = l]
      BY <1>4, <2>1 DEF Begin
    <3>2. l.pc \notin Talking
      BY DEF Chat, Talking
    <3>. HIDE DEF l
    <3>. QED  BY <3>1, <3>2
  <2>2. CASE ~setting
    <3> DEFINE l == [c EXCEPT !.pc = "setting_make", !.next = next]
    <3>1. chats' = [chats EXCEPT ![x] = l]
      BY <1>4, <2>2 DEF Begin
    <3>2. l.pc \notin Talking
      BY DEF Chat, Talking
    <3>. HIDE DEF l
    <3>. QED  BY <3>1, <3>2
  <2>. QED  BY <2>1, <2>2
<1>5. NoChat \in Chat /\ NoChat.pc \notin Talking
  BY NoChatType DEF NoChat, Talking
<1>6. ASSUME NEW x \in Chats, NEW u \in People,
             SendNotification(x, u) \/ (\E on \in BOOLEAN : SetNotificationEnabled(x, u, on))
      PROVE  /\ \E l : chats' = [chats EXCEPT ![x] = l] /\ l.pc \notin Talking
             /\ chats[x].pc \notin Talking
             /\ UNCHANGED <<threads, texts, view>> /\ seen'.met = seen.met /\ seen'.unsaid = seen.unsaid
  <2>1. CASE SendNotification(x, u)
    <3> DEFINE c(q) == [NoChat EXCEPT !.user = u, !.quiet = q]
    <3>1. \A q \in BOOLEAN : c(q) \in Chat
      BY DEF NoChat, Chat
    <3>2. (u \in seen.silent) \in BOOLEAN
      OBVIOUS
    <3>3. c(u \in seen.silent) \in Chat /\ Begin(x, c(u \in seen.silent), "note_find")
      BY <2>1, <3>1, <3>2, Zenon DEF SendNotification
    <3>. QED  BY <2>1, <3>3, <1>4 DEF SendNotification, ChatAt, Talking, ThreadVars
  <2>2. ASSUME NEW on \in BOOLEAN, SetNotificationEnabled(x, u, on)
        PROVE  /\ \E l : chats' = [chats EXCEPT ![x] = l] /\ l.pc \notin Talking
               /\ chats[x].pc \notin Talking
               /\ UNCHANGED <<threads, texts, view>> /\ seen'.met = seen.met /\ seen'.unsaid = seen.unsaid
    <3> DEFINE c == [NoChat EXCEPT !.user = u, !.on = on]
    <3>1. c \in Chat
      BY DEF NoChat, Chat
    <3>2. Begin(x, c, "pref_find")
      BY <2>2 DEF SetNotificationEnabled
    <3>3. seen'.met = seen.met /\ seen'.unsaid = seen.unsaid
      BY <1>0, <2>2 DEF SetNotificationEnabled, Seen
    <3>4. \E l : chats' = [chats EXCEPT ![x] = l] /\ l.pc \notin Talking
      BY <3>1, <3>2, <1>4
    <3>. QED  BY <2>2, <3>3, <3>4 DEF SetNotificationEnabled, ChatAt, Talking, ThreadVars
  <2>. QED  BY <1>6, <2>1, <2>2
<1>7. ASSUME NEW x \in Chats, SettingMake(x) \/ PrefFind(x) \/ PrefWrite(x) \/ NoteFind(x) \/ NoteMake(x)
      PROVE  /\ chats'[x].pc \notin Talking /\ chats[x].pc \notin Talking
             /\ \A y \in Chats : y # x => chats'[y] = chats[y]
             /\ UNCHANGED <<threads, texts, view>> /\ seen'.met = seen.met /\ seen'.unsaid = seen.unsaid
  <2>0. chats[x] \in Chat /\ chats[x].next \in {"idle", "pref_find", "note_find"}
    BY <1>0 DEF Chat
  <2>1. ASSUME ChatEnds(x)
        PROVE  chats'[x].pc \notin Talking /\ \A y \in Chats : y # x => chats'[y] = chats[y]
    BY <2>1, <1>0, <1>5 DEF ChatEnds
  <2>2. CASE SettingMake(x)
    <3>1. chats' = [chats EXCEPT ![x].pc = chats[x].next, ![x].next = "idle"] \/ ChatEnds(x)
      BY <2>2 DEF SettingMake
    <3>2. chats[x].pc \notin Talking /\ UNCHANGED <<threads, texts, view, seen>>
      BY <2>2 DEF SettingMake, ChatAt, Talking, ThreadVars
    <3>3. chats'[x].pc \notin Talking /\ \A y \in Chats : y # x => chats'[y] = chats[y]
      BY <3>1, <2>0, <2>1, <1>0, <1>5 DEF ChatEnds, Talking, Chat
    <3>. QED  BY <3>2, <3>3
  <2>3. CASE PrefFind(x)
    <3>1. PICK i : chats' = [chats EXCEPT ![x].pc = "pref_write"]
                   \/ chats' = [chats EXCEPT ![x].pc = "pref_write", ![x].pref = i]
      BY <2>3 DEF PrefFind
    <3>. QED  BY <3>1, <2>0, <2>3, <1>0 DEF PrefFind, ChatAt, Talking, ThreadVars, Chat
  <2>4. CASE PrefWrite(x)
    <3>1. seen'.met = seen.met /\ seen'.unsaid = seen.unsaid
      BY <2>4, <1>0 DEF PrefWrite, Silenced, Seen
    <3>. QED  BY <2>4, <3>1, <1>0, <1>5 DEF PrefWrite, ChatEnds, ChatAt, Talking, ThreadVars
  <2>5. CASE NoteFind(x)
    <3> DEFINE q == chats[x].quiet /\ chats[x].user \in seen.silent
    <3>1. chats' = [chats EXCEPT ![x].pc = "note_make", ![x].quiet = q] \/ ChatEnds(x)
      BY <2>5 DEF NoteFind
    <3>. HIDE DEF q
    <3>2. chats[x].pc \notin Talking /\ UNCHANGED <<threads, texts, view, seen>>
      BY <2>5 DEF NoteFind, ChatAt, Talking, ThreadVars
    <3>3. chats'[x].pc \notin Talking /\ \A y \in Chats : y # x => chats'[y] = chats[y]
      BY <3>1, <2>0, <1>0, <1>5 DEF ChatEnds, Talking, Chat
    <3>. QED  BY <3>2, <3>3
  <2>6. CASE NoteMake(x)
    BY <2>6, <1>0, <1>5 DEF NoteMake, ChatEnds, ChatAt, Talking, ThreadVars
  <2>. QED  BY <1>7, <2>2, <2>3, <2>4, <2>5, <2>6
<1>8. CASE NoteNext
  BY <1>8, <1>3, <1>6, <1>7 DEF NoteNext
<1>. QED  BY <1>1, <1>2, <1>8

\* Every step keeps one conversation per pair.
LEMMA PairNext ==
  ASSUME ChatTypeInv, PairInv, [ChatNext]_chatVars PROVE PairInv'
<1>0. chats \in [Chats -> Chat] /\ seen \in Seen /\ NoChat.pc = "idle"
  BY DEF ChatTypeInv, ChatTypeOK, NoChat
<1>1. ASSUME seen'.met = seen.met, threads' \subseteq threads,
             \A y \in Chats : chats'[y].pc = "thread_make" => chats[y].pc = "thread_make"
      PROVE  PairInv'
  <2>1. InFlight("thread_make")' \subseteq InFlight("thread_make")
    BY <1>1 DEF InFlight, ChatAt
  <2>. QED  BY <1>1, <2>1 DEF PairInv
<1>2. CASE PresenceNext \/ NoteNext \/ UNCHANGED chatVars
  BY <1>1, <1>2, OthersLeaveThreads DEF Talking
<1>3. ASSUME NEW x \in Chats, CreateThread(x) PROVE PairInv'
  <2>1. /\ threads = {} /\ threads' = {} /\ chats' = [chats EXCEPT ![x].pc = "thread_make"]
        /\ seen' = [seen EXCEPT !.met = InFlight("thread_make") # {}]
    BY <1>3 DEF CreateThread, ThreadVars
  <2>2. seen'.met <=> InFlight("thread_make") # {}
    BY <2>1, <1>0, Zenon DEF Seen
  <2>3. InFlight("thread_make")' \subseteq InFlight("thread_make") \cup {x}
    BY <2>1, <1>0 DEF InFlight, ChatAt
  <2>. QED  BY <2>1, <2>2, <2>3 DEF PairInv
<1>4. ASSUME NEW x \in Chats, ThreadMake(x) PROVE PairInv'
  <2>1. PICK c \in Threads : threads' = threads \cup {c}
    BY <1>4 DEF ThreadMake
  <2>2. x \in InFlight("thread_make") /\ seen' = seen /\ chats' = [chats EXCEPT ![x] = NoChat]
    BY <1>4 DEF ThreadMake, InFlight, ChatEnds
  <2>3. InFlight("thread_make")' = InFlight("thread_make") \ {x}
    BY <2>2, <1>0 DEF InFlight, ChatAt
  <2>. QED  BY <2>1, <2>2, <2>3 DEF PairInv
<1>5. ASSUME NEW x \in Chats, NEW c \in Threads, CreateText(x, c) PROVE PairInv'
  <2> DEFINE l == [NoChat EXCEPT !.pc = "text_store", !.thread = c]
  <2>1. l.pc = "text_store"
    BY DEF NoChat
  <2>2. chats' = [chats EXCEPT ![x] = l] /\ threads' = threads /\ seen' = seen
    BY <1>5 DEF CreateText, ThreadVars
  <2>. HIDE DEF l
  <2>. QED  BY <2>1, <2>2, <1>0, <1>1
<1>6. ASSUME NEW x \in Chats, TextStore(x) PROVE PairInv'
  <2>1. PICK i : \/ chats' = [chats EXCEPT ![x].pc = "text_touch", ![x].text = i]
                 \/ chats' = [chats EXCEPT ![x] = NoChat]
    BY <1>6 DEF TextStore, ChatEnds
  <2>2. \A y \in Chats : chats'[y].pc = "thread_make" => chats[y].pc = "thread_make"
    BY <2>1, <1>0 DEF Chat
  <2>. QED  BY <1>6, <2>2, <1>1 DEF TextStore
<1>7. ASSUME NEW x \in Chats, TextTouch(x) \/ TextEmit(x) PROVE PairInv'
  <2>1. chats' = [chats EXCEPT ![x].pc = "text_emit"] \/ chats' = [chats EXCEPT ![x] = NoChat]
    BY <1>7 DEF TextTouch, TextEmit, ChatEnds
  <2>2. \A y \in Chats : chats'[y].pc = "thread_make" => chats[y].pc = "thread_make"
    BY <2>1, <1>0 DEF Chat
  <2>3. seen'.met = seen.met /\ threads' = threads
    BY <1>0, <1>7 DEF TextTouch, TextEmit, ThreadVars, Seen
  <2>. QED  BY <2>2, <2>3, <1>1
<1>8. ASSUME NEW c \in Threads, RemoveThread(c) \/ HandleRoomJoin(c) \/ GetAllMessages(c) PROVE PairInv'
  BY <1>8, <1>1 DEF RemoveThread, HandleRoomJoin, GetAllMessages
<1>9. CASE ViewerLost
  BY <1>9, <1>1 DEF ViewerLost
<1>10. ASSUME NEW m, NEW st, UpdateMessageStatus(m, st) PROVE PairInv'
  BY <1>10, <1>1 DEF UpdateMessageStatus
<1>. QED
  BY <1>2, <1>3, <1>4, <1>5, <1>6, <1>7, <1>8, <1>9, <1>10 DEF ChatNext, ThreadNext

\* Unless two calls that make it overlap, a coach and an athlete have one conversation
\* (ConversationService.create looks for it in either order before it makes it).
THEOREM PairHasOneConversation == ChatSpec => []OneConversationPerPair
<1>1. ChatInit => PairInv
  BY DEF ChatInit, PairInv, InFlight, ChatAt, NoChat
<1>2. PairInv => OneConversationPerPair
  <2>. SUFFICES ASSUME PairInv, ~seen.met PROVE ~(Cardinality(threads) > 1)
    BY DEF OneConversationPerPair
  <2>1. CASE threads = {}
    BY <2>1, FS_EmptySet
  <2>2. ASSUME NEW c \in threads PROVE ~(Cardinality(threads) > 1)
    <3>1. threads = {c}
      BY <2>2 DEF PairInv
    <3>. QED  BY <3>1, FS_Singleton
  <2>. QED  BY <2>1, <2>2
<1>3. ChatTypeInv /\ PairInv /\ [ChatNext]_chatVars => PairInv'
  BY PairNext
<1>. QED  BY <1>1, <1>2, <1>3, ChatInitTypes, ChatNextTypes, PTL DEF ChatSpec

\* The messages stay what they are, and those who post them go on.
LEMMA RoomStays ==
  ASSUME RoomInv, texts' \subseteq texts, view'.whole => view.whole /\ view'.room = view.room,
         view'.whole => \A m \in texts' : m.thread = view.room /\ m.id \in view.texts => m.id \in view'.texts,
         seen'.unsaid = seen.unsaid,
         \A y \in Chats : chats[y].pc \in Posting => chats'[y].pc \in Posting
                             /\ chats'[y].text = chats[y].text /\ chats'[y].thread = chats[y].thread
  PROVE  RoomInv'
<1>1. \A m, n \in texts' : m.id = n.id => m = n
  BY DEF RoomInv
<1>2. ASSUME view'.whole, NEW m \in texts', m.thread = view'.room
      PROVE  \/ m.id \in view'.texts \cup seen'.unsaid
             \/ \E y \in Chats : chats'[y].pc \in Posting /\ chats'[y].text = m.id /\ chats'[y].thread = m.thread
  <2>1. m \in texts /\ view.whole /\ m.thread = view.room
    BY <1>2
  <2>2. \/ m.id \in view.texts \cup seen.unsaid
        \/ \E y \in Chats : chats[y].pc \in Posting /\ chats[y].text = m.id /\ chats[y].thread = m.thread
    BY <2>1 DEF RoomInv
  <2>. QED  BY <2>1, <2>2, <1>2
<1>. QED  BY <1>1, <1>2 DEF RoomInv

\* Every step keeps a reader's room complete.
LEMMA RoomNext ==
  ASSUME ChatTypeInv, RoomInv, [ChatNext]_chatVars PROVE RoomInv'
<1>0. /\ chats \in [Chats -> Chat] /\ seen \in Seen /\ view \in View /\ texts \subseteq Text
      /\ NoChat.pc = "idle" /\ \A x \in Chats : chats[x] \in Chat /\ Carries(chats[x])
  BY DEF ChatTypeInv, ChatTypeOK, NoChat
<1>1. CASE PresenceNext \/ NoteNext \/ UNCHANGED chatVars
  BY <1>1, RoomStays, OthersLeaveThreads DEF Talking, Posting
<1>2. ASSUME NEW x \in Chats, CreateThread(x) PROVE RoomInv'
  <2>1. /\ chats[x].pc = "idle" /\ chats' = [chats EXCEPT ![x].pc = "thread_make"]
        /\ seen' = [seen EXCEPT !.met = InFlight("thread_make") # {}] /\ UNCHANGED <<texts, view>>
    BY <1>2 DEF CreateThread, ChatAt, ThreadVars
  <2>2. seen'.unsaid = seen.unsaid
    BY <2>1, <1>0 DEF Seen
  <2>3. \A y \in Chats : chats[y].pc \in Posting => chats'[y] = chats[y]
    BY <2>1, <1>0 DEF Posting
  <2>. QED  BY <2>1, <2>2, <2>3, RoomStays
<1>3. ASSUME NEW x \in Chats, ThreadMake(x) PROVE RoomInv'
  <2>1. /\ chats[x].pc = "thread_make" /\ chats' = [chats EXCEPT ![x] = NoChat]
        /\ UNCHANGED <<texts, view, seen>>
    BY <1>3 DEF ThreadMake, ChatAt, ChatEnds
  <2>2. \A y \in Chats : chats[y].pc \in Posting => chats'[y] = chats[y]
    BY <2>1, <1>0 DEF Posting
  <2>. QED  BY <2>1, <2>2, RoomStays
<1>4. ASSUME NEW x \in Chats, NEW c \in Threads, CreateText(x, c) PROVE RoomInv'
  <2>1. /\ chats[x].pc = "idle" /\ UNCHANGED <<texts, view, seen>>
        /\ \A y \in Chats : y # x => chats'[y] = chats[y]
    BY <1>4, <1>0 DEF CreateText, ChatAt, ThreadVars
  <2>2. \A y \in Chats : chats[y].pc \in Posting => chats'[y] = chats[y]
    BY <2>1 DEF Posting
  <2>. QED  BY <2>1, <2>2, RoomStays
<1>5. ASSUME NEW x \in Chats, TextStore(x) PROVE RoomInv'
  <2>0. chats[x].pc = "text_store" /\ UNCHANGED <<view, seen>>
    BY <1>5 DEF TextStore, ChatAt
  <2>1. CASE chats[x].thread \in threads
    <3>1. PICK i \in Texts \ {m.id : m \in texts} :
            /\ texts' = texts \cup {[id |-> i, thread |-> chats[x].thread, status |-> "SENT"]}
            /\ chats' = [chats EXCEPT ![x].pc = "text_touch", ![x].text = i]
      BY <1>5, <2>1 DEF TextStore
    <3>2. /\ chats'[x].pc = "text_touch" /\ chats'[x].text = i /\ chats'[x].thread = chats[x].thread
          /\ \A y \in Chats : y # x => chats'[y] = chats[y]
      BY <3>1, <1>0 DEF Chat
    <3>3. PICK t : t = [id |-> i, thread |-> chats[x].thread, status |-> "SENT"]
      OBVIOUS
    <3>4. texts' = texts \cup {t} /\ t.id = i /\ t.thread = chats[x].thread
      BY <3>1, <3>3
    <3>5. \A m, n \in texts' : m.id = n.id => m = n
      BY <3>1, <3>4 DEF RoomInv
    <3>6. ASSUME view'.whole, NEW m \in texts', m.thread = view'.room
          PROVE  \/ m.id \in view'.texts \cup seen'.unsaid
                 \/ \E y \in Chats : chats'[y].pc \in Posting /\ chats'[y].text = m.id /\ chats'[y].thread = m.thread
      <4>1. CASE m = t
        BY <4>1, <3>2, <3>4 DEF Posting
      <4>2. CASE m \in texts
        <5>1. \/ m.id \in view.texts \cup seen.unsaid
              \/ \E y \in Chats : chats[y].pc \in Posting /\ chats[y].text = m.id /\ chats[y].thread = m.thread
          BY <4>2, <3>6, <2>0 DEF RoomInv
        <5>2. \A y \in Chats : chats[y].pc \in Posting => y # x
          BY <2>0 DEF Posting
        <5>. QED  BY <5>1, <5>2, <2>0, <3>2
      <4>. QED  BY <3>4, <4>1, <4>2
    <3>. QED  BY <3>5, <3>6 DEF RoomInv
  <2>2. CASE chats[x].thread \notin threads
    <3>1. chats' = [chats EXCEPT ![x] = NoChat] /\ texts' = texts
      BY <1>5, <2>2 DEF TextStore, ChatEnds
    <3>2. \A y \in Chats : chats[y].pc \in Posting => chats'[y] = chats[y]
      BY <2>0, <3>1, <1>0 DEF Posting
    <3>. QED  BY <2>0, <3>1, <3>2, RoomStays
  <2>. QED  BY <2>1, <2>2
<1>6. ASSUME NEW x \in Chats, TextTouch(x) PROVE RoomInv'
  <2>0. chats[x].pc = "text_touch" /\ UNCHANGED <<view, texts>>
    BY <1>6 DEF TextTouch, ChatAt, ThreadVars
  <2>1. CASE chats' = [chats EXCEPT ![x].pc = "text_emit"] /\ UNCHANGED seen
    <3>1. \A y \in Chats : chats[y].pc \in Posting => chats'[y].pc \in Posting
                             /\ chats'[y].text = chats[y].text /\ chats'[y].thread = chats[y].thread
      BY <2>1, <1>0 DEF Posting, Chat
    <3>. QED  BY <2>0, <2>1, <3>1, RoomStays
  <2>2. CASE ChatEnds(x) /\ seen' = [seen EXCEPT !.unsaid = seen.unsaid \cup {chats[x].text}]
    <3>1. seen'.unsaid = seen.unsaid \cup {chats[x].text}
      BY <2>2, <1>0 DEF Seen
    <3>2. \A y \in Chats : y # x => chats'[y] = chats[y]
      BY <2>2, <1>0 DEF ChatEnds
    <3>3. ASSUME view'.whole, NEW m \in texts', m.thread = view'.room
          PROVE  \/ m.id \in view'.texts \cup seen'.unsaid
                 \/ \E y \in Chats : chats'[y].pc \in Posting /\ chats'[y].text = m.id /\ chats'[y].thread = m.thread
      <4>1. \/ m.id \in view.texts \cup seen.unsaid
            \/ \E y \in Chats : chats[y].pc \in Posting /\ chats[y].text = m.id /\ chats[y].thread = m.thread
        BY <3>3, <2>0 DEF RoomInv
      <4>. QED  BY <4>1, <2>0, <3>1, <3>2
    <3>. QED  BY <2>0, <3>3 DEF RoomInv
  <2>. QED  BY <1>6, <2>1, <2>2 DEF TextTouch
<1>7. ASSUME NEW x \in Chats, TextEmit(x) PROVE RoomInv'
  <2>1. /\ chats[x].pc = "text_emit" /\ UNCHANGED <<texts, seen>>
        /\ view' = IF view.room = chats[x].thread THEN [view EXCEPT !.texts = view.texts \cup {chats[x].text}]
                   ELSE view
        /\ \A y \in Chats : y # x => chats'[y] = chats[y]
    BY <1>7, <1>0 DEF TextEmit, ChatAt, ChatEnds
  <2>2. /\ view'.room = view.room /\ view'.whole = view.whole /\ view.texts \subseteq view'.texts
        /\ (view.room = chats[x].thread => chats[x].text \in view'.texts)
    BY <2>1, <1>0 DEF View
  <2>3. ASSUME view'.whole, NEW m \in texts', m.thread = view'.room
        PROVE  \/ m.id \in view'.texts \cup seen'.unsaid
               \/ \E y \in Chats : chats'[y].pc \in Posting /\ chats'[y].text = m.id /\ chats'[y].thread = m.thread
    <3>1. \/ m.id \in view.texts \cup seen.unsaid
          \/ \E y \in Chats : chats[y].pc \in Posting /\ chats[y].text = m.id /\ chats[y].thread = m.thread
      BY <2>1, <2>2, <2>3 DEF RoomInv
    <3>. QED  BY <3>1, <2>1, <2>2, <2>3
  <2>. QED  BY <2>1, <2>3 DEF RoomInv
<1>8. ASSUME NEW c \in Threads, RemoveThread(c) PROVE RoomInv'
  <2>1. /\ texts' = {m \in texts : m.thread # c} /\ UNCHANGED <<chats, seen>>
        /\ view' = [view EXCEPT !.texts = view.texts \ {m.id : m \in texts \ texts'}]
    BY <1>8 DEF RemoveThread
  <2>2. view'.room = view.room /\ view'.whole = view.whole
        /\ view'.texts = view.texts \ {m.id : m \in texts \ texts'}
    BY <2>1, <1>0 DEF View
  <2>3. \A m \in texts' : m.id \notin {n.id : n \in texts \ texts'}
    BY <2>1 DEF RoomInv
  <2>4. texts' \subseteq texts
    BY <2>1
  <2>. QED  BY <2>1, <2>2, <2>3, <2>4, RoomStays
<1>9. ASSUME NEW c \in Threads, HandleRoomJoin(c) PROVE RoomInv'
  <2>1. ~view'.whole /\ UNCHANGED <<texts, chats, seen>>
    BY <1>9, <1>0 DEF HandleRoomJoin, View
  <2>. QED  BY <2>1 DEF RoomInv
<1>10. ASSUME NEW c \in Threads, GetAllMessages(c) PROVE RoomInv'
  <2> DEFINE ids == {m.id : m \in {t \in texts : t.thread = c}}
             w == view.whole \/ view.room = c
  <2>1. view' = [view EXCEPT !.texts = view.texts \cup ids, !.whole = w] /\ UNCHANGED <<texts, chats, seen>>
    BY <1>10 DEF GetAllMessages
  <2>2. \A m \in texts : m.thread = c => m.id \in ids
    OBVIOUS
  <2>3. w => view.whole \/ view.room = c
    OBVIOUS
  <2>. HIDE DEF ids, w
  <2>4. view'.room = view.room /\ view'.texts = view.texts \cup ids /\ view'.whole = w
    BY <2>1, <1>0 DEF View
  <2>5. ASSUME w, NEW m \in texts, m.thread = view.room
        PROVE  \/ m.id \in view'.texts \cup seen.unsaid
               \/ \E y \in Chats : chats[y].pc \in Posting /\ chats[y].text = m.id /\ chats[y].thread = m.thread
    <3>1. CASE view.whole
      <4>1. \/ m.id \in view.texts \cup seen.unsaid
            \/ \E y \in Chats : chats[y].pc \in Posting /\ chats[y].text = m.id /\ chats[y].thread = m.thread
        BY <2>5, <3>1 DEF RoomInv
      <4>. QED  BY <4>1, <2>4
    <3>2. CASE view.room = c
      BY <3>2, <2>2, <2>4, <2>5
    <3>. QED  BY <2>3, <2>5, <3>1, <3>2
  <2>6. \A m, n \in texts : m.id = n.id => m = n
    BY DEF RoomInv
  <2>. QED  BY <2>1, <2>4, <2>5, <2>6 DEF RoomInv
<1>11. CASE ViewerLost
  <2>1. ~view'.whole /\ UNCHANGED <<texts, chats, seen>>
    BY <1>11 DEF ViewerLost, NoView
  <2>. QED  BY <2>1 DEF RoomInv
<1>12. ASSUME NEW m \in texts, NEW st \in {"SENT", "DELIVERED", "READ"}, UpdateMessageStatus(m, st)
       PROVE  RoomInv'
  <2>1. PICK t : t = [m EXCEPT !.status = st]
    OBVIOUS
  <2>2. texts' = (texts \ {m}) \cup {t} /\ UNCHANGED <<view, chats, seen>>
    BY <1>12, <2>1 DEF UpdateMessageStatus
  <2>3. t.id = m.id /\ t.thread = m.thread
    BY <2>1, <1>0 DEF Text
  <2>4. \A n, o \in texts : n.id = o.id => n = o
    BY DEF RoomInv
  <2>5. \A n, o \in texts' : n.id = o.id => n = o
    BY <2>2, <2>3, <2>4
  <2>6. ASSUME view.whole, NEW n \in texts', n.thread = view.room
        PROVE  \/ n.id \in view.texts \cup seen.unsaid
               \/ \E y \in Chats : chats[y].pc \in Posting /\ chats[y].text = n.id /\ chats[y].thread = n.thread
    <3>1. PICK o \in texts : o.id = n.id /\ o.thread = n.thread
      BY <2>2, <2>3
    <3>. QED  BY <3>1, <2>6 DEF RoomInv
  <2>. QED  BY <2>2, <2>5, <2>6 DEF RoomInv
<1>. QED
  BY <1>1, <1>2, <1>3, <1>4, <1>5, <1>6, <1>7, <1>8, <1>9, <1>10, <1>11, <1>12 DEF ChatNext, ThreadNext

\* A client who joined a room before he read its history has each stored message of
\* it once nobody is sending one, but those whose call failed after storing them
\* (MessageService.create, the gateway's join and findAll).
THEOREM RoomIsComplete == ChatSpec => []RoomMissesNothing
<1>1. ChatInit => RoomInv
  BY DEF ChatInit, RoomInv, NoView
<1>2. RoomInv => RoomMissesNothing
  <2>. SUFFICES ASSUME RoomInv, view.whole, InFlight("text_touch") \cup InFlight("text_emit") = {},
                       NEW m \in texts, m.thread = view.room
                PROVE  m.id \in view.texts \cup seen.unsaid
    BY DEF RoomMissesNothing
  <2>1. \A y \in Chats : chats[y].pc \notin Posting
    BY DEF InFlight, ChatAt, Posting
  <2>. QED  BY <2>1 DEF RoomInv
<1>3. ChatTypeInv /\ RoomInv /\ [ChatNext]_chatVars => RoomInv'
  BY RoomNext
<1>. QED  BY <1>1, <1>2, <1>3, ChatInitTypes, ChatNextTypes, PTL DEF ChatSpec

-----------------------------------------------------------------------------
(* Pages: the types, and that a reading to the end misses nothing.  The    *)
(* pages read so far have left out no row of the first page's list that    *)
(* has not been received: as many rows as they hold are ahead of it.       *)

Ahead(j, i) == IF list \in ByDate THEN table[j].date > table[i].date ELSE j > i
AheadOf(i) == {j \in Listed : Ahead(j, i)}
PagesRead == IF "rows" \in reader.todo THEN reader.page - 1 ELSE reader.page
Missing == reader.sure \ reader.got

PageTypeInv ==
    /\ PageTypeOK
    /\ reader.pc # "asking" => reader.todo = {}
    /\ reader.pc = "asking" => reader.page >= 1 /\ reader.todo \subseteq Queries

PageInv ==
    /\ reader.pc = "asking" /\ ~reader.odd =>
          /\ reader.sure \subseteq Listed
          /\ HalfRead /\ "rows" \in reader.todo => reader.total = Cardinality(Listed)
          /\ AsAsked => /\ \A i \in Missing : Cardinality(AheadOf(i)) >= PagesRead * Take
                        /\ reader.todo = {} /\ ~HasNextPage => Missing = {}
    /\ PagesMissNothing

\* The rows a list has are rows of the table.
LEMMA ListedRows ==
  ASSUME list \in Lists, NEW t, NEW only
  PROVE  ListOf(t, only) \in SUBSET DOMAIN t
<1>1. list \in PagedLists
  BY ListsKnown
<1>2. /\ Asking(t, only) \in SUBSET DOMAIN t /\ Asking(t, TRUE) \in SUBSET DOMAIN t
      /\ There(t) \in SUBSET DOMAIN t
  BY DEF Asking, There
<1>. QED
  BY <1>1, <1>2 DEF PagedLists, ListOf, AthleteBookings, CoachBookings, AllBookings, AllUsers, Products,
     AllOrders, UnreadNotifications, AllNotifications, GoalEntries, CoachReviews, Videos

\* The parts of the type of a list and its reader that the proofs below use.
LEMMA PageShape ==
  ASSUME PageTypeInv
  PROVE  /\ list \in Lists /\ table \in Seq(TableRow) /\ Len(table) \in Nat /\ Len(table) <= MaxRows
         /\ DOMAIN table = 1..Len(table) /\ DOMAIN table \in SUBSET (1..MaxRows)
         /\ Listed \in SUBSET DOMAIN table /\ IsFiniteSet(Listed) /\ Cardinality(Listed) \in Nat
         /\ Take \in Nat \ {0} /\ MaxRows \in Nat /\ Cap \in Nat \ {0}
         /\ reader.pc \in {"idle", "asking", "done"} /\ reader.asked \in Nat \ {0} /\ reader.asked \in Asked
         /\ reader.only \in BOOLEAN /\ reader.page \in Nat /\ reader.todo \in SUBSET {"count", "rows"}
         /\ reader.total \in Nat /\ reader.full \in BOOLEAN
         /\ reader.got \in SUBSET (1..MaxRows) /\ reader.sure \in SUBSET (1..MaxRows)
         /\ reader.odd \in BOOLEAN /\ reader \in Reader
<1>1. list \in Lists /\ table \in Seq(TableRow) /\ Len(table) <= MaxRows /\ reader \in Reader
  BY DEF PageTypeInv, PageTypeOK
<1>2. Len(table) \in Nat /\ DOMAIN table = 1..Len(table)
  BY <1>1
<1>3. MaxRows \in Nat /\ Cap \in Nat \ {0} /\ Asked \subseteq Nat \ {0}
  BY PageBounds
<1>4. DOMAIN table \in SUBSET (1..MaxRows)
  BY <1>1, <1>2, <1>3
<1>5. Listed \in SUBSET DOMAIN table
  BY <1>1, ListedRows DEF Listed
<1>6. IsFiniteSet(DOMAIN table)
  BY <1>2, FS_Interval
<1>7. IsFiniteSet(Listed) /\ Cardinality(Listed) \in Nat
  BY <1>5, <1>6, FS_Subset, FS_CardinalityType
<1>8. reader.asked \in Nat \ {0} /\ reader.asked \in Asked
  BY <1>1, <1>3 DEF Reader
<1>9. Take \in Nat \ {0}
  BY <1>3, <1>8 DEF Take
<1>. QED
  BY <1>1, <1>2, <1>3, <1>4, <1>5, <1>7, <1>8, <1>9 DEF Reader

\* Before the first row the types hold.
LEMMA PageInitTypes == PageInit => PageTypeInv
<1>. SUFFICES ASSUME PageInit PROVE PageTypeInv
  OBVIOUS
<1>1. LeastAsked \in Asked
  <2>1. Asked \in SUBSET Nat /\ Asked # {}
    BY PageBounds
  <2>2. \E n \in Asked : \A m \in Asked : n <= m
    BY <2>1, LeastOfSet
  <2>. QED  BY <2>2 DEF LeastAsked
<1>2. NoReader(LeastAsked) \in Reader
  BY <1>1 DEF NoReader, Reader
<1>3. table \in Seq(TableRow) /\ Len(table) = 0
  BY DEF PageInit
<1>. QED
  BY <1>2, <1>3, PageBounds DEF PageInit, PageTypeInv, PageTypeOK, NoReader

\* The first page is asked for.
LEMMA FirstPage ==
  ASSUME PageTypeInv, NEW n \in Asked, NEW only \in BOOLEAN, ReadFirst(n, only)
  PROVE  /\ PageTypeInv' /\ UNCHANGED <<list, table>>
         /\ reader'.pc = "asking" /\ reader'.only = only /\ reader'.page = 1 /\ reader'.todo = Queries
         /\ reader'.got = {} /\ reader'.sure = ListOf(table, only) /\ reader'.odd = FALSE
<1>. PICK S : S = ListOf(table, only)
  OBVIOUS
<1>. PICK q : q = Queries
  OBVIOUS
<1>1. S \in SUBSET (1..MaxRows) /\ q \in SUBSET {"count", "rows"}
  BY PageShape, ListedRows DEF Queries
<1> DEFINE l == [NoReader(n) EXCEPT !.pc = "asking", !.only = only, !.page = 1, !.todo = q, !.sure = S]
<1>2. NoReader(n) \in Reader
  BY DEF NoReader, Reader
<1>3. l \in Reader
  BY <1>1, <1>2 DEF Reader
<1>4. reader' = l /\ UNCHANGED <<list, table>>
  BY DEF ReadFirst
<1>5. q = Queries'
  BY <1>4 DEF Queries
<1>6. /\ l.pc = "asking" /\ l.only = only /\ l.page = 1 /\ l.todo = q
      /\ l.got = {} /\ l.sure = S /\ l.odd = FALSE
  BY DEF NoReader
<1>. HIDE DEF l
<1>7. PageTypeInv'
  BY <1>3, <1>4, <1>5, <1>6 DEF PageTypeInv, PageTypeOK
<1>. QED  BY <1>4, <1>6, <1>7

\* What counting the rows changes.
LEMMA CountTypes ==
  ASSUME PageTypeInv, CountRows
  PROVE  /\ PageTypeInv' /\ UNCHANGED <<list, table>>
         /\ reader.pc = "asking" /\ "count" \in reader.todo /\ ~reader.odd
         /\ \A f \in {"pc", "asked", "only", "page", "full", "got", "sure", "odd"} : reader'[f] = reader[f]
         /\ reader'.total = Cardinality(Listed) /\ reader'.todo = reader.todo \ {"count"}
<1>. PICK m : m = Cardinality(Listed)
  OBVIOUS
<1>1. reader \in Reader /\ m \in Nat /\ "count" \in reader.todo /\ ~reader.odd
  BY PageShape DEF CountRows
<1> DEFINE l == [reader EXCEPT !.total = m, !.todo = @ \ {"count"}]
<1>2. l \in Reader /\ l.total = m /\ l.todo = reader.todo \ {"count"}
  BY <1>1 DEF Reader
<1>3. \A f \in {"pc", "asked", "only", "page", "full", "got", "sure", "odd"} : l[f] = reader[f]
  BY <1>1 DEF Reader
<1>4. reader' = l /\ UNCHANGED <<list, table>>
  BY DEF CountRows
<1>5. reader.pc = "asking"
  BY <1>1 DEF PageTypeInv
<1>. HIDE DEF l
<1>6. l.pc = "asking" /\ l.page = reader.page
  BY <1>3, <1>5
<1>7. PageTypeInv'
  BY <1>2, <1>4, <1>5, <1>6 DEF PageTypeInv, PageTypeOK, Queries
<1>. QED  BY <1>1, <1>2, <1>3, <1>4, <1>5, <1>7

\* A sorting lists each row once.
LEMMA SortingShape ==
  ASSUME NEW S, IsFiniteSet(S), NEW s \in Sortings(S)
  PROVE  /\ s \in Seq(S) /\ Len(s) = Cardinality(S) /\ Cardinality(S) \in Nat
         /\ \A i \in S : \E m \in 1..Len(s) : s[m] = i
<1>. PICK n : n = Cardinality(S)
  OBVIOUS
<1>1. n \in Nat /\ s \in [1..n -> S] /\ \A k, m \in 1..n : k < m => s[k] # s[m]
  BY FS_CardinalityType DEF Sortings
<1>2. s \in Seq(S) /\ Len(s) = n
  BY <1>1
<1>3. s \in Injection(1..n, S)
  BY <1>1 DEF Injection, IsInjective
<1>4. IsFiniteSet(1..n) /\ Cardinality(1..n) = n
  BY <1>1, FS_Interval
<1>5. s \in Surjection(1..n, S)
  BY <1>3, <1>4, FS_Injection
<1>. QED  BY <1>1, <1>2, <1>5 DEF Surjection

\* A page holds the rows between its offset and its end, and is short only at the
\* end of the list.
Part(s, a, b) == SubSeq(s, a + 1, IF a + b < Len(s) THEN a + b ELSE Len(s))

\* What LIMIT and OFFSET leave of a sequence.
LEMMA PartHolds ==
  ASSUME NEW S, NEW s \in Seq(S), NEW a \in Nat, NEW b \in Nat \ {0}
  PROVE  /\ \A i \in DOMAIN Part(s, a, b) : Part(s, a, b)[i] \in S
         /\ \A m \in 1..Len(s) : a < m /\ m <= a + b =>
                                   \E i \in DOMAIN Part(s, a, b) : Part(s, a, b)[i] = s[m]
         /\ Len(Part(s, a, b)) # b => Len(s) < a + b
<1>. PICK n : n = IF a + b < Len(s) THEN a + b ELSE Len(s)
  OBVIOUS
<1>1. n \in Nat /\ n <= Len(s) /\ Len(s) \in Nat
  OBVIOUS
<1>2. Part(s, a, b) = [i \in 1..(n - a) |-> s[a + i]]
  BY <1>1 DEF Part
<1>. PICK p : p = Part(s, a, b)
  OBVIOUS
<1>3. DOMAIN p = 1..(n - a) /\ \A i \in 1..(n - a) : p[i] = s[a + i]
  BY <1>2
<1>4. \A i \in DOMAIN p : p[i] \in S
  <2>. SUFFICES ASSUME NEW i \in 1..(n - a) PROVE s[a + i] \in S
    BY <1>3
  <2>1. a + i \in 1..Len(s)
    BY <1>1
  <2>. QED  BY <2>1
<1>5. ASSUME NEW m \in 1..Len(s), a < m, m <= a + b
      PROVE  \E i \in DOMAIN p : p[i] = s[m]
  <2>1. m - a \in 1..(n - a) /\ a + (m - a) = m
    BY <1>1, <1>5
  <2>. QED  BY <1>3, <2>1
<1>6. ASSUME Len(s) >= a + b PROVE Len(p) = b
  <2>1. n - a = b /\ b \in Nat
    BY <1>1, <1>6
  <2>2. p = [i \in 1..b |-> s[a + i]]
    BY <1>2, <2>1
  <2>. QED  BY <2>1, <2>2
<1>. QED  BY <1>1, <1>4, <1>5, <1>6

\* What reading the rows of a page changes.
LEMMA FindTypes ==
  ASSUME PageTypeInv, FindRows
  PROVE  /\ PageTypeInv' /\ UNCHANGED <<list, table>>
         /\ reader.pc = "asking" /\ "rows" \in reader.todo /\ ~reader.odd
         /\ list \in ByDate => "count" \notin reader.todo
         /\ \A f \in {"pc", "asked", "only", "page", "total", "sure"} : reader'[f] = reader[f]
         /\ reader'.todo = reader.todo \ {"rows"}
         /\ \E s \in Sortings(Listed) :
               /\ reader'.got = reader.got \cup {Part(s, Skip, Take)[i] : i \in DOMAIN Part(s, Skip, Take)}
               /\ reader'.full <=> Len(Part(s, Skip, Take)) = Take
         /\ reader'.odd <=> Tied
<1>1. PICK s \in Sortings(Listed) :
        reader' = [reader EXCEPT !.got = @ \cup {Part(s, Skip, Take)[i] : i \in DOMAIN Part(s, Skip, Take)},
                                 !.full = Len(Part(s, Skip, Take)) = Take, !.todo = @ \ {"rows"},
                                 !.odd = @ \/ Tied]
  BY Zenon DEF FindRows, Part
<1>2. /\ reader \in Reader /\ "rows" \in reader.todo /\ ~reader.odd /\ reader.odd \in BOOLEAN
      /\ list \in ByDate => "count" \notin reader.todo
      /\ UNCHANGED <<list, table>>
  BY PageShape DEF FindRows
<1>3. reader.pc = "asking" /\ reader.page >= 1
  BY <1>2 DEF PageTypeInv
<1>4. Take \in Nat \ {0} /\ Skip \in Nat
  <2>1. reader.page - 1 \in Nat /\ Take \in Nat /\ reader.asked \in Nat
    BY <1>3, PageShape
  <2>2. \A x, y \in Nat : x * y \in Nat
    OBVIOUS
  <2>. QED  BY <2>1, <2>2, PageShape DEF Skip
<1>. PICK G : G = {Part(s, Skip, Take)[i] : i \in DOMAIN Part(s, Skip, Take)}
  OBVIOUS
<1>5. G \in SUBSET (1..MaxRows)
  <2>1. s \in Seq(Listed)
    BY PageShape, SortingShape
  <2>2. \A i \in DOMAIN Part(s, Skip, Take) : Part(s, Skip, Take)[i] \in Listed
    BY <1>4, <2>1, PartHolds
  <2>. QED  BY <2>2, PageShape
<1>. PICK f \in BOOLEAN : f <=> Len(Part(s, Skip, Take)) = Take
  OBVIOUS
<1>. PICK o \in BOOLEAN : o <=> reader.odd \/ Tied
  OBVIOUS
<1>6. reader' = [reader EXCEPT !.got = @ \cup G, !.full = f, !.todo = @ \ {"rows"}, !.odd = o]
  <2>1. f = (Len(Part(s, Skip, Take)) = Take) /\ o = (reader.odd \/ Tied)
    OBVIOUS
  <2>. QED  BY <1>1, <2>1
<1> DEFINE l == [reader EXCEPT !.got = @ \cup G, !.full = f, !.todo = @ \ {"rows"}, !.odd = o]
<1>7. l \in Reader
  BY ZenonT(60), <1>2, <1>5 DEF Reader
<1>8. /\ \A g \in {"pc", "asked", "only", "page", "total", "sure"} : l[g] = reader[g]
      /\ l.got = reader.got \cup G /\ l.full = f /\ l.todo = reader.todo \ {"rows"} /\ l.odd = o
  BY <1>2 DEF Reader
<1>9. reader' = l
  BY <1>6
<1>. HIDE DEF l
<1>10. l.pc = "asking" /\ l.page = reader.page
  BY <1>3, <1>8
<1>11. PageTypeInv'
  BY <1>2, <1>7, <1>8, <1>9, <1>10 DEF PageTypeInv, PageTypeOK, Queries
<1>. QED  BY <1>2, <1>3, <1>8, <1>9, <1>11

\* What asking for the next page changes.
LEMMA GoOnTypes ==
  ASSUME PageTypeInv, ReadNext
  PROVE  /\ PageTypeInv' /\ UNCHANGED <<list, table>>
         /\ reader.pc = "asking" /\ reader.todo = {} /\ ~reader.odd
         /\ \A f \in {"asked", "only", "total", "full", "got", "sure", "odd"} : reader'[f] = reader[f]
         /\ \/ HasNextPage /\ reader'.pc = "asking" /\ reader'.page = reader.page + 1 /\ reader'.todo = Queries
            \/ ~HasNextPage /\ reader'.pc = "done"
<1>. PICK q : q = Queries
  OBVIOUS
<1>1. reader \in Reader /\ reader.pc = "asking" /\ reader.todo = {} /\ ~reader.odd /\ UNCHANGED <<list, table>>
      /\ q \in SUBSET {"count", "rows"} /\ q = Queries'
  BY PageShape DEF ReadNext, Queries
<1>2. CASE HasNextPage
  <2> DEFINE l == [reader EXCEPT !.page = @ + 1, !.todo = q]
  <2>0. reader.page + 1 \in Nat
    BY PageShape
  <2>1. l \in Reader /\ l.pc = "asking" /\ l.page = reader.page + 1 /\ l.todo = q
    BY <1>1, <2>0 DEF Reader
  <2>2. \A f \in {"asked", "only", "total", "full", "got", "sure", "odd"} : l[f] = reader[f]
    BY <1>1 DEF Reader
  <2>3. reader' = l
    BY <1>2 DEF ReadNext
  <2>. HIDE DEF l
  <2>4. l.page >= 1
    BY <1>1, <2>1 DEF Reader
  <2>5. PageTypeInv'
    BY <1>1, <2>1, <2>3, <2>4 DEF PageTypeInv, PageTypeOK
  <2>. QED  BY <1>1, <1>2, <2>1, <2>2, <2>3, <2>5
<1>3. CASE ~HasNextPage
  <2> DEFINE l == [reader EXCEPT !.pc = "done"]
  <2>1. l \in Reader /\ l.pc = "done" /\ l.todo = {}
    BY <1>1 DEF Reader
  <2>2. \A f \in {"asked", "only", "total", "full", "got", "sure", "odd"} : l[f] = reader[f]
    BY <1>1 DEF Reader
  <2>3. reader' = l
    BY <1>3 DEF ReadNext
  <2>. HIDE DEF l
  <2>4. PageTypeInv'
    BY <1>1, <2>1, <2>3 DEF PageTypeInv, PageTypeOK
  <2>. QED  BY <1>1, <1>3, <2>1, <2>2, <2>3, <2>4
<1>. QED  BY <1>2, <1>3

\* A list that changes leaves the reader where he is; he is odd unless it only grew,
\* and not between the queries of one page.
LEMMA ReaderBecomes ==
  ASSUME PageTypeInv, NEW t \in Seq(TableRow), NEW only \in BOOLEAN, NEW moved \in BOOLEAN,
         reader' = Becomes(t, only, moved)
  PROVE  /\ reader' \in Reader
         /\ \A f \in {"pc", "asked", "page", "todo", "total", "full", "got"} : reader'[f] = reader[f]
         /\ reader'.only = only /\ reader'.sure = reader.sure \cap ListOf(t, only)
         /\ ~reader'.odd => /\ ~reader.odd /\ ~moved /\ Listed \subseteq ListOf(t, only)
                            /\ HalfRead => ListOf(t, only) = Listed
<1>. PICK R : R = ListOf(t, only)
  OBVIOUS
<1>. PICK o \in BOOLEAN : o <=> reader.odd \/ moved \/ Listed \ R # {} \/ (HalfRead /\ R # Listed)
  OBVIOUS
<1>0. o = (reader.odd \/ moved \/ Listed \ R # {} \/ (HalfRead /\ R # Listed))
  OBVIOUS
<1>1. reader \in Reader /\ reader.odd \in BOOLEAN /\ reader.sure \in SUBSET (1..MaxRows)
  BY PageShape
<1> DEFINE l == [reader EXCEPT !.only = only, !.sure = @ \cap R, !.odd = o]
<1>2. l \in Reader
  BY <1>1 DEF Reader
<1>3. /\ \A f \in {"pc", "asked", "page", "todo", "total", "full", "got"} : l[f] = reader[f]
      /\ l.only = only /\ l.sure = reader.sure \cap R /\ l.odd = o
  BY <1>1 DEF Reader
<1>4. reader' = l
  BY <1>0 DEF Becomes
<1>. HIDE DEF l
<1>5. ~o => /\ ~reader.odd /\ ~moved /\ Listed \subseteq R /\ (HalfRead => R = Listed)
  BY <1>1
<1>. QED  BY <1>2, <1>3, <1>4, <1>5

\* A table that changes, and the reader it leaves behind, keep their types.
LEMMA ChangeTypes ==
  ASSUME PageTypeInv, NEW t \in Seq(TableRow), Len(t) <= MaxRows, NEW only \in BOOLEAN, NEW moved \in BOOLEAN,
         table' = t, list' = list, reader' = Becomes(t, only, moved)
  PROVE  PageTypeInv'
<1>1. /\ reader' \in Reader
      /\ reader'.pc = reader.pc /\ reader'.page = reader.page /\ reader'.todo = reader.todo
  BY ReaderBecomes
<1>. QED  BY <1>1 DEF PageTypeInv, PageTypeOK, Queries

\* So do they when rows change during the reading.
LEMMA MeanwhileTypes ==
  ASSUME PageTypeInv, NEW t \in Seq(TableRow), Len(t) <= MaxRows, NEW moved \in BOOLEAN, Meanwhile(t, moved)
  PROVE  PageTypeInv'
<1>1. table' = t /\ list' = list /\ reader.only \in BOOLEAN
  BY PageShape DEF Meanwhile
<1>2. CASE reader.pc = "asking"
  <2>1. PICK only \in BOOLEAN : only = reader.only
    BY <1>1
  <2>2. reader' = Becomes(t, only, moved)
    BY <1>2, <2>1 DEF Meanwhile
  <2>. QED  BY <1>1, <2>2, ChangeTypes
<1>3. CASE reader.pc # "asking"
  <2>1. reader' = reader
    BY <1>3 DEF Meanwhile
  <2>. QED  BY <1>1, <1>3, <2>1 DEF PageTypeInv, PageTypeOK
<1>. QED  BY <1>2, <1>3

\* What the others do to the table: it keeps its rows, and their dates unless one moved.
Elsewhere == \/ \E on \in BOOLEAN, date \in PageDates : MakeRow(on, date)
             \/ \E i \in DOMAIN table :
                   RewriteRow(i) \/ RemoveRow(i) \/ (\E date \in PageDates : MoveRow(i, date))
             \/ ClearAll

\* What other calls make of a table: rows are added, dates move.
LEMMA ElsewhereIs ==
  ASSUME PageTypeInv, Elsewhere
  PROVE  \E t \in Seq(TableRow), moved \in BOOLEAN :
            /\ Len(t) <= MaxRows /\ Meanwhile(t, moved)
            /\ DOMAIN table \subseteq DOMAIN t
            /\ ~moved => \A i \in DOMAIN table : t[i].date = table[i].date
<1>. PICK n : n = Len(table)
  OBVIOUS
<1>0. /\ table \in Seq(TableRow) /\ n \in Nat /\ n <= MaxRows /\ MaxRows \in Nat /\ DOMAIN table = 1..n
      /\ \A i \in DOMAIN table : table[i] \in TableRow
  BY PageShape
<1>1. ASSUME NEW on \in BOOLEAN, NEW date \in PageDates, MakeRow(on, date)
      PROVE  \E t \in Seq(TableRow), moved \in BOOLEAN :
                /\ Len(t) <= MaxRows /\ Meanwhile(t, moved)
                /\ DOMAIN table \subseteq DOMAIN t
                /\ ~moved => \A i \in DOMAIN table : t[i].date = table[i].date
  <2>. PICK row : row = [on |-> on, date |-> date, there |-> TRUE]
    OBVIOUS
  <2>1. row \in TableRow
    BY DEF TableRow
  <2>2. PICK t : t = Append(table, row)
    OBVIOUS
  <2>3. t \in Seq(TableRow) /\ Len(t) = n + 1 /\ DOMAIN t = 1..(n + 1) /\ \A i \in 1..n : t[i] = table[i]
    BY <1>0, <2>1, <2>2
  <2>4. Meanwhile(t, FALSE) /\ n < MaxRows
    BY <1>1, <2>2 DEF MakeRow
  <2>5. Len(t) <= MaxRows /\ DOMAIN table \subseteq DOMAIN t
    BY <1>0, <2>3, <2>4
  <2>. QED  BY <1>0, <2>3, <2>4, <2>5
<1>2. ASSUME NEW i \in DOMAIN table, RewriteRow(i) \/ RemoveRow(i) \/ \E date \in PageDates : MoveRow(i, date)
      PROVE  \E t \in Seq(TableRow), moved \in BOOLEAN :
                /\ Len(t) <= MaxRows /\ Meanwhile(t, moved)
                /\ DOMAIN table \subseteq DOMAIN t
                /\ ~moved => \A j \in DOMAIN table : t[j].date = table[j].date
  <2>1. PICK row \in TableRow, moved \in BOOLEAN :
           Meanwhile([table EXCEPT ![i] = row], moved) /\ (~moved => row.date = table[i].date)
    <3>1. CASE RewriteRow(i)
      <4> DEFINE row == [table[i] EXCEPT !.on = ~@]
      <4>1. row \in TableRow /\ row.date = table[i].date
        BY <1>0 DEF TableRow
      <4>2. Meanwhile([table EXCEPT ![i] = row], FALSE)
        BY <3>1 DEF RewriteRow
      <4>. HIDE DEF row
      <4>. QED  BY <4>1, <4>2
    <3>2. CASE RemoveRow(i)
      <4> DEFINE row == [table[i] EXCEPT !.there = FALSE]
      <4>1. row \in TableRow /\ row.date = table[i].date
        BY <1>0 DEF TableRow
      <4>2. Meanwhile([table EXCEPT ![i] = row], FALSE)
        BY <3>2 DEF RemoveRow
      <4>. HIDE DEF row
      <4>. QED  BY <4>1, <4>2
    <3>3. ASSUME NEW date \in PageDates, MoveRow(i, date)
          PROVE  \E row \in TableRow, moved \in BOOLEAN :
                    Meanwhile([table EXCEPT ![i] = row], moved) /\ (~moved => row.date = table[i].date)
      <4> DEFINE row == [table[i] EXCEPT !.date = date]
      <4>1. row \in TableRow
        BY <1>0 DEF TableRow
      <4>2. Meanwhile([table EXCEPT ![i] = row], TRUE)
        BY <3>3 DEF MoveRow
      <4>. HIDE DEF row
      <4>. QED  BY <4>1, <4>2
    <3>. QED  BY <1>2, <3>1, <3>2, <3>3
  <2>2. PICK t : t = [table EXCEPT ![i] = row]
    OBVIOUS
  <2>3. /\ t \in Seq(TableRow) /\ Len(t) = n /\ DOMAIN t = DOMAIN table
        /\ \A j \in DOMAIN table : t[j] = IF j = i THEN row ELSE table[j]
    BY <1>0, <2>2
  <2>4. Meanwhile(t, moved)
    BY <2>1, <2>2
  <2>. QED  BY <1>0, <2>1, <2>3, <2>4
<1>3. ASSUME ClearAll
      PROVE  \E t \in Seq(TableRow), moved \in BOOLEAN :
                /\ Len(t) <= MaxRows /\ Meanwhile(t, moved)
                /\ DOMAIN table \subseteq DOMAIN t
                /\ ~moved => \A j \in DOMAIN table : t[j].date = table[j].date
  <2>1. PICK t : t = [i \in DOMAIN table |-> [table[i] EXCEPT !.there = FALSE]]
    OBVIOUS
  <2>2. \A i \in DOMAIN table : [table[i] EXCEPT !.there = FALSE] \in TableRow
    BY <1>0 DEF TableRow
  <2>3. t \in Seq(TableRow) /\ Len(t) = n /\ DOMAIN t = DOMAIN table
    BY <1>0, <2>1, <2>2
  <2>4. \A i \in DOMAIN table : t[i].date = table[i].date
    BY <1>0, <2>1 DEF TableRow
  <2>5. Meanwhile(t, FALSE)
    BY <1>3, <2>1 DEF ClearAll
  <2>. QED  BY <1>0, <2>3, <2>4, <2>5
<1>. QED  BY <1>1, <1>2, <1>3 DEF Elsewhere

\* A subscription widens what its athlete may see, and changes no row.
LEMMA SubscribedIs ==
  ASSUME PageTypeInv, Subscribed
  PROVE  \E t \in Seq(TableRow), only \in BOOLEAN :
            t = table /\ Len(t) <= MaxRows /\ reader' = Becomes(t, only, FALSE) /\ UNCHANGED <<list, table>>
<1>1. table \in Seq(TableRow) /\ Len(table) <= MaxRows /\ reader.only \in BOOLEAN
  BY PageShape
<1>2. PICK only \in BOOLEAN : only = ~reader.only
  BY <1>1
<1>3. reader' = Becomes(table, only, FALSE) /\ UNCHANGED <<list, table>>
  BY <1>2 DEF Subscribed
<1>. QED  BY <1>1, <1>3

\* Every step keeps the types of a list and its reader.
LEMMA PageNextTypes == PageTypeInv /\ [PageNext]_pageVars => PageTypeInv'
<1>. SUFFICES ASSUME PageTypeInv, [PageNext]_pageVars PROVE PageTypeInv'
  OBVIOUS
<1>1. CASE Elsewhere
  BY <1>1, ElsewhereIs, MeanwhileTypes
<1>2. CASE Subscribed
  <2>1. PICK t \in Seq(TableRow), only \in BOOLEAN :
           t = table /\ Len(t) <= MaxRows /\ reader' = Becomes(t, only, FALSE) /\ UNCHANGED <<list, table>>
    BY <1>2, SubscribedIs
  <2>. QED  BY <2>1, ChangeTypes
<1>3. CASE UNCHANGED pageVars
  BY <1>3 DEF pageVars, PageTypeInv, PageTypeOK, Queries
<1>. QED  BY <1>1, <1>2, <1>3, FirstPage, CountTypes, FindTypes, GoOnTypes DEF PageNext, Elsewhere

\* The list, its rows and the reader have their types.
THEOREM PageTypesKept == PageSpec => []PageTypeOK
<1>1. PageTypeInv => PageTypeOK
  BY DEF PageTypeInv
<1>. QED  BY <1>1, PageInitTypes, PageNextTypes, PTL DEF PageSpec

\* Two pages' worth of arithmetic: the rows of one page more, and of the last page.
LEMMA OnePageMore ==
  ASSUME NEW p \in Nat, p >= 1, NEW t \in Nat
  PROVE  (p - 1) * t + t = p * t /\ (p - 1) * t \in Nat
  OBVIOUS

\* A page that is no earlier than the last of the count ends the rows.
LEMMA LastPageEnds ==
  ASSUME NEW t \in Nat \ {0}, NEW m \in Nat, NEW p \in Nat, ~(p < (m + t - 1) \div t)
  PROVE  m <= p * t
<1>. PICK q : q = (m + t - 1) \div t
  OBVIOUS
<1>1. q \in Int /\ m + t - 1 < t * (q + 1) /\ q <= p
  OBVIOUS
<1>2. t * (q + 1) = t * q + t
  BY <1>1
<1>3. t * q <= t * p
  BY <1>1
<1>. QED  BY <1>1, <1>2, <1>3

\* The rows ahead of a row are no more than the list has, and do not grow fewer while
\* the list grows.
LEMMA AheadCounts ==
  ASSUME PageTypeInv, NEW i
  PROVE  /\ AheadOf(i) \in SUBSET Listed /\ IsFiniteSet(AheadOf(i)) /\ Cardinality(AheadOf(i)) \in Nat
         /\ i \in Listed => Cardinality(AheadOf(i)) < Cardinality(Listed)
<1>1. AheadOf(i) \in SUBSET Listed /\ IsFiniteSet(Listed) /\ Cardinality(Listed) \in Nat
  BY PageShape DEF AheadOf
<1>2. IsFiniteSet(AheadOf(i)) /\ Cardinality(AheadOf(i)) \in Nat /\ Cardinality(AheadOf(i)) <= Cardinality(Listed)
  BY <1>1, FS_Subset, FS_CardinalityType
<1>3. ASSUME i \in Listed PROVE i \notin AheadOf(i)
  <2>1. i \in Int /\ (list \in ByDate => table[i].date \in Int)
    <3>1. i \in DOMAIN table /\ table[i] \in TableRow
      BY <1>3, PageShape
    <3>2. table[i].date \in PageDates
      BY <3>1 DEF TableRow
    <3>3. i \in Int
      <4>1. DOMAIN table \in SUBSET (1..MaxRows) /\ MaxRows \in Nat
        BY PageShape
      <4>. QED  BY <3>1, <4>1
    <3>. QED  BY <3>2, <3>3, PageDatesAreInt
  <2>. QED  BY <2>1 DEF AheadOf, Ahead
<1>4. i \in Listed => AheadOf(i) # Listed
  BY <1>3
<1>5. Cardinality(AheadOf(i)) = Cardinality(Listed) => AheadOf(i) = Listed
  BY <1>1, FS_Subset
<1>. QED  BY <1>1, <1>2, <1>4, <1>5

\* In a sorting of the list a row comes after the rows ahead of it, and only these,
\* when no other row has its date.
LEMMA PlaceOfRow ==
  ASSUME PageTypeInv, ~Tied, NEW s \in Sortings(Listed), NEW i \in reader.sure, i \in Listed
  PROVE  \E m \in 1..Len(s) : s[m] = i /\ m = Cardinality(AheadOf(i)) + 1
<1>. PICK n : n = Cardinality(Listed)
  OBVIOUS
<1>0. /\ IsFiniteSet(Listed) /\ s \in Seq(Listed) /\ Len(s) = n /\ n \in Nat
      /\ \A k, m \in 1..n : k < m => s[k] # s[m] /\ Before(s[k], s[m])
      /\ \A j \in Listed : \E m \in 1..n : s[m] = j
  <2>1. IsFiniteSet(Listed)
    BY PageShape
  <2>2. s \in Seq(Listed) /\ Len(s) = n /\ n \in Nat /\ \A j \in Listed : \E m \in 1..Len(s) : s[m] = j
    BY <2>1, SortingShape
  <2>3. DOMAIN s = 1..n /\ \A k, m \in DOMAIN s : k < m => s[k] # s[m] /\ Before(s[k], s[m])
    BY <2>2 DEF Sortings
  <2>. QED  BY <2>1, <2>2, <2>3
<1>1. PICK m \in 1..n : s[m] = i
  BY <1>0
<1>2. \A j \in Listed : j \in Int /\ (list \in ByDate => table[j].date \in Int)
  <2>. SUFFICES ASSUME NEW j \in Listed PROVE j \in Int /\ (list \in ByDate => table[j].date \in Int)
    OBVIOUS
  <2>1. j \in DOMAIN table /\ table[j] \in TableRow
    BY PageShape
  <2>2. table[j].date \in PageDates
    BY <2>1 DEF TableRow
  <2>3. j \in Int
    <3>1. DOMAIN table \in SUBSET (1..MaxRows) /\ MaxRows \in Nat
      BY PageShape
    <3>. QED  BY <2>1, <3>1
  <2>. QED  BY <2>2, <2>3, PageDatesAreInt
<1>3. \A j \in Listed : list \in ByDate /\ j # i => table[j].date # table[i].date
  BY DEF Tied
<1>4. ASSUME NEW k \in 1..n PROVE Ahead(s[k], i) <=> k < m
  <2>0. s[k] \in Listed
    BY <1>0
  <2>1. CASE k < m
    <3>1. s[k] # i /\ Before(s[k], i)
      BY <1>0, <1>1, <2>1
    <3>. QED  BY <1>2, <1>3, <2>0, <2>1, <3>1 DEF Before, Ahead
  <2>2. CASE k = m
    BY <1>1, <1>2, <2>0, <2>2 DEF Ahead
  <2>3. CASE m < k
    <3>1. s[k] # i /\ Before(i, s[k])
      BY <1>0, <1>1, <2>3
    <3>. QED  BY <1>2, <2>0, <2>3, <3>1 DEF Before, Ahead
  <2>. QED  BY <2>1, <2>2, <2>3
<1> DEFINE f == [k \in 1..(m - 1) |-> s[k]]
<1>5. f \in [1..(m - 1) -> AheadOf(i)]
  <2>. SUFFICES ASSUME NEW k \in 1..(m - 1) PROVE s[k] \in AheadOf(i)
    OBVIOUS
  <2>1. k \in 1..n /\ k < m /\ s[k] \in Listed
    BY <1>0
  <2>. QED  BY <1>4, <2>1 DEF AheadOf
<1>6. f \in Bijection(1..(m - 1), AheadOf(i))
  <2>1. \A k, l \in 1..(m - 1) : f[k] = f[l] => k = l
    <3>. SUFFICES ASSUME NEW k \in 1..(m - 1), NEW l \in 1..(m - 1), k # l PROVE s[k] # s[l]
      OBVIOUS
    <3>1. k \in 1..n /\ l \in 1..n /\ (k < l \/ l < k)
      BY <1>0
    <3>. QED  BY <1>0, <3>1
  <2>2. \A j \in AheadOf(i) : \E k \in 1..(m - 1) : f[k] = j
    <3>. SUFFICES ASSUME NEW j \in AheadOf(i) PROVE \E k \in 1..(m - 1) : s[k] = j
      OBVIOUS
    <3>1. j \in Listed /\ Ahead(j, i)
      BY DEF AheadOf
    <3>2. PICK k \in 1..n : s[k] = j
      BY <1>0, <3>1
    <3>3. k < m
      BY <1>4, <3>1, <3>2
    <3>. QED  BY <3>2, <3>3
  <2>. HIDE DEF f
  <2>. QED  BY <1>5, <2>1, <2>2 DEF Bijection, Injection, IsInjective, Surjection
<1>7. Cardinality(AheadOf(i)) = m - 1
  <2>1. IsFiniteSet(1..(m - 1)) /\ Cardinality(1..(m - 1)) = m - 1
    BY FS_Interval
  <2>2. ExistsBijection(1..(m - 1), AheadOf(i))
    BY <1>6 DEF ExistsBijection
  <2>. QED  BY <2>1, <2>2, FS_Bijection
<1>. QED  BY <1>0, <1>1, <1>7

\* The list after a step that leaves its kind.
LEMMA ListedNext ==
  ASSUME PageTypeInv, PageTypeInv', list' = list
  PROVE  /\ Listed' = ListOf(table', reader'.only) /\ IsFiniteSet(Listed')
         /\ \A i : IsFiniteSet(AheadOf(i)') /\ Cardinality(AheadOf(i)') \in Nat
<1>. PICK t : t = table'
  OBVIOUS
<1>. PICK o : o = reader'.only
  OBVIOUS
<1>. PICK L : L = Listed'
  OBVIOUS
<1>1. L = ListOf(t, o)
  BY DEF Listed, ListOf, AthleteBookings, CoachBookings, AllBookings, AllUsers, Products,
     AllOrders, UnreadNotifications, AllNotifications, GoalEntries, CoachReviews, Videos
<1>2. L \in SUBSET DOMAIN t
  BY <1>1, ListedRows DEF PageTypeInv, PageTypeOK
<1>3. IsFiniteSet(DOMAIN t)
  <2>1. t \in Seq(TableRow)
    BY DEF PageTypeInv, PageTypeOK
  <2>2. DOMAIN t = 1..Len(t) /\ Len(t) \in Nat
    BY <2>1
  <2>. QED  BY <2>2, FS_Interval
<1>4. IsFiniteSet(L)
  BY <1>2, <1>3, FS_Subset
<1>5. ASSUME NEW i PROVE IsFiniteSet(AheadOf(i)') /\ Cardinality(AheadOf(i)') \in Nat
  <2>1. AheadOf(i)' \in SUBSET L
    BY DEF AheadOf
  <2>. QED  BY <1>4, <2>1, FS_Subset, FS_CardinalityType
<1>. QED  BY <1>1, <1>4, <1>5

\* A list that only grew, with the dates it had, has no fewer rows ahead of a row.
LEMMA AheadGrows ==
  ASSUME PageTypeInv, PageTypeInv', list' = list, Listed \subseteq Listed',
         \A j \in Listed : table'[j].date = table[j].date, NEW i \in Listed
  PROVE  Cardinality(AheadOf(i)) <= Cardinality(AheadOf(i)')
<1>. PICK A : A = AheadOf(i)
  OBVIOUS
<1>. PICK B : B = AheadOf(i)'
  OBVIOUS
<1>1. A \in SUBSET B
  BY DEF AheadOf, Ahead
<1>2. IsFiniteSet(B)
  BY ListedNext
<1>. QED  BY <1>1, <1>2, FS_Subset

\* A reader who begins has missed nothing.
LEMMA FirstMisses ==
  ASSUME PageTypeInv, NEW n \in Asked, NEW only \in BOOLEAN, ReadFirst(n, only)
  PROVE  PageInv'
<1>1. /\ PageTypeInv' /\ UNCHANGED <<list, table>>
      /\ reader'.pc = "asking" /\ reader'.only = only /\ reader'.page = 1 /\ reader'.todo = Queries
      /\ reader'.got = {} /\ reader'.sure = ListOf(table, only) /\ reader'.odd = FALSE
  BY FirstPage
<1>2. /\ Listed' = reader'.sure
      /\ \A i : Cardinality(AheadOf(i)') \in Nat
  BY <1>1, ListedNext
<1>3. Queries' = Queries /\ "rows" \in Queries /\ Queries # {}
  BY <1>1 DEF Queries
<1>4. PagesRead' = 0 /\ ~HalfRead' /\ Take' \in Nat
  <2>1. PagesRead' = 0 /\ ~HalfRead'
    BY <1>1, <1>3 DEF PagesRead, HalfRead
  <2>2. Take' \in Nat
    <3>1. reader'.asked \in Asked /\ Asked \subseteq Nat
      BY <1>1, PageBounds DEF PageTypeInv, PageTypeOK, Reader
    <3>. QED  BY <3>1, PageBounds DEF Take
  <2>. QED  BY <2>1, <2>2
<1>5. \A i : Cardinality(AheadOf(i)') >= PagesRead' * Take'
  BY <1>2, <1>4
<1>. QED  BY <1>1, <1>2, <1>3, <1>4, <1>5 DEF PageInv, PagesMissNothing

\* A step that leaves the list, the rows and what is asked for.
LEMMA SameList ==
  ASSUME PageTypeInv, UNCHANGED <<list, table>>, reader'.only = reader.only, reader'.asked = reader.asked
  PROVE  /\ Listed' = Listed /\ Take' = Take /\ Queries' = Queries
         /\ \A i : AheadOf(i)' = AheadOf(i)
         /\ AsAsked' <=> AsAsked
<1>1. Listed' = Listed
  BY DEF Listed, ListOf, AthleteBookings, CoachBookings, AllBookings, AllUsers, Products,
     AllOrders, UnreadNotifications, AllNotifications, GoalEntries, CoachReviews, Videos
<1>2. ASSUME NEW i PROVE AheadOf(i)' = AheadOf(i)
  BY <1>1 DEF AheadOf, Ahead
<1>3. Take' = Take /\ Queries' = Queries /\ (AsAsked' <=> AsAsked)
  BY DEF Take, Queries, AsAsked
<1>. QED  BY <1>1, <1>2, <1>3

\* A page that is counted to be the last ends after every row.
LEMMA CountEnds ==
  ASSUME PageTypeInv, NEW i \in Listed, NEW p \in Nat, ~(p < (Cardinality(Listed) + Take - 1) \div Take)
  PROVE  ~(Cardinality(AheadOf(i)) >= p * Take)
<1>. PICK m : m = Cardinality(Listed)
  OBVIOUS
<1>. PICK k : k = Cardinality(AheadOf(i))
  OBVIOUS
<1>. PICK t : t = Take
  OBVIOUS
<1>1. m \in Nat /\ t \in Nat \ {0} /\ k \in Nat /\ k < m
  BY PageShape, AheadCounts
<1>2. m <= p * t
  BY <1>1, LastPageEnds
<1>. QED  BY <1>1, <1>2

\* Counting misses nothing.
LEMMA CountMisses ==
  ASSUME PageTypeInv, PageInv, CountRows
  PROVE  PageInv'
<1>1. /\ PageTypeInv' /\ UNCHANGED <<list, table>>
      /\ reader.pc = "asking" /\ "count" \in reader.todo /\ ~reader.odd
      /\ reader'.pc = reader.pc /\ reader'.asked = reader.asked /\ reader'.only = reader.only
      /\ reader'.page = reader.page /\ reader'.full = reader.full /\ reader'.got = reader.got
      /\ reader'.sure = reader.sure /\ reader'.odd = reader.odd
      /\ reader'.total = Cardinality(Listed) /\ reader'.todo = reader.todo \ {"count"}
  BY CountTypes
<1>2. /\ Listed' = Listed /\ Take' = Take /\ Queries' = Queries
      /\ \A i : AheadOf(i)' = AheadOf(i)
      /\ AsAsked' <=> AsAsked
  BY <1>1, SameList
<1>3. PagesRead' = PagesRead /\ Missing' = Missing
  BY <1>1 DEF PagesRead, Missing
<1>4. reader.sure \subseteq Listed /\ (AsAsked => \A i \in Missing : Cardinality(AheadOf(i)) >= PagesRead * Take)
  BY <1>1 DEF PageInv
<1>5. ASSUME AsAsked, reader'.todo = {}, ~HasNextPage', NEW i \in Missing PROVE FALSE
  <2>1. PagesRead = reader.page /\ list \notin NotCounted /\ reader.page \in Nat
    BY <1>1, <1>5, PageShape DEF PagesRead, PageTypeInv, Queries
  <2>2. ~(reader.page < (Cardinality(Listed) + Take - 1) \div Take)
    BY <1>1, <1>2, <1>5, <2>1 DEF HasNextPage, Pages
  <2>3. i \in Listed
    BY <1>4 DEF Missing
  <2>. QED  BY <1>4, <1>5, <2>1, <2>2, <2>3, CountEnds
<1>6. reader'.total = Cardinality(Listed')
  BY <1>1, <1>2
<1>7. AsAsked' => \A i \in Missing' : Cardinality(AheadOf(i)') >= PagesRead' * Take'
  BY <1>2, <1>3, <1>4
<1>. QED  BY <1>1, <1>2, <1>3, <1>4, <1>5, <1>6, <1>7 DEF PageInv, PagesMissNothing

\* Asked for no more than a page may have, the offset is that of whole pages.
LEMMA WholePages ==
  ASSUME PageTypeInv, AsAsked, reader.pc = "asking"
  PROVE  /\ Skip = (reader.page - 1) * Take /\ Skip \in Nat
         /\ Skip + Take = reader.page * Take
<1>. PICK p : p = reader.page
  OBVIOUS
<1>. PICK t : t = Take
  OBVIOUS
<1>1. p \in Nat /\ p >= 1 /\ t \in Nat
  BY PageShape DEF PageTypeInv
<1>2. list \in {"bookings", "users"} => Take = reader.asked
  BY PageShape DEF AsAsked, Take, NotCapped
<1>3. Skip = (p - 1) * t
  BY <1>2 DEF Skip
<1>. QED  BY <1>1, <1>3, OnePageMore

\* The page that is found holds the rows it should, and is short only when it is the last.
LEMMA FoundRow ==
  ASSUME PageTypeInv, PageInv, AsAsked, reader.pc = "asking", ~reader.odd, ~Tied, "rows" \in reader.todo,
         NEW s \in Sortings(Listed), NEW i \in Missing,
         \A j \in DOMAIN Part(s, Skip, Take) : Part(s, Skip, Take)[j] # i
  PROVE  /\ Cardinality(AheadOf(i)) >= reader.page * Take
         /\ Len(Part(s, Skip, Take)) = Take
<1>. PICK a : a = Skip
  OBVIOUS
<1>. PICK b : b = Take
  OBVIOUS
<1>. PICK k : k = Cardinality(AheadOf(i))
  OBVIOUS
<1>1. a \in Nat /\ b \in Nat \ {0} /\ a + b = reader.page * Take /\ a = (reader.page - 1) * Take
  BY WholePages, PageShape
<1>2. i \in reader.sure /\ i \in Listed /\ k >= a /\ k \in Nat
  <2>1. i \in reader.sure /\ i \in Listed /\ k >= PagesRead * Take
    BY DEF PageInv, Missing
  <2>2. PagesRead = reader.page - 1
    BY DEF PagesRead
  <2>. QED  BY <1>1, <2>1, <2>2, AheadCounts
<1>3. PICK m \in 1..Len(s) : s[m] = i /\ m = k + 1
  BY <1>2, PlaceOfRow
<1>4. s \in Seq(Listed) /\ Len(s) \in Nat
  BY PageShape, SortingShape
<1>5. ~(m <= a + b)
  <2>. SUFFICES ASSUME m <= a + b PROVE FALSE
    OBVIOUS
  <2>1. a < m
    BY <1>1, <1>2, <1>3
  <2>. QED  BY <1>1, <1>3, <1>4, <2>1, PartHolds
<1>6. ~(Len(s) < a + b)
  BY <1>1, <1>2, <1>3, <1>4, <1>5
<1>7. Len(Part(s, a, b)) = b
  BY <1>1, <1>4, <1>6, PartHolds
<1>. QED  BY <1>1, <1>2, <1>3, <1>5, <1>7

\* The rows of a page are those that come next.
LEMMA FindMisses ==
  ASSUME PageTypeInv, PageInv, FindRows
  PROVE  PageInv'
<1>1. /\ PageTypeInv' /\ UNCHANGED <<list, table>>
      /\ reader.pc = "asking" /\ "rows" \in reader.todo /\ ~reader.odd
      /\ reader'.pc = reader.pc /\ reader'.asked = reader.asked /\ reader'.only = reader.only
      /\ reader'.page = reader.page /\ reader'.total = reader.total /\ reader'.sure = reader.sure
      /\ reader'.todo = reader.todo \ {"rows"} /\ (reader'.odd <=> Tied)
  BY FindTypes
<1>2. PICK s \in Sortings(Listed) :
         /\ reader'.got = reader.got \cup {Part(s, Skip, Take)[i] : i \in DOMAIN Part(s, Skip, Take)}
         /\ reader'.full <=> Len(Part(s, Skip, Take)) = Take
  BY FindTypes
<1>3. /\ Listed' = Listed /\ Take' = Take /\ Queries' = Queries
      /\ \A i : AheadOf(i)' = AheadOf(i)
      /\ AsAsked' <=> AsAsked
  BY <1>1, SameList
<1>4. PagesRead' = reader.page /\ ~("rows" \in reader'.todo)
  BY <1>1 DEF PagesRead
<1>5. reader'.sure \subseteq Listed'
  BY <1>1, <1>3 DEF PageInv
<1>6. ASSUME ~Tied, AsAsked, NEW i \in Missing'
      PROVE  /\ i \in Listed /\ Cardinality(AheadOf(i)) >= reader.page * Take /\ reader'.full
  <2>1. i \in Missing /\ \A j \in DOMAIN Part(s, Skip, Take) : Part(s, Skip, Take)[j] # i
    BY <1>1, <1>2 DEF Missing
  <2>2. i \in Listed
    BY <1>1, <2>1 DEF PageInv, Missing
  <2>. QED  BY <1>1, <1>2, <1>6, <2>1, <2>2, FoundRow
<1>7. ASSUME ~Tied, AsAsked, reader'.todo = {}, ~HasNextPage', NEW i \in Missing' PROVE FALSE
  <2>1. CASE list \in NotCounted
    BY <1>1, <1>6, <1>7, <2>1 DEF HasNextPage
  <2>2. CASE list \notin NotCounted
    <3>1. HalfRead
      BY <1>1, <1>7, <2>2 DEF HalfRead, Queries
    <3>2. reader.total = Cardinality(Listed)
      BY <1>1, <3>1 DEF PageInv
    <3>3. ~(reader.page < (Cardinality(Listed) + Take - 1) \div Take)
      BY <1>1, <1>3, <1>7, <2>2, <3>2 DEF HasNextPage, Pages
    <3>4. reader.page \in Nat
      BY PageShape
    <3>. QED  BY <1>6, <1>7, <3>3, <3>4, CountEnds
  <2>. QED  BY <2>1, <2>2
<1>8. ~Tied /\ AsAsked' => \A i \in Missing' : Cardinality(AheadOf(i)') >= PagesRead' * Take'
  BY <1>3, <1>4, <1>6
<1>. QED  BY <1>1, <1>3, <1>4, <1>5, <1>7, <1>8 DEF PageInv, PagesMissNothing

\* Asking for the next page misses nothing.
LEMMA GoOnMisses ==
  ASSUME PageTypeInv, PageInv, ReadNext
  PROVE  PageInv'
<1>1. /\ PageTypeInv' /\ UNCHANGED <<list, table>>
      /\ reader.pc = "asking" /\ reader.todo = {} /\ ~reader.odd
      /\ reader'.asked = reader.asked /\ reader'.only = reader.only
      /\ reader'.total = reader.total /\ reader'.got = reader.got /\ reader'.sure = reader.sure
      /\ reader'.odd = reader.odd
      /\ \/ HasNextPage /\ reader'.pc = "asking" /\ reader'.page = reader.page + 1 /\ reader'.todo = Queries
         \/ ~HasNextPage /\ reader'.pc = "done"
  BY GoOnTypes
<1>2. /\ Listed' = Listed /\ Take' = Take /\ Queries' = Queries
      /\ \A i : AheadOf(i)' = AheadOf(i)
      /\ AsAsked' <=> AsAsked
  BY <1>1, SameList
<1>3. Missing' = Missing /\ PagesRead = reader.page /\ reader.page \in Nat
  BY <1>1, PageShape DEF Missing, PagesRead
<1>4. CASE HasNextPage
  <2>1. reader'.pc = "asking" /\ reader'.page = reader.page + 1 /\ reader'.todo = Queries
    BY <1>1, <1>4
  <2>2. PagesRead' = PagesRead /\ ~HalfRead' /\ reader'.todo # {}
    BY <1>2, <1>3, <2>1 DEF PagesRead, HalfRead, Queries
  <2>3. AsAsked' => \A i \in Missing' : Cardinality(AheadOf(i)') >= PagesRead' * Take'
    BY <1>1, <1>2, <1>3, <2>2 DEF PageInv
  <2>4. reader'.sure \subseteq Listed'
    BY <1>1, <1>2 DEF PageInv
  <2>. QED  BY <2>1, <2>2, <2>3, <2>4 DEF PageInv, PagesMissNothing
<1>5. CASE ~HasNextPage
  <2>1. AsAsked => Missing = {}
    BY <1>1, <1>5 DEF PageInv
  <2>2. reader'.pc = "done"
    BY <1>1, <1>5
  <2>. QED  BY <1>1, <1>2, <2>1, <2>2 DEF PageInv, PagesMissNothing, Missing
<1>. QED  BY <1>4, <1>5

\* While others write, what the pages left out is still ahead of the next one.
LEMMA ChangeMisses ==
  ASSUME PageTypeInv, PageTypeInv', PageInv, reader.pc = "asking", NEW t \in Seq(TableRow),
         NEW only \in BOOLEAN, NEW moved \in BOOLEAN,
         table' = t, list' = list, reader' = Becomes(t, only, moved),
         DOMAIN table \subseteq DOMAIN t, ~moved => \A i \in DOMAIN table : t[i].date = table[i].date
  PROVE  PageInv'
<1>1. /\ reader'.pc = reader.pc /\ reader'.asked = reader.asked /\ reader'.page = reader.page
      /\ reader'.todo = reader.todo /\ reader'.total = reader.total /\ reader'.full = reader.full
      /\ reader'.got = reader.got /\ reader'.only = only /\ reader'.sure = reader.sure \cap ListOf(t, only)
      /\ ~reader'.odd => /\ ~reader.odd /\ ~moved /\ Listed \subseteq ListOf(t, only)
                         /\ HalfRead => ListOf(t, only) = Listed
  BY ReaderBecomes
<1>. SUFFICES ASSUME ~reader'.odd PROVE PageInv'
  BY <1>1 DEF PageInv, PagesMissNothing
<1>2. Listed' = ListOf(t, only)
  BY <1>1, ListedNext
<1>3. reader'.sure = reader.sure /\ reader.sure \subseteq Listed /\ reader'.sure \subseteq Listed'
  BY <1>1, <1>2 DEF PageInv
<1>4. \A i \in Listed : Cardinality(AheadOf(i)) <= Cardinality(AheadOf(i)')
  <2>1. \A j \in Listed : table'[j].date = table[j].date
    BY <1>1, PageShape
  <2>. QED  BY <1>1, <1>2, <2>1, AheadGrows
<1>5. /\ PagesRead' = PagesRead /\ Missing' = Missing /\ Take' = Take /\ (AsAsked' <=> AsAsked)
      /\ HasNextPage' = HasNextPage /\ (HalfRead' <=> HalfRead)
  <2>1. PagesRead' = PagesRead /\ Missing' = Missing /\ Take' = Take /\ (AsAsked' <=> AsAsked)
    BY <1>1, <1>3 DEF PagesRead, Missing, Take, AsAsked
  <2>2. HasNextPage' = HasNextPage
    BY <1>1, <2>1 DEF HasNextPage, Pages
  <2>3. HalfRead' <=> HalfRead
    BY <1>1 DEF HalfRead, Queries
  <2>. QED  BY <2>1, <2>2, <2>3
<1>6. AsAsked => \A i \in Missing : Cardinality(AheadOf(i)') >= PagesRead * Take
  <2>. SUFFICES ASSUME AsAsked, NEW i \in Missing PROVE Cardinality(AheadOf(i)') >= PagesRead * Take
    OBVIOUS
  <2>. PICK x : x = PagesRead * Take
    OBVIOUS
  <2>. PICK k : k = Cardinality(AheadOf(i))
    OBVIOUS
  <2>. PICK l : l = Cardinality(AheadOf(i)')
    OBVIOUS
  <2>1. k >= x /\ i \in Listed
    BY <1>1, <1>3 DEF PageInv, Missing
  <2>2. k <= l /\ k \in Nat /\ l \in Nat
    BY <1>4, <2>1, AheadCounts, ListedNext
  <2>3. x \in Int
    <3>1. PagesRead \in Int /\ Take \in Int
      BY PageShape DEF PagesRead
    <3>. QED  BY <3>1
  <2>. QED  BY <2>1, <2>2, <2>3
<1>7. HalfRead /\ "rows" \in reader.todo => reader.total = Cardinality(Listed')
  BY <1>1, <1>2 DEF PageInv
<1>8. AsAsked /\ reader.todo = {} /\ ~HasNextPage => Missing = {}
  BY <1>1 DEF PageInv
<1>9. reader'.pc = "asking"
  BY <1>1
<1>. QED  BY <1>1, <1>3, <1>5, <1>6, <1>7, <1>8, <1>9 DEF PageInv, PagesMissNothing

\* No step makes the reader miss a row.
LEMMA PageNextMisses == PageTypeInv /\ PageInv /\ [PageNext]_pageVars => PageInv'
<1>. SUFFICES ASSUME PageTypeInv, PageInv, [PageNext]_pageVars PROVE PageInv'
  OBVIOUS
<1>0. PageTypeInv'
  BY PageNextTypes
<1>1. CASE Elsewhere
  <2>1. PICK t \in Seq(TableRow), moved \in BOOLEAN :
           /\ Len(t) <= MaxRows /\ Meanwhile(t, moved)
           /\ DOMAIN table \subseteq DOMAIN t
           /\ ~moved => \A i \in DOMAIN table : t[i].date = table[i].date
    BY <1>1, ElsewhereIs
  <2>2. table' = t /\ list' = list /\ reader.only \in BOOLEAN /\ reader.pc # "done"
    BY <2>1, PageShape DEF Meanwhile
  <2>3. CASE reader.pc = "asking"
    <3>1. PICK only \in BOOLEAN : only = reader.only
      BY <2>2
    <3>2. reader' = Becomes(t, only, moved)
      BY <2>1, <2>3, <3>1 DEF Meanwhile
    <3>. QED  BY <1>0, <2>1, <2>2, <2>3, <3>2, ChangeMisses
  <2>4. CASE reader.pc # "asking"
    <3>1. reader' = reader
      BY <2>1, <2>4 DEF Meanwhile
    <3>. QED  BY <2>2, <2>4, <3>1 DEF PageInv, PagesMissNothing
  <2>. QED  BY <2>3, <2>4
<1>2. CASE Subscribed
  <2>1. PICK t \in Seq(TableRow), only \in BOOLEAN :
           t = table /\ Len(t) <= MaxRows /\ reader' = Becomes(t, only, FALSE) /\ UNCHANGED <<list, table>>
    BY <1>2, SubscribedIs
  <2>2. reader.pc = "asking"
    BY <1>2 DEF Subscribed
  <2>. QED  BY <1>0, <2>1, <2>2, ChangeMisses
<1>3. CASE UNCHANGED pageVars
  <2>1. UNCHANGED <<list, table, reader>>
    BY <1>3 DEF pageVars
  <2>2. /\ Listed' = Listed /\ Take' = Take /\ Queries' = Queries
        /\ \A i : AheadOf(i)' = AheadOf(i)
        /\ AsAsked' <=> AsAsked
    BY <2>1, SameList
  <2>3. HasNextPage' = HasNextPage
    BY <2>1, <2>2 DEF HasNextPage, Pages
  <2>. QED  BY <2>1, <2>2, <2>3 DEF PageInv, PagesMissNothing, PagesRead, Missing, HalfRead
<1>. QED
  BY <1>1, <1>2, <1>3, FirstMisses, CountMisses, FindMisses, GoOnMisses DEF PageNext, Elsewhere

\* A client who reads a list to its end received every row that was in it from his
\* first page on, also when rows are added between his calls; unless a row left the
\* list or changed its date, one was added between the two queries of a page, two
\* rows have one date, or he asked for more rows than a page of the admin's may have.
THEOREM ReadingIsComplete == PageSpec => []PagesMissNothing
<1>1. PageInit => PageInv
  BY DEF PageInit, PageInv, PagesMissNothing, NoReader
<1>2. PageInv => PagesMissNothing
  BY DEF PageInv
<1>. QED  BY <1>1, <1>2, PageInitTypes, PageNextTypes, PageNextMisses, PTL DEF PageSpec

-----------------------------------------------------------------------------
(* The components side by side, as MCCommunity runs them.                  *)

CommunityVars == <<chatVars, goalVars, badgeVars, reviewVars, pageVars, runs>>

\* One component runs and the others rest.
LEMMA OneRuns ==
  ASSUME [MCNext]_CommunityVars
  PROVE  /\ [ChatNext]_chatVars /\ [GoalNext]_goalVars /\ [BadgeNext]_badgeVars
         /\ [ReviewNext]_reviewVars /\ [PageNext]_pageVars
<1>1. CASE UNCHANGED CommunityVars
  BY <1>1 DEF CommunityVars
<1>2. CASE MCNext
  <2>1. CASE runs \in {"presence", "threads", "notes"}
    BY <1>2, <2>1 DEF MCNext, Only, Rests, ChatNext
  <2>2. CASE runs \notin {"presence", "threads", "notes"}
    BY <1>2, <2>2 DEF MCNext, Only, Rests
  <2>. QED  BY <2>1, <2>2
<1>. QED  BY <1>1, <1>2

\* The components start as each of them does alone.
LEMMA AllStart == MCInit => ChatInit /\ GoalInit /\ BadgeInit /\ ReviewInit /\ PageInit
  BY DEF MCInit

\* The whole is a behaviour of each component.
LEMMA CommunityIsEach == MCSpec => ChatSpec /\ GoalSpec /\ BadgeSpec /\ ReviewSpec /\ PageSpec
  BY OneRuns, AllStart, PTL DEF MCSpec, CommunityVars, ChatSpec, GoalSpec, BadgeSpec, ReviewSpec, PageSpec

\* What the code looks for before it creates it is there once: the conversation of a
\* pair, the goals of an athlete within their limit and titles, the award of a badge
\* and the review of a booking, unless two calls that make it overlap.
THEOREM EachIsMadeOnce == MCSpec => []MadeOnce
<1>1. MCSpec => /\ []OneConversationPerPair /\ []GoalsWithinLimits
                /\ []AwardsKept /\ []OneReviewPerBooking
  BY CommunityIsEach, PairHasOneConversation, GoalsKeepTheirLimits, AwardsAreKept, ReviewedOnce
<1>. QED  BY <1>1, PTL DEF MadeOnce

\* The percentage of a goal follows its latest progress, the progress of a badge its
\* eligibility, the rating of a coach his reviews, in every behaviour that is run: apart
\* from the meetings, changes and failures each of the three names.
THEOREM FiguresAreTrue == MCSpec => []FiguresFollow
  BY CommunityIsEach, ProgressIsShown, PercentIsHonest, RatingIsOfReviews, PTL DEF FiguresFollow

\* Every component keeps its types, in every behaviour that is run.
THEOREM CommunityTypes == MCSpec => []CommunityTypeOK
  BY CommunityIsEach, ChatTypesKept, GoalTypesKept, BadgeTypesKept, ReviewTypesKept, PageTypesKept, PTL
     DEF CommunityTypeOK

\* A client is shown what there is: all rows of a list that he reads page by page, and
\* all messages of the conversation he follows.
THEOREM EverythingIsShown == MCSpec => []ShowsEverything
  BY CommunityIsEach, ReadingIsComplete, RoomIsComplete, PTL DEF ShowsEverything
=============================================================================
