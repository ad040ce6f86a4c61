----------------------- MODULE Collaboration_proofs ------------------------
(***************************************************************************)
(* Proofs about ChatPresence, ChatFeed, CaseRecords and Listings, for any  *)
(* sockets, members, messages, firms, calls, rows and page sizes, and any  *)
(* number of handlers.                                                     *)
(***************************************************************************)
EXTENDS Collaboration, FiniteSetTheorems, TLAPS

-----------------------------------------------------------------------------
(* ChatPresence.  OnlineIsConnected is not inductive: a tab that closes    *)
(* takes its user off the map, so that no other tab of his may be let in   *)
(* (Single), and one that closed early enters him for good.                *)

\* Only a blurred user has two connections, or one that closed too early.
Single ==
    /\ \A s \in Sockets : socket[s].st = "closed" => socket[s].user \in blurred
    /\ \A s, t \in Sockets :
         socket[s] # Off /\ socket[t] # Off /\ socket[s].user = socket[t].user
           => s = t \/ socket[s].user \in blurred

PresenceInv == PresenceTypeOK /\ Single /\ OnlineIsConnected /\ ViewsAgree

LEMMA SocketShape ==
    ASSUME NEW x \in Socket
    PROVE  /\ x = Off <=> x.st = "off"
           /\ x # Off => x.user \in ChatUsers
           /\ x.st = "on" => x.view \subseteq ChatUsers
BY DEF Socket, Off

\* The guard names the user of a tab, or the tab closes, while it is verified.
LEMMA Verifying ==
    ASSUME NEW x \in Socket, x.st = "verifying"
    PROVE  /\ [x EXCEPT !.known = TRUE] \in Socket
           /\ [x EXCEPT !.known = TRUE].st = "verifying"
           /\ [x EXCEPT !.known = TRUE].user = x.user
           /\ [x EXCEPT !.st = "closed"] \in Socket
           /\ [x EXCEPT !.st = "closed"].st = "closed"
           /\ [x EXCEPT !.st = "closed"].user = x.user
<1>1. x \in [st : {"verifying", "closed"}, user : ChatUsers, known : BOOLEAN]
  BY DEF Socket, Off
<1> QED BY <1>1 DEF Socket

LEMMA NewView ==
    ASSUME NEW x \in Socket, x.st = "on", NEW w \in SUBSET ChatUsers
    PROVE  /\ [x EXCEPT !.view = w] \in Socket
           /\ [x EXCEPT !.view = w].st = "on"
           /\ [x EXCEPT !.view = w].user = x.user
           /\ [x EXCEPT !.view = w].view = w
<1>1. x \in [st : {"on"}, user : ChatUsers, view : SUBSET ChatUsers]
  BY DEF Socket, Off
<1> QED BY <1>1 DEF Socket

\* An announcement changes views only.
LEMMA Announced ==
    ASSUME PresenceTypeOK, NEW u \in ChatUsers
    PROVE  /\ Came(socket, u) \in [Sockets -> Socket]
           /\ Went(socket, u) \in [Sockets -> Socket]
           /\ \A s \in Sockets :
                /\ Came(socket, u)[s].st = socket[s].st
                /\ Went(socket, u)[s].st = socket[s].st
                /\ socket[s] # Off => /\ Came(socket, u)[s].user = socket[s].user
                                      /\ Went(socket, u)[s].user = socket[s].user
                /\ socket[s].st = "on" =>
                     /\ Came(socket, u)[s].view = socket[s].view \union {u}
                     /\ Went(socket, u)[s].view = socket[s].view \ {u}
<1> SUFFICES ASSUME NEW s \in Sockets
             PROVE  /\ Came(socket, u)[s] \in Socket /\ Went(socket, u)[s] \in Socket
                    /\ Came(socket, u)[s].st = socket[s].st
                    /\ Went(socket, u)[s].st = socket[s].st
                    /\ socket[s] # Off => /\ Came(socket, u)[s].user = socket[s].user
                                          /\ Went(socket, u)[s].user = socket[s].user
                    /\ socket[s].st = "on" =>
                         /\ Came(socket, u)[s].view = socket[s].view \union {u}
                         /\ Went(socket, u)[s].view = socket[s].view \ {u}
  BY DEF Came, Went
<1> DEFINE x == socket[s]
<1>1. x \in Socket
  BY DEF PresenceTypeOK
<1>2. CASE x.st = "on"
  <2>1. x.view \subseteq ChatUsers
    BY <1>1, <1>2, SocketShape
  <2>2. x.view \union {u} \in SUBSET ChatUsers /\ x.view \ {u} \in SUBSET ChatUsers
    BY <2>1
  <2>3. Came(socket, u)[s] = [x EXCEPT !.view = x.view \union {u}]
        /\ Went(socket, u)[s] = [x EXCEPT !.view = x.view \ {u}]
    BY <1>2 DEF Came, Went
  <2> HIDE DEF x
  <2>4. QED
    BY <1>1, <1>2, <2>2, <2>3, SocketShape, NewView DEF x
<1>3. CASE x.st # "on"
  BY <1>1, <1>3 DEF Came, Went
<1> QED BY <1>2, <1>3

LEMMA PresenceStart == PresenceInit => PresenceInv
<1> SUFFICES ASSUME PresenceInit PROVE PresenceInv
  OBVIOUS
<1>1. Off \in Socket
  BY DEF Socket
<1> QED BY <1>1 DEF PresenceInit, PresenceInv, PresenceTypeOK, Single, OnlineIsConnected,
              ViewsAgree, Holds, Off

\* A tab connects, or closes without having been let in.
LEMMA DoorKeeps ==
    ASSUME PresenceInv, NEW s \in Sockets,
           (\E u \in ChatUsers : Connect(s, u)) \/ Unauthorized(s) \/ GuardedEvent(s)
    PROVE  PresenceInv'
<1> PresenceTypeOK /\ Single /\ OnlineIsConnected /\ ViewsAgree
  BY DEF PresenceInv
<1>0. socket[s] \in Socket /\ Off \in Socket
  BY DEF PresenceTypeOK, Socket
<1>1. ASSUME NEW u \in ChatUsers, Connect(s, u) PROVE PresenceInv'
  <2> DEFINE next == [st |-> "verifying", user |-> u, known |-> FALSE]
  <2>1. next \in Socket /\ next.st = "verifying" /\ next.user = u /\ next # Off
    BY DEF Socket, Off
  <2>2. socket' = [socket EXCEPT ![s] = next] /\ UNCHANGED onlineUsers /\ socket[s].st = "off"
    BY <1>1 DEF Connect, Off
  <2>3. blurred' = blurred \union {v \in {u} : \E t \in Sockets : Holds(t, v)}
    BY <1>1 DEF Connect
  <2> HIDE DEF next
  <2>4. PresenceTypeOK'
    BY <2>1, <2>2, <2>3 DEF PresenceTypeOK
  <2>5. Single'
    BY <2>1, <2>2, <2>3 DEF Single, PresenceTypeOK, Holds
  <2>6. OnlineIsConnected' /\ ViewsAgree'
    BY <2>1, <2>2, <2>3 DEF OnlineIsConnected, ViewsAgree, PresenceTypeOK, Holds, Off
  <2> QED BY <2>4, <2>5, <2>6 DEF PresenceInv
<1>2. CASE Unauthorized(s)
  <2>1. socket' = [socket EXCEPT ![s] = Off] /\ UNCHANGED <<onlineUsers, blurred>>
        /\ socket[s].st \in {"verifying", "closed"} /\ Off.st = "off"
    BY <1>2 DEF Unauthorized, Off
  <2>2. PresenceTypeOK'
    BY <1>0, <2>1 DEF PresenceTypeOK
  <2>3. Single'
    BY <2>1 DEF Single, PresenceTypeOK
  <2>4. OnlineIsConnected' /\ ViewsAgree'
    BY <2>1 DEF OnlineIsConnected, ViewsAgree, PresenceTypeOK, Holds
  <2> QED BY <2>2, <2>3, <2>4 DEF PresenceInv
<1>3. CASE GuardedEvent(s)
  <2> DEFINE next == [socket[s] EXCEPT !.known = TRUE]
  <2>1. next \in Socket /\ next.st = "verifying" /\ next.user = socket[s].user /\ socket[s] # Off
    BY <1>0, <1>3, SocketShape, Verifying DEF GuardedEvent
  <2>2. socket' = [socket EXCEPT ![s] = next] /\ UNCHANGED <<onlineUsers, blurred>>
        /\ socket[s].st = "verifying"
    BY <1>3 DEF GuardedEvent
  <2>3. next # Off
    BY <2>1 DEF Off
  <2> HIDE DEF next
  <2>4. PresenceTypeOK'
    BY <2>1, <2>2 DEF PresenceTypeOK
  <2>5. Single'
    BY <2>1, <2>2, <2>3 DEF Single, PresenceTypeOK
  <2>6. OnlineIsConnected' /\ ViewsAgree'
    BY <2>1, <2>2, <2>3 DEF OnlineIsConnected, ViewsAgree, PresenceTypeOK, Holds
  <2> QED BY <2>4, <2>5, <2>6 DEF PresenceInv
<1> QED BY <1>1, <1>2, <1>3

\* The token is verified: the user is entered and every tab is told.
LEMMA EntryKeeps ==
    ASSUME PresenceInv, NEW s \in Sockets, Enter(s) \/ EnterClosed(s)
    PROVE  PresenceInv'
<1> DEFINE u == socket[s].user
<1> PresenceTypeOK /\ Single /\ OnlineIsConnected /\ ViewsAgree
  BY DEF PresenceInv
<1>1. socket[s] \in Socket /\ socket[s].st \in {"verifying", "closed"} /\ u \in ChatUsers
      /\ socket[s] # Off
  BY SocketShape DEF PresenceTypeOK, Enter, EnterClosed
<1>2. onlineUsers' = onlineUsers \union {u} /\ onlineUsers' \in SUBSET ChatUsers
      /\ UNCHANGED blurred
  BY <1>1 DEF Enter, EnterClosed, PresenceTypeOK
<1>3. /\ Came(socket, u) \in [Sockets -> Socket]
      /\ \A t \in Sockets :
           /\ Came(socket, u)[t].st = socket[t].st
           /\ socket[t] # Off => Came(socket, u)[t].user = socket[t].user
           /\ socket[t].st = "on" => Came(socket, u)[t].view = onlineUsers'
  BY <1>1, <1>2, Announced DEF ViewsAgree
<1>4. PICK next \in Socket : /\ socket' = [Came(socket, u) EXCEPT ![s] = next]
                             /\ \/ Enter(s) /\ next.st = "on" /\ next.user = u
                                   /\ next.view = onlineUsers'
                                \/ EnterClosed(s) /\ next = Off
  <2>1. CASE Enter(s)
    <3> DEFINE next == [st |-> "on", user |-> u, view |-> onlineUsers']
    <3>1. next \in Socket
      BY <1>1, <1>2 DEF Socket
    <3> QED BY <2>1, <3>1 DEF Enter
  <2>2. CASE EnterClosed(s)
    BY <2>2 DEF EnterClosed, Socket
  <2> QED BY <2>1, <2>2
<1>5. next.st = "off" <=> next = Off
  BY SocketShape
<1>6. socket'[s] = next
  BY <1>3, <1>4
<1>6a. ASSUME NEW t \in Sockets, t # s
       PROVE  /\ socket'[t].st = socket[t].st
              /\ socket'[t] # Off => socket[t] # Off
              /\ socket[t] # Off => socket'[t] # Off /\ socket'[t].user = socket[t].user
              /\ socket[t].st = "on" => socket'[t].view = onlineUsers'
  <2>1. socket[t] \in Socket /\ Came(socket, u)[t] \in Socket
    BY <1>3 DEF PresenceTypeOK
  <2>2. (socket[t] = Off <=> socket[t].st = "off")
        /\ (Came(socket, u)[t] = Off <=> Came(socket, u)[t].st = "off")
    BY <2>1, SocketShape
  <2>3. socket'[t] = Came(socket, u)[t]
    BY <1>3, <1>4, <1>6a
  <2> QED BY <1>3, <2>2, <2>3
<1>7. PresenceTypeOK'
  BY <1>2, <1>3, <1>4 DEF PresenceTypeOK
<1>8. Single'
  <2>1. next # Off => next.user = u
    BY <1>4
  <2>2. \A t \in Sockets : socket'[t] # Off => socket[t] # Off /\ socket'[t].user = socket[t].user
    BY <1>1, <1>6, <1>6a, <2>1
  <2>3. \A t \in Sockets : socket'[t].st = "closed" => socket[t].st = "closed"
    BY <1>4, <1>5, <1>6, <1>6a
  <2>4. Off.st # "closed"
    BY DEF Off
  <2> QED BY <1>2, <2>2, <2>3, <2>4 DEF Single
<1>9. OnlineIsConnected'
  <2> SUFFICES ASSUME NEW v \in ChatUsers, v \notin blurred
               PROVE  v \in onlineUsers' <=>
                        \E t \in Sockets : socket'[t] # Off /\ socket'[t].user = v /\ socket'[t].st = "on"
    BY <1>2 DEF OnlineIsConnected, Holds
  <2>1. v \in onlineUsers <=>
          \E t \in Sockets : socket[t] # Off /\ socket[t].user = v /\ socket[t].st = "on"
    BY DEF OnlineIsConnected, Holds
  <2>2. \A t \in Sockets : t # s /\ socket[t].st = "on" =>
          socket'[t] # Off /\ socket[t] # Off /\ socket'[t].user = socket[t].user /\ socket'[t].st = "on"
    <3>1. Off.st # "on"
      BY DEF Off
    <3> QED BY <1>6a, <3>1, SocketShape DEF PresenceTypeOK
  <2>3. CASE Enter(s)
    <3>1. next # Off /\ next.user = u /\ next.st = "on"
      BY <1>4, <1>5, <2>3, <1>1 DEF Enter, EnterClosed
    <3>2. socket[s].st # "on"
      BY <1>1
    <3> QED BY <1>2, <1>6, <1>6a, <2>1, <2>2, <3>1, <3>2
  <2>4. CASE EnterClosed(s)
    <3>1. u \in blurred /\ u # v /\ socket[s].st # "on" /\ next = Off
      BY <1>4, <1>1, <2>4 DEF EnterClosed, Enter, Single
    <3> QED BY <1>2, <1>6, <1>6a, <2>1, <2>2, <3>1
  <2> QED BY <2>3, <2>4
<1>10. ViewsAgree'
  <2>1. next.st = "on" => next.view = onlineUsers'
    BY <1>4, <1>5
  <2> QED BY <1>6, <1>6a, <2>1 DEF ViewsAgree
<1> QED BY <1>7, <1>8, <1>9, <1>10 DEF PresenceInv

\* A tab closes: its user leaves the map, unless nobody had named him yet.
LEMMA DisconnectKeeps ==
    ASSUME PresenceInv, NEW s \in Sockets, Disconnect(s) \/ DisconnectEarly(s)
    PROVE  PresenceInv'
<1> DEFINE u == socket[s].user
<1> PresenceTypeOK /\ Single /\ OnlineIsConnected /\ ViewsAgree
  BY DEF PresenceInv
<1>1. socket[s] \in Socket /\ socket[s].st \in {"on", "verifying"} /\ u \in ChatUsers
      /\ socket[s] # Off /\ Off \in Socket /\ Off.st = "off"
  <2>1. socket[s] \in Socket /\ Off \in Socket /\ Off.st = "off"
    BY DEF PresenceTypeOK, Socket, Off
  <2> QED BY <2>1, SocketShape DEF Disconnect, DisconnectEarly
<1> DEFINE told == socket[s].st = "on" \/ socket[s].known
           heard == IF told THEN Went(socket, u) ELSE socket
           next == IF socket[s].st = "on" THEN Off ELSE [socket[s] EXCEPT !.st = "closed"]
<1>2. /\ next \in Socket
      /\ Disconnect(s) => next = Off
      /\ DisconnectEarly(s) => next.st = "closed" /\ next.user = u
  BY <1>1, Verifying DEF Disconnect, DisconnectEarly
<1>2a. /\ socket' = [heard EXCEPT ![s] = next]
       /\ onlineUsers' = IF told THEN onlineUsers \ {u} ELSE onlineUsers
  BY DEF Disconnect, DisconnectEarly
<1>2b. /\ heard \in [Sockets -> Socket]
       /\ \A t \in Sockets :
            /\ heard[t].st = socket[t].st
            /\ socket[t] # Off => heard[t].user = socket[t].user
            /\ socket[t].st = "on" => heard[t].view = onlineUsers'
  <2>1. /\ Went(socket, u) \in [Sockets -> Socket]
        /\ \A t \in Sockets :
             /\ Went(socket, u)[t].st = socket[t].st
             /\ socket[t] # Off => Went(socket, u)[t].user = socket[t].user
             /\ socket[t].st = "on" => Went(socket, u)[t].view = onlineUsers \ {u}
    BY <1>1, Announced DEF ViewsAgree
  <2>2. CASE told
    BY <1>2a, <2>1, <2>2
  <2>3. CASE ~told
    BY <1>2a, <2>3 DEF PresenceTypeOK, ViewsAgree
  <2> QED BY <2>2, <2>3
<1> HIDE DEF heard, next
<1>3. /\ onlineUsers' \subseteq ChatUsers /\ blurred' \subseteq ChatUsers
      /\ blurred \subseteq blurred' /\ (DisconnectEarly(s) => u \in blurred')
      /\ onlineUsers' = onlineUsers \ {u} \/ (DisconnectEarly(s) /\ onlineUsers' = onlineUsers)
  BY <1>1 DEF Disconnect, DisconnectEarly, PresenceTypeOK
<1>4. socket'[s] = next /\ (next.st = "off" <=> next = Off)
  BY <1>2, <1>2a, <1>2b, SocketShape
<1>5. ASSUME NEW t \in Sockets, t # s
      PROVE  /\ socket'[t].st = socket[t].st
             /\ socket'[t] # Off <=> socket[t] # Off
             /\ socket[t] # Off => socket'[t].user = socket[t].user
             /\ socket[t].st = "on" => socket'[t].view = onlineUsers'
  <2>1. socket[t] \in Socket /\ heard[t] \in Socket /\ socket'[t] = heard[t]
    BY <1>2a, <1>2b, <1>5 DEF PresenceTypeOK
  <2>2. (socket[t] = Off <=> socket[t].st = "off") /\ (heard[t] = Off <=> heard[t].st = "off")
    BY <2>1, SocketShape
  <2> QED BY <1>2b, <2>1, <2>2
<1>6. PresenceTypeOK'
  BY <1>2, <1>2a, <1>2b, <1>3 DEF PresenceTypeOK
<1>7. Single'
  <2>1. \A t \in Sockets : socket'[t] # Off => socket[t] # Off /\ socket'[t].user = socket[t].user
    BY <1>1, <1>2, <1>4, <1>5
  <2>2. \A t \in Sockets : socket'[t].st = "closed" =>
          socket[t].st = "closed" \/ (t = s /\ u \in blurred' /\ socket'[t].user = u)
    <3>1. next.st = "closed" => u \in blurred' /\ next.user = u
      BY <1>1, <1>2, <1>3
    <3> QED BY <1>4, <1>5, <3>1
  <2>3. \A t \in Sockets : socket'[t].st = "closed" => socket'[t] # Off
    BY <1>1
  <2>4. \A t \in Sockets : socket'[t].st = "closed" => socket'[t].user \in blurred'
    BY <1>3, <2>1, <2>2, <2>3 DEF Single
  <2> QED BY <1>3, <2>1, <2>4 DEF Single
<1>8. OnlineIsConnected'
  <2> SUFFICES ASSUME NEW v \in ChatUsers, v \notin blurred'
               PROVE  v \in onlineUsers' <=>
                        \E t \in Sockets : socket'[t] # Off /\ socket'[t].user = v /\ socket'[t].st = "on"
    BY DEF OnlineIsConnected, Holds
  <2>1. v \in onlineUsers <=>
          \E t \in Sockets : socket[t] # Off /\ socket[t].user = v /\ socket[t].st = "on"
    BY <1>3 DEF OnlineIsConnected, Holds
  <2>2. socket'[s].st # "on"
    BY <1>1, <1>2, <1>4
  <2>3. CASE v # u
    BY <1>1, <1>3, <1>5, <2>1, <2>2, <2>3
  <2>4. CASE v = u
    <3>1. onlineUsers' = onlineUsers \ {u}
      BY <1>3, <2>4
    <3>2. \A t \in Sockets : t # s => ~(socket[t] # Off /\ socket[t].user = u)
      BY <1>1, <1>3, <2>4 DEF Single
    <3> QED BY <1>5, <2>2, <2>4, <3>1, <3>2
  <2> QED BY <2>3, <2>4
<1>9. ViewsAgree'
  BY <1>1, <1>2, <1>4, <1>5 DEF ViewsAgree
<1> QED BY <1>6, <1>7, <1>8, <1>9 DEF PresenceInv

LEMMA PresenceStep == PresenceInv /\ [PresenceNext]_presenceVars => PresenceInv'
<1> SUFFICES ASSUME PresenceInv, [PresenceNext]_presenceVars PROVE PresenceInv'
  OBVIOUS
<1>1. CASE UNCHANGED presenceVars
  BY <1>1 DEF presenceVars, PresenceInv, PresenceTypeOK, Single, OnlineIsConnected, ViewsAgree,
              Holds
<1>2. CASE Restart
  <2>1. Off \in Socket /\ Off.st = "off"
    BY DEF Socket, Off
  <2> QED BY <1>2, <2>1 DEF Restart, PresenceInv, PresenceTypeOK, Single, OnlineIsConnected,
                            ViewsAgree, Holds
<1> QED BY <1>1, <1>2, DoorKeeps, EntryKeeps, DisconnectKeeps DEF PresenceNext

\* Every reachable state of the presence map and its sockets is well typed.
THEOREM PresenceTypeCorrect == PresenceSpec => []PresenceTypeOK
<1>1. PresenceInv => PresenceTypeOK
  BY DEF PresenceInv
<1> QED BY <1>1, PresenceStart, PresenceStep, PTL DEF PresenceSpec

\* A user with one tab at a time is online exactly while it is let in, however
\* connections, events before admission, closings and restarts interleave.
THEOREM OnlineIsConnectedHolds == PresenceSpec => []OnlineIsConnected
<1>1. PresenceInv => OnlineIsConnected
  BY DEF PresenceInv
<1> QED BY <1>1, PresenceStart, PresenceStep, PTL DEF PresenceSpec

\* Every tab let in shows the users that the map holds.
THEOREM ViewsAgreeHolds == PresenceSpec => []ViewsAgree
<1>1. PresenceInv => ViewsAgree
  BY DEF PresenceInv
<1> QED BY <1>1, PresenceStart, PresenceStep, PTL DEF PresenceSpec

-----------------------------------------------------------------------------
(* ChatFeed.  What a screen shows was brought by an announcement or a page *)
(* that may have been on its way for long, so each invariant binds those   *)
(* too.  The screens of members who are not in the room show nothing, and  *)
(* a page is complete but for what is still to be announced (Complete); a  *)
(* deleted message is on no screen and on no way to one, unless its        *)
(* deletion is still to be announced or crossed a copy (Gone).             *)

Listed(rd) == message[rd[2]] # None /\ message[rd[2]].readBy[rd[1]] > 0
Live(m) == message[m] # None /\ ~message[m].deleted

\* Screens and pages speak of messages that exist, and only of a room joined.
Existing ==
    /\ \A u \in Members :
         /\ ~screen[u].inRoom => screen[u].shown = {}
         /\ \A m \in screen[u].shown : message[m] # None
    /\ \A r \in Requests : chatReq[r].pc = "page" =>
         /\ screen[chatReq[r].user].inRoom
         /\ \A m \in chatReq[r].items : message[m] # None

\* A reader about to be shown is in the row's list.
ReadersUnderway ==
    \A r \in Requests :
        /\ chatReq[r].pc = "page" => \A rd \in chatReq[r].readers : Listed(rd)
        /\ chatReq[r].pc = "announce" /\ chatReq[r].event = "read" =>
             Listed(<<chatReq[r].user, chatReq[r].id>>)

Complete ==
    \A r \in Requests : chatReq[r].pc = "page" =>
        \A m \in Messages : Live(m) =>
            \/ m \in chatReq[r].items \union screen[chatReq[r].user].shown
            \/ ToAnnounce("new", m)

Gone ==
    /\ \A r \in Requests : chatReq[r].pc = "announce" /\ chatReq[r].event = "deleted" =>
         message[chatReq[r].id].deleted
    /\ \A m \in Messages : message[m] # None /\ message[m].deleted =>
         \/ ToAnnounce("deleted", m) \/ m \in crossed
         \/ ~Underway(m) /\ \A u \in Members : m \notin screen[u].shown

ReadingOf(r, u, m) == chatReq[r].pc = "reading" /\ chatReq[r].user = u /\ chatReq[r].id = m

\* A reader whose calls did not overlap is about to be listed only if he is not.
ReadOnce ==
    \A u \in Members, m \in Messages : <<u, m>> \notin overlapped =>
        /\ message[m] # None => message[m].readBy[u] <= 1
        /\ \A r \in Requests : ReadingOf(r, u, m) => message[m].readBy[u] = 0
        /\ \A r, q \in Requests : ReadingOf(r, u, m) /\ ReadingOf(q, u, m) => r = q

LEMMA ChatShape ==
    ASSUME NEW q \in ChatRequest
    PROVE  /\ q = Idle <=> q.pc = "idle"
           /\ q.pc \in {"announce", "deleting", "reading", "page"} => q.user \in Members
           /\ q.pc \in {"announce", "deleting", "reading"} => q.id \in Messages
           /\ q.pc = "announce" => q.event \in {"new", "deleted", "read"}
           /\ q.pc = "page" => q.items \subseteq Messages /\ q.readers \subseteq Members \X Messages
           /\ q.pc \in {"idle", "announce", "deleting", "reading", "page"}
BY DEF ChatRequest, Idle

LEMMA IdleChats == Idle \in ChatRequest /\ Idle.pc = "idle"
BY DEF ChatRequest, Idle

LEMMA AnnouncingFits ==
    ASSUME NEW event \in {"new", "deleted", "read"}, NEW u \in Members, NEW m \in Messages
    PROVE  /\ Announcing(event, u, m) \in ChatRequest
           /\ Announcing(event, u, m).pc = "announce"
           /\ Announcing(event, u, m).event = event
           /\ Announcing(event, u, m).user = u
           /\ Announcing(event, u, m).id = m
BY DEF ChatRequest, Announcing

\* The writes to a row.
LEMMA RowMoves ==
    ASSUME NEW x \in Row
    PROVE  /\ [x EXCEPT !.deleted = TRUE] \in Row
           /\ [x EXCEPT !.deleted = TRUE].deleted
           /\ [x EXCEPT !.deleted = TRUE].readBy = x.readBy
           /\ x.readBy \in [Members -> Nat] /\ x.deleted \in BOOLEAN /\ x # None
BY RowAssumption DEF Row

LEMMA NewReadBy ==
    ASSUME NEW x \in Row, NEW w \in [Members -> Nat]
    PROVE  /\ [x EXCEPT !.readBy = w] \in Row
           /\ [x EXCEPT !.readBy = w].deleted = x.deleted
           /\ [x EXCEPT !.readBy = w].readBy = w
BY DEF Row

\* The views of a screen.
LEMMA ViewMoves ==
    ASSUME NEW x \in Screen, NEW q \in ChatRequest, q.pc = "announce"
    PROVE  /\ Took(x, q) \in Screen
           /\ Took(x, q).inRoom = x.inRoom /\ Took(x, q).inStep = x.inStep
           /\ Took(x, q).shown = CASE q.event = "new" -> x.shown \union {q.id}
                                   [] q.event = "deleted" -> x.shown \ {q.id}
                                   [] q.event = "read" -> x.shown
           /\ Took(x, q).readers = IF q.event = "read" THEN x.readers \union {<<q.user, q.id>>}
                                   ELSE x.readers
<1>1. q.user \in Members /\ q.id \in Messages /\ q.event \in {"new", "deleted", "read"}
  BY ChatShape
<1>2. CASE q.event = "new"
  BY <1>1, <1>2 DEF Took, Screen
<1>3. CASE q.event = "deleted"
  BY <1>1, <1>3 DEF Took, Screen
<1>4. CASE q.event = "read"
  BY <1>1, <1>4 DEF Took, Screen
<1> QED BY <1>1, <1>2, <1>3, <1>4

\* All but ReadOnce, which few steps concern.
FeedCore ==
    /\ ChatFeedTypeOK /\ Existing
    /\ ReadersUnderway /\ ReadersAreKept
    /\ Complete /\ InStepSeesAll
    /\ Gone

\* What a call holds after a step that changes neither rows nor screens.
Found(q) ==
    /\ q.pc \in {"announce", "deleting", "reading"} => message[q.id] # None
    /\ q.pc = "announce" => q.event = "read" /\ Listed(<<q.user, q.id>>)
    /\ q.pc = "page" =>
         /\ screen[q.user].inRoom
         /\ q.items = {m \in Messages : Live(m)}
         /\ \A rd \in q.readers : Listed(rd)

\* A call begins, or fails before its write.
LEMMA CallOnly ==
    ASSUME FeedCore, NEW r \in Requests, NEW next \in ChatRequest, Found(next),
           chatReq[r].pc \notin {"announce", "page"},
           chatReq' = [chatReq EXCEPT ![r] = next], UNCHANGED <<message, screen, crossed>>,
           overlapped' \subseteq Members \X Messages
    PROVE  FeedCore'
<1> /\ ChatFeedTypeOK /\ Existing /\ ReadersUnderway /\ ReadersAreKept
    /\ Complete /\ InStepSeesAll /\ Gone
  BY DEF FeedCore
<1>1. \A q \in Requests : chatReq'[q] = IF q = r THEN next ELSE chatReq[q]
  BY DEF ChatFeedTypeOK
<1>2. ChatFeedTypeOK'
  BY <1>1 DEF ChatFeedTypeOK, Found
<1>3. Existing' /\ ReadersUnderway' /\ ReadersAreKept'
  BY <1>1 DEF Existing, ReadersUnderway, ReadersAreKept, Listed, Found, Live
<1>4. \A event, m : ToAnnounce(event, m) => ToAnnounce(event, m)'
  BY <1>1 DEF ToAnnounce
<1>5. Complete' /\ InStepSeesAll'
  BY <1>1, <1>4 DEF Complete, InStepSeesAll, Live, Found
<1>6. \A m \in Messages : message[m] # None /\ message[m].deleted /\ ~Underway(m) => ~Underway(m)'
  BY <1>1 DEF Underway, Found, Live
<1>7. Gone'
  BY <1>1, <1>4, <1>6 DEF Gone, Found
<1> QED BY <1>2, <1>3, <1>5, <1>7 DEF FeedCore

LEMMA CallsKeep ==
    ASSUME FeedCore, NEW r \in Requests, NEW u \in Members,
           \/ History(r, u) \/ ChatFail(r)
           \/ \E m \in Messages : DeleteFind(r, u, m) \/ ReadFind(r, u, m)
    PROVE  FeedCore'
<1> ChatFeedTypeOK
  BY DEF FeedCore
<1>1. CASE ChatFail(r)
  <2>1. Found(Idle) /\ Idle \in ChatRequest
    BY IdleChats DEF Found
  <2> QED BY <1>1, <2>1, CallOnly DEF ChatFail, Put, ChatFeedTypeOK
<1>2. CASE History(r, u)
  <2> DEFINE live == {m \in Messages : message[m] # None /\ ~message[m].deleted}
             seen == {rd \in Members \X live : message[rd[2]].readBy[rd[1]] > 0}
             next == [pc |-> "page", user |-> u, items |-> live, readers |-> seen]
  <2>1. seen \subseteq Members \X Messages /\ \A rd \in seen : Listed(rd)
    BY DEF Listed
  <2>2. live \subseteq Messages /\ live = {m \in Messages : Live(m)}
    BY DEF Live
  <2>3. /\ chatReq' = [chatReq EXCEPT ![r] = next] /\ chatReq[r] = Idle /\ screen[u].inRoom
        /\ UNCHANGED <<message, screen, crossed, overlapped>>
    BY <1>2 DEF History, Put
  <2> HIDE DEF live, seen
  <2>4. next \in ChatRequest
    BY <2>1, <2>2 DEF ChatRequest
  <2>5. Found(next)
    BY <2>1, <2>2, <2>3 DEF Found
  <2> QED BY <2>3, <2>4, <2>5, CallOnly, IdleChats DEF ChatFeedTypeOK
<1>3. ASSUME NEW m \in Messages, DeleteFind(r, u, m) PROVE FeedCore'
  <2> DEFINE next == [pc |-> "deleting", user |-> u, id |-> m]
  <2>1. next \in ChatRequest /\ Found(next)
    BY <1>3 DEF ChatRequest, Found, DeleteFind
  <2>2. chatReq' = [chatReq EXCEPT ![r] = next] /\ chatReq[r] = Idle
        /\ UNCHANGED <<message, screen, crossed, overlapped>>
    BY <1>3 DEF DeleteFind, Put
  <2> QED BY <2>1, <2>2, CallOnly, IdleChats DEF ChatFeedTypeOK
<1>4. ASSUME NEW m \in Messages, ReadFind(r, u, m) PROVE FeedCore'
  <2> DEFINE next == IF message[m].readBy[u] > 0 THEN Announcing("read", u, m)
                     ELSE [pc |-> "reading", user |-> u, id |-> m, found |-> message[m].readBy]
  <2>1. message[m] \in Row /\ message[m] # None
    BY <1>4 DEF ReadFind, ChatFeedTypeOK
  <2>2. next \in ChatRequest
    <3>1. message[m].readBy \in [Members -> Nat]
      BY <2>1, RowMoves
    <3>2. [pc |-> "reading", user |-> u, id |-> m, found |-> message[m].readBy] \in ChatRequest
      BY <3>1 DEF ChatRequest
    <3> QED BY <3>2, AnnouncingFits
  <2>3. Found(next)
    BY <2>1, AnnouncingFits DEF Found, Listed
  <2>4. chatReq' = [chatReq EXCEPT ![r] = next] /\ chatReq[r] = Idle
        /\ UNCHANGED <<message, screen, crossed>>
        /\ overlapped' \subseteq Members \X Messages
    BY <1>4 DEF ReadFind, Put, ChatFeedTypeOK
  <2> HIDE DEF next
  <2> QED BY <2>2, <2>3, <2>4, CallOnly, IdleChats
<1> QED BY <1>1, <1>2, <1>3, <1>4

\* A call has written message m: it exists now, and keeps what it had.
Written(m) ==
    /\ message'[m] \in Row
    /\ message[m] # None =>
         /\ message[m].deleted => message'[m].deleted
         /\ \A u \in Members : message[m].readBy[u] > 0 => message'[m].readBy[u] > 0

\* Sending, deleting and reading write the row and have yet to announce it.
LEMMA WriteKeeps ==
    ASSUME FeedCore, NEW r \in Requests, NEW m \in Messages, NEW u \in Members,
           NEW event \in {"new", "deleted", "read"}, NEW x,
           message' = [message EXCEPT ![m] = x], Written(m),
           chatReq[r].pc \notin {"announce", "page"},
           chatReq' = [chatReq EXCEPT ![r] = Announcing(event, u, m)],
           UNCHANGED <<screen, crossed, overlapped>>,
           event = "new" => message[m] = None /\ ~message'[m].deleted,
           event = "deleted" => message[m] # None /\ message'[m].deleted,
           event = "read" => /\ message[m] # None /\ message'[m].readBy[u] > 0
                             /\ message'[m].deleted = message[m].deleted
    PROVE  FeedCore'
<1> DEFINE next == Announcing(event, u, m)
<1> /\ ChatFeedTypeOK /\ Existing /\ ReadersUnderway /\ ReadersAreKept
    /\ Complete /\ InStepSeesAll /\ Gone
  BY DEF FeedCore
<1>0. /\ next \in ChatRequest /\ next.pc = "announce" /\ next.event = event
      /\ next.user = u /\ next.id = m
  BY AnnouncingFits
<1> HIDE DEF next
<1>1. \A q \in Requests : chatReq'[q] = IF q = r THEN next ELSE chatReq[q]
  BY DEF ChatFeedTypeOK, next
<1>2. /\ message'[m] # None
      /\ \A n \in Messages : n # m => message'[n] = message[n]
      /\ \A n \in Messages : message[n] # None =>
           /\ message'[n] # None /\ (message[n].deleted => message'[n].deleted)
           /\ \A v \in Members : message[n].readBy[v] > 0 => message'[n].readBy[v] > 0
  <2>1. message'[m] # None
    BY RowAssumption DEF Written
  <2>2. \A n \in Messages : n # m => message'[n] = message[n]
    BY DEF ChatFeedTypeOK
  <2> QED BY <2>1, <2>2 DEF Written
<1>3. ChatFeedTypeOK'
  <2>1. message' \in [Messages -> Row \union {None}]
    BY DEF Written, ChatFeedTypeOK
  <2>2. chatReq' \in [Requests -> ChatRequest]
    BY <1>0 DEF ChatFeedTypeOK, next
  <2>3. \A q \in Requests : chatReq'[q].pc \in {"deleting", "reading", "announce"}
          => message'[chatReq'[q].id] # None
    <3> SUFFICES ASSUME NEW q \in Requests, q # r,
                        chatReq[q].pc \in {"deleting", "reading", "announce"}
                 PROVE  message'[chatReq[q].id] # None
      BY <1>0, <1>1, <1>2
    <3>1. chatReq[q].id \in Messages
      BY ChatShape DEF ChatFeedTypeOK
    <3> QED BY <1>2, <3>1 DEF ChatFeedTypeOK
  <2> QED BY <2>1, <2>2, <2>3 DEF ChatFeedTypeOK
<1>4. Existing'
  <2>1. \A v \in Members : screen[v].shown \subseteq Messages
    BY DEF ChatFeedTypeOK, Screen
  <2>2. \A q \in Requests : chatReq[q].pc = "page" => chatReq[q].items \subseteq Messages
    BY ChatShape DEF ChatFeedTypeOK
  <2> QED BY <1>0, <1>1, <1>2, <2>1, <2>2 DEF Existing
<1>5. \A rd \in Members \X Messages : Listed(rd) => Listed(rd)'
  BY <1>2 DEF Listed
<1>6. ReadersUnderway'
  <2>1. \A q \in Requests : chatReq[q].pc = "page" => chatReq[q].readers \subseteq Members \X Messages
    BY ChatShape DEF ChatFeedTypeOK
  <2>2. \A q \in Requests : chatReq[q].pc = "announce" =>
          <<chatReq[q].user, chatReq[q].id>> \in Members \X Messages
    BY ChatShape DEF ChatFeedTypeOK
  <2>3. event = "read" => Listed(<<u, m>>)'
    BY <1>2 DEF Listed
  <2> QED BY <1>0, <1>1, <1>5, <2>1, <2>2, <2>3 DEF ReadersUnderway
<1>7. ReadersAreKept'
  <2>1. \A v \in Members : screen[v].readers \subseteq Members \X Messages
    BY DEF ChatFeedTypeOK, Screen
  <2> QED BY <1>5, <2>1 DEF ReadersAreKept, Listed
<1>8. \A e, n : ToAnnounce(e, n) => ToAnnounce(e, n)'
  BY <1>1 DEF ToAnnounce
<1>9. ToAnnounce(event, m)'
  BY <1>0, <1>1 DEF ToAnnounce
<1>10. Complete' /\ InStepSeesAll'
  <2>1. \A n \in Messages : Live(n)' => Live(n) \/ ToAnnounce("new", n)'
    BY <1>2, <1>9 DEF Live
  <2>2. Complete'
    BY <1>0, <1>1, <1>8, <2>1 DEF Complete
  <2>3. InStepSeesAll'
    BY <1>8, <2>1 DEF InStepSeesAll, Live
  <2> QED BY <2>2, <2>3
<1>11. Gone'
  <2>1. \A q \in Requests : chatReq'[q].pc = "announce" /\ chatReq'[q].event = "deleted" =>
          message'[chatReq'[q].id].deleted
    <3> SUFFICES ASSUME NEW q \in Requests, q # r, chatReq[q].pc = "announce",
                        chatReq[q].event = "deleted"
                 PROVE  message'[chatReq[q].id].deleted
      BY <1>0, <1>1
    <3>1. chatReq[q].id \in Messages
      BY ChatShape DEF ChatFeedTypeOK
    <3> QED BY <1>2, <3>1 DEF ChatFeedTypeOK, Gone
  <2>2. \A n \in Messages : message'[n] # None /\ message'[n].deleted =>
          \/ ToAnnounce("deleted", n)'
          \/ (event # "new" \/ n # m) /\ message[n] # None /\ message[n].deleted
    BY <1>2, <1>9
  <2>3. \A n \in Messages : (event # "new" \/ n # m) /\ ~Underway(n) => ~Underway(n)'
    BY <1>0, <1>1 DEF Underway
  <2> QED BY <1>8, <2>1, <2>2, <2>3 DEF Gone
<1> QED BY <1>3, <1>4, <1>6, <1>7, <1>10, <1>11 DEF FeedCore

LEMMA WritesKeep ==
    ASSUME FeedCore, NEW r \in Requests,
           \/ \E u \in Members, m \in Messages : Send(r, u, m)
           \/ SoftDelete(r) \/ ReadPush(r)
    PROVE  FeedCore'
<1> ChatFeedTypeOK
  BY DEF FeedCore
<1> DEFINE q == chatReq[r]
<1>0. q \in ChatRequest
  BY DEF ChatFeedTypeOK
<1>1. ASSUME NEW u \in Members, NEW m \in Messages, Send(r, u, m) PROVE FeedCore'
  <2> DEFINE x == [by |-> u, deleted |-> FALSE, readBy |-> NoReads]
  <2>1. x \in Row /\ ~x.deleted
    BY DEF Row, NoReads
  <2>2. /\ message' = [message EXCEPT ![m] = x] /\ message[m] = None /\ chatReq[r].pc = "idle"
        /\ chatReq' = [chatReq EXCEPT ![r] = Announcing("new", u, m)]
        /\ UNCHANGED <<screen, crossed, overlapped>>
    BY <1>1 DEF Send, Put, Idle
  <2> HIDE DEF x
  <2>3. message'[m] = x /\ Written(m)
    BY <2>1, <2>2 DEF ChatFeedTypeOK, Written
  <2> QED BY <2>1, <2>2, <2>3, WriteKeeps
<1>2. CASE SoftDelete(r)
  <2> DEFINE m == q.id
             x == [message[m] EXCEPT !.deleted = TRUE]
  <2>1. m \in Messages /\ q.user \in Members /\ message[m] # None /\ q.pc = "deleting"
    BY <1>0, <1>2, ChatShape DEF SoftDelete, ChatFeedTypeOK
  <2>2. message[m] \in Row
    BY <2>1 DEF ChatFeedTypeOK
  <2>3. x \in Row /\ x.deleted /\ x.readBy = message[m].readBy
    BY <2>1, <2>2, RowMoves
  <2>4. /\ message' = [message EXCEPT ![m] = x]
        /\ chatReq' = [chatReq EXCEPT ![r] = Announcing("deleted", q.user, m)]
        /\ UNCHANGED <<screen, crossed, overlapped>>
    BY <1>2 DEF SoftDelete, Put
  <2> HIDE DEF x, m
  <2>5. message'[m] = x /\ Written(m)
    BY <2>1, <2>3, <2>4 DEF ChatFeedTypeOK, Written
  <2> QED BY <2>1, <2>3, <2>4, <2>5, WriteKeeps
<1>3. CASE ReadPush(r)
  <2> DEFINE m == q.id
             u == q.user
             w == [message[m].readBy EXCEPT ![u] = message[m].readBy[u] + 1]
             x == [message[m] EXCEPT !.readBy = w]
  <2>1. m \in Messages /\ u \in Members /\ message[m] # None /\ q.pc = "reading"
    BY <1>0, <1>3, ChatShape DEF ReadPush, ChatFeedTypeOK
  <2>2. message[m] \in Row
    BY <2>1 DEF ChatFeedTypeOK
  <2>3. x \in Row /\ x.deleted = message[m].deleted /\ x.readBy = w
        /\ message[m].readBy \in [Members -> Nat] /\ w \in [Members -> Nat]
    <3>1. message[m].readBy \in [Members -> Nat]
      BY <2>2, RowMoves
    <3>2. w \in [Members -> Nat]
      <4>1. message[m].readBy[u] + 1 \in Nat
        BY <2>1, <3>1
      <4> QED BY <3>1, <4>1
    <3> QED BY <2>2, <3>1, <3>2, NewReadBy
  <2>4. /\ message' = [message EXCEPT ![m] = x]
        /\ chatReq' = [chatReq EXCEPT ![r] = Announcing("read", u, m)]
        /\ UNCHANGED <<screen, crossed, overlapped>>
    BY <1>3 DEF ReadPush, Put
  <2> HIDE DEF x, m, u
  <2>5. x.readBy[u] > 0 /\ \A v \in Members : message[m].readBy[v] > 0 => x.readBy[v] > 0
    BY <2>1, <2>3
  <2>6. message'[m] = x /\ Written(m)
    BY <2>1, <2>3, <2>4, <2>5 DEF ChatFeedTypeOK, Written
  <2> QED BY <2>1, <2>3, <2>4, <2>5, <2>6, WriteKeeps
<1> QED BY <1>1, <1>2, <1>3

LEMMA AnnounceKeeps == ASSUME FeedCore, NEW r \in Requests, Announce(r) PROVE FeedCore'
<1> DEFINE q == chatReq[r]
<1> /\ ChatFeedTypeOK /\ Existing /\ ReadersUnderway /\ ReadersAreKept
    /\ Complete /\ InStepSeesAll /\ Gone
  BY DEF FeedCore
<1>1. q \in ChatRequest /\ q.pc = "announce" /\ q.user \in Members /\ q.id \in Messages
      /\ q.event \in {"new", "deleted", "read"} /\ message[q.id] # None
  BY ChatShape DEF Announce, ChatFeedTypeOK
<1>2. /\ Idle \in ChatRequest /\ Idle.pc = "idle"
      /\ chatReq' = [chatReq EXCEPT ![r] = Idle] /\ UNCHANGED <<message, overlapped>>
      /\ crossed' = crossed \union {m \in {q.id} : q.event = "deleted" /\ Underway(m)}
  BY IdleChats DEF Announce, Put
<1>3. \A p \in Requests : chatReq'[p] = IF p = r THEN Idle ELSE chatReq[p]
  BY <1>2 DEF ChatFeedTypeOK
<1>4. screen' = [u \in Members |-> IF screen[u].inRoom THEN Took(screen[u], q) ELSE screen[u]]
  BY DEF Announce
<1>5. ASSUME NEW u \in Members
      PROVE  /\ screen'[u] \in Screen
             /\ screen'[u].inRoom = screen[u].inRoom /\ screen'[u].inStep = screen[u].inStep
             /\ screen'[u].shown = IF ~screen[u].inRoom THEN screen[u].shown
                                   ELSE CASE q.event = "new" -> screen[u].shown \union {q.id}
                                          [] q.event = "deleted" -> screen[u].shown \ {q.id}
                                          [] q.event = "read" -> screen[u].shown
             /\ screen'[u].readers = IF screen[u].inRoom /\ q.event = "read"
                                     THEN screen[u].readers \union {<<q.user, q.id>>}
                                     ELSE screen[u].readers
  <2>1. screen[u] \in Screen
    BY DEF ChatFeedTypeOK
  <2>2. CASE screen[u].inRoom
    <3>1. screen'[u] = Took(screen[u], q)
      BY <1>4, <2>2
    <3> HIDE DEF q
    <3>2. /\ Took(screen[u], q) \in Screen
          /\ Took(screen[u], q).inRoom = screen[u].inRoom /\ Took(screen[u], q).inStep = screen[u].inStep
          /\ Took(screen[u], q).shown = CASE q.event = "new" -> screen[u].shown \union {q.id}
                                           [] q.event = "deleted" -> screen[u].shown \ {q.id}
                                           [] q.event = "read" -> screen[u].shown
          /\ Took(screen[u], q).readers = IF q.event = "read" THEN screen[u].readers \union {<<q.user, q.id>>}
                                          ELSE screen[u].readers
      BY <1>1, <2>1, ViewMoves
    <3> QED BY <2>2, <3>1, <3>2
  <2>3. CASE ~screen[u].inRoom
    BY <1>4, <2>1, <2>3
  <2> QED BY <2>2, <2>3
<1>shown. ASSUME NEW u \in Members, NEW m \in Messages
          PROVE  /\ m \in screen'[u].shown =>
                      m \in screen[u].shown \/ (screen[u].inRoom /\ q.event = "new" /\ m = q.id)
                 /\ m \in screen[u].shown /\ ~(q.event = "deleted" /\ m = q.id) => m \in screen'[u].shown
                 /\ screen[u].inRoom /\ q.event = "new" => q.id \in screen'[u].shown
                 /\ screen[u].inRoom /\ q.event = "deleted" => q.id \notin screen'[u].shown
  <2> HIDE DEF q
  <2>1. CASE screen[u].inRoom /\ q.event = "new"
    BY <1>5, <2>1
  <2>2. CASE screen[u].inRoom /\ q.event = "deleted"
    BY <1>5, <2>2
  <2>3. CASE screen[u].inRoom /\ q.event = "read"
    BY <1>5, <2>3
  <2>4. CASE ~screen[u].inRoom
    BY <1>5, <2>4
  <2> QED BY <1>1, <2>1, <2>2, <2>3, <2>4
<1>6. ChatFeedTypeOK'
  <2>1. screen' \in [Members -> Screen]
    <3>1. screen' = [u \in Members |-> screen'[u]]
      BY <1>4
    <3> QED BY <1>5, <3>1
  <2> QED BY <1>1, <1>2, <1>3, <1>5, <2>1 DEF ChatFeedTypeOK
<1>7. Existing'
  <2>1. \A u \in Members : screen'[u].shown \subseteq screen[u].shown \union {q.id}
                           /\ (~screen[u].inRoom => screen'[u].shown = screen[u].shown)
    BY <1>1, <1>5
  <2>2. \A p \in Requests : chatReq'[p].pc = "page" => chatReq[p] = chatReq'[p] /\ chatReq[p].user \in Members
    BY <1>2, <1>3, ChatShape DEF ChatFeedTypeOK
  <2> HIDE DEF q
  <2>3. \A u \in Members : /\ ~screen'[u].inRoom => screen'[u].shown = {}
                           /\ \A m \in screen'[u].shown : message[m] # None
    BY <1>1, <1>5, <2>1 DEF Existing
  <2>4. \A p \in Requests : chatReq'[p].pc = "page" =>
          /\ screen'[chatReq'[p].user].inRoom
          /\ \A m \in chatReq'[p].items : message[m] # None
    <3> SUFFICES ASSUME NEW p \in Requests, chatReq[p] = chatReq'[p], chatReq[p].pc = "page",
                        chatReq[p].user \in Members
                 PROVE  /\ screen'[chatReq[p].user].inRoom
                        /\ \A m \in chatReq[p].items : message[m] # None
      BY <2>2
    <3>1. screen'[chatReq[p].user].inRoom = screen[chatReq[p].user].inRoom
      BY <1>5
    <3> QED BY <3>1 DEF Existing
  <2>5. message' = message
    BY <1>2
  <2> QED BY <2>3, <2>4, <2>5 DEF Existing
<1>8. ReadersUnderway'
  BY <1>2, <1>3 DEF ReadersUnderway, Listed
<1>9. ReadersAreKept'
  <2>1. q.event = "read" => Listed(<<q.user, q.id>>)
    BY <1>1 DEF ReadersUnderway
  <2> HIDE DEF q
  <2>2. ASSUME NEW u \in Members, NEW rd \in screen'[u].readers PROVE Listed(rd)
    <3>1. rd \in screen[u].readers \/ (q.event = "read" /\ rd = <<q.user, q.id>>)
      BY <1>5, <2>2
    <3>2. rd \in screen[u].readers => Listed(rd)
      BY DEF ReadersAreKept, Listed
    <3> QED BY <2>1, <3>1, <3>2
  <2> QED BY <1>2, <2>2 DEF ReadersAreKept, Listed
<1>10. \A event, m : ToAnnounce(event, m) => ToAnnounce(event, m)' \/ (q.event = event /\ q.id = m)
  BY <1>3 DEF ToAnnounce
<1>11. Complete'
  <2> SUFFICES ASSUME NEW p \in Requests, p # r, chatReq[p].pc = "page",
                      NEW m \in Messages, Live(m)
               PROVE  \/ m \in chatReq[p].items \union screen'[chatReq[p].user].shown
                      \/ ToAnnounce("new", m)'
    BY <1>2, <1>3 DEF Complete, Live
  <2>1. chatReq[p].user \in Members /\ screen[chatReq[p].user].inRoom
    BY ChatShape DEF ChatFeedTypeOK, Existing
  <2>2. m \in chatReq[p].items \union screen[chatReq[p].user].shown \/ ToAnnounce("new", m)
    BY DEF Complete
  <2>3. q.event = "deleted" => q.id # m
    BY <1>1 DEF Gone, Live
  <2> HIDE DEF q
  <2>4. CASE m \in screen[chatReq[p].user].shown
    BY <1>shown, <2>1, <2>3, <2>4
  <2>5. CASE ToAnnounce("new", m)
    BY <1>10, <1>shown, <2>1, <2>5
  <2> QED BY <2>2, <2>4, <2>5
<1>12. InStepSeesAll'
  <2> SUFFICES ASSUME NEW u \in Members, NEW m \in Messages, screen[u].inStep, Live(m)
               PROVE  m \in screen'[u].shown \/ ToAnnounce("new", m)'
    BY <1>2, <1>5 DEF InStepSeesAll, Live
  <2>1. m \in screen[u].shown \/ ToAnnounce("new", m)
    BY DEF InStepSeesAll, Live
  <2>2. q.event = "deleted" => q.id # m
    BY <1>1 DEF Gone, Live
  <2>3. screen[u].inRoom
    BY DEF ChatFeedTypeOK
  <2> HIDE DEF q
  <2>4. CASE m \in screen[u].shown
    BY <1>shown, <2>2, <2>4
  <2>5. CASE ToAnnounce("new", m)
    BY <1>10, <1>shown, <2>3, <2>5
  <2> QED BY <2>1, <2>4, <2>5
<1>13. Gone'
  <2>1. \A m : ~Underway(m) => ~Underway(m)'
    BY <1>2, <1>3 DEF Underway
  <2>2. \A m : ~Underway(m) => ~(q.event = "new" /\ q.id = m)
    BY <1>1 DEF Underway
  <2>3. \A p \in Requests : chatReq'[p].pc = "announce" /\ chatReq'[p].event = "deleted" =>
          message'[chatReq'[p].id].deleted
    BY <1>2, <1>3 DEF Gone
  <2>4. ASSUME NEW m \in Messages, message[m] # None, message[m].deleted
        PROVE  \/ ToAnnounce("deleted", m)' \/ m \in crossed'
               \/ ~Underway(m)' /\ \A u \in Members : m \notin screen'[u].shown
    <3>1. CASE ToAnnounce("deleted", m)
      <4>1. CASE q.event = "deleted" /\ q.id = m
        <5>1. Underway(m) => m \in crossed'
          BY <1>2, <4>1
        <5>2. \A u \in Members : m \notin screen'[u].shown
          BY <1>5, <4>1 DEF Existing
        <5> QED BY <2>1, <5>1, <5>2
      <4> QED BY <1>10, <3>1, <4>1
    <3>2. CASE m \in crossed
      BY <1>2, <3>2
    <3>3. CASE ~Underway(m) /\ \A u \in Members : m \notin screen[u].shown
      <4>1. \A u \in Members : m \notin screen'[u].shown
        <5> HIDE DEF q
        <5> QED BY <1>shown, <2>2, <3>3
      <4> QED BY <2>1, <3>3, <4>1
    <3> QED BY <2>4, <3>1, <3>2, <3>3 DEF Gone
  <2> QED BY <1>2, <2>3, <2>4 DEF Gone
<1> QED BY <1>6, <1>7, <1>8, <1>9, <1>11, <1>12, <1>13 DEF FeedCore

\* Handlers that end without an announcement leave what was on its way as it
\* was, or less.
LEMMA FewerCalls ==
    ASSUME ChatFeedTypeOK,
           \A r \in Requests : chatReq'[r] = chatReq[r] \/ (chatReq[r].pc = "page" /\ chatReq'[r] = Idle)
    PROVE  /\ \A r \in Requests : chatReq'[r].pc # "idle" => chatReq'[r] = chatReq[r]
           /\ \A event, m : ToAnnounce(event, m) => ToAnnounce(event, m)'
           /\ \A m : ~Underway(m) => ~Underway(m)'
BY IdleChats DEF ToAnnounce, Underway

LEMMA PageKeeps == ASSUME FeedCore, NEW r \in Requests, PageArrives(r) PROVE FeedCore'
<1> DEFINE q == chatReq[r]
           x == [screen[q.user] EXCEPT !.shown = @ \union q.items,
                                       !.readers = @ \union q.readers, !.inStep = TRUE]
<1> /\ ChatFeedTypeOK /\ Existing /\ ReadersUnderway /\ ReadersAreKept
    /\ Complete /\ InStepSeesAll /\ Gone
  BY DEF FeedCore
<1>1. /\ q \in ChatRequest /\ q.pc = "page" /\ q.user \in Members /\ q.items \subseteq Messages
      /\ q.readers \subseteq Members \X Messages /\ screen[q.user] \in Screen
  BY ChatShape DEF PageArrives, ChatFeedTypeOK
<1>2. /\ x \in Screen /\ x.inStep /\ x.inRoom = screen[q.user].inRoom
      /\ x.shown = screen[q.user].shown \union q.items
      /\ x.readers = screen[q.user].readers \union q.readers
  BY <1>1 DEF Screen
<1>3. screen' = [screen EXCEPT ![q.user] = x] /\ chatReq' = [chatReq EXCEPT ![r] = Idle]
      /\ UNCHANGED <<message, crossed, overlapped>>
  BY DEF PageArrives, Put
<1> HIDE DEF x
<1>4. \A u \in Members : screen'[u] = IF u = q.user THEN x ELSE screen[u]
  BY <1>3 DEF ChatFeedTypeOK
<1>5. /\ \A p \in Requests : chatReq'[p].pc # "idle" => chatReq'[p] = chatReq[p]
      /\ \A event, m : ToAnnounce(event, m) => ToAnnounce(event, m)'
      /\ \A m : ~Underway(m) => ~Underway(m)'
  <2>1. \A p \in Requests : chatReq'[p] = chatReq[p] \/ (chatReq[p].pc = "page" /\ chatReq'[p] = Idle)
    BY <1>1, <1>3 DEF ChatFeedTypeOK
  <2> QED BY <2>1, FewerCalls
<1>6. screen[q.user].inRoom /\ (\A m \in q.items : message[m] # None)
      /\ \A rd \in q.readers : Listed(rd)
  BY <1>1 DEF Existing, ReadersUnderway
<1>7. ChatFeedTypeOK'
  <2>1. chatReq' \in [Requests -> ChatRequest] /\ screen' \in [Members -> Screen]
    BY <1>2, <1>3, IdleChats DEF ChatFeedTypeOK
  <2>2. \A u \in Members : screen'[u].inStep => screen'[u].inRoom
    BY <1>2, <1>4, <1>6 DEF ChatFeedTypeOK
  <2> QED BY <1>3, <1>5, <2>1, <2>2 DEF ChatFeedTypeOK
<1>8. Existing'
  <2>1. \A p \in Requests : chatReq'[p].pc = "page" => chatReq[p] = chatReq'[p] /\ chatReq[p].user \in Members
    BY <1>5, ChatShape DEF ChatFeedTypeOK
  <2>2. \A u \in Members :
          /\ screen'[u].inRoom = screen[u].inRoom
          /\ ~screen[u].inRoom => screen'[u].shown = screen[u].shown
          /\ screen'[u].shown \subseteq screen[u].shown \union q.items
    BY <1>2, <1>4, <1>6
  <2> HIDE DEF q
  <2> QED BY <1>3, <1>6, <2>1, <2>2 DEF Existing
<1>9. ReadersUnderway' /\ ReadersAreKept'
  <2>1. ReadersUnderway'
    BY <1>3, <1>5 DEF ReadersUnderway, Listed
  <2>2. ReadersAreKept'
    BY <1>2, <1>3, <1>4, <1>6 DEF ReadersAreKept, Listed
  <2> QED BY <2>1, <2>2
<1>10. \A u \in Members : screen[u].shown \subseteq screen'[u].shown
  BY <1>2, <1>4
<1>11. Complete'
  <2>1. \A p \in Requests : chatReq'[p].pc = "page" => chatReq[p] = chatReq'[p] /\ chatReq[p].user \in Members
    BY <1>5, ChatShape DEF ChatFeedTypeOK
  <2> QED BY <1>3, <1>5, <1>10, <2>1 DEF Complete, Live
<1>12. InStepSeesAll'
  <2> SUFFICES ASSUME NEW u \in Members, NEW m \in Messages, screen'[u].inStep, Live(m)
               PROVE  m \in screen'[u].shown \/ ToAnnounce("new", m)'
    BY <1>3 DEF InStepSeesAll, Live
  <2>1. CASE u = q.user
    <3>1. m \in q.items \union screen[q.user].shown \/ ToAnnounce("new", m)
      BY <1>1 DEF Complete
    <3> QED BY <1>2, <1>4, <1>5, <2>1, <3>1
  <2>2. CASE u # q.user
    BY <1>4, <1>5, <2>2 DEF InStepSeesAll, Live
  <2> QED BY <2>1, <2>2
<1>13. Gone'
  <2>1. \A m : m \in q.items => Underway(m)
    BY <1>1 DEF Underway
  <2>2. \A m : ~Underway(m) => \A u \in Members : m \notin screen[u].shown => m \notin screen'[u].shown
    BY <1>2, <1>4, <2>1
  <2> QED BY <1>3, <1>5, <2>2 DEF Gone
<1> QED BY <1>7, <1>8, <1>9, <1>11, <1>12, <1>13 DEF FeedCore

LEMMA AwayShows ==
    Away \in Screen /\ ~Away.inRoom /\ ~Away.inStep /\ Away.shown = {} /\ Away.readers = {}
BY DEF Away, Screen

\* A member joins or leaves the room.
LEMMA RoomKeeps ==
    ASSUME FeedCore, NEW u \in Members, JoinRoom(u) \/ LeaveRoom(u)
    PROVE  FeedCore'
<1> /\ ChatFeedTypeOK /\ Existing /\ ReadersUnderway /\ ReadersAreKept
    /\ Complete /\ InStepSeesAll /\ Gone
  BY DEF FeedCore
<1>1. CASE JoinRoom(u)
  <2> DEFINE x == [screen[u] EXCEPT !.inRoom = TRUE]
  <2>1. /\ x \in Screen /\ x.inRoom /\ x.shown = screen[u].shown /\ x.readers = screen[u].readers
        /\ x.inStep = screen[u].inStep
    <3>1. screen[u] \in Screen
      BY DEF ChatFeedTypeOK
    <3> QED BY <3>1 DEF Screen
  <2>2. screen' = [screen EXCEPT ![u] = x] /\ ~screen[u].inRoom
        /\ UNCHANGED <<message, chatReq, crossed, overlapped>>
    BY <1>1 DEF JoinRoom
  <2> HIDE DEF x
  <2>3. \A v \in Members :
          /\ screen'[v].shown = screen[v].shown /\ screen'[v].readers = screen[v].readers
          /\ screen'[v].inStep = screen[v].inStep
          /\ screen[v].inRoom => screen'[v].inRoom
    BY <2>1, <2>2 DEF ChatFeedTypeOK
  <2>4. \A r \in Requests : chatReq[r].pc = "page" => chatReq[r].user \in Members
    BY ChatShape DEF ChatFeedTypeOK
  <2>5. ChatFeedTypeOK'
    BY <2>1, <2>2, <2>3 DEF ChatFeedTypeOK
  <2>6. Existing' /\ ReadersUnderway' /\ ReadersAreKept'
    BY <2>2, <2>3, <2>4 DEF Existing, ReadersUnderway, ReadersAreKept, Listed
  <2>7. Complete' /\ InStepSeesAll'
    BY <2>2, <2>3, <2>4 DEF Complete, InStepSeesAll, ToAnnounce, Live
  <2>8. Gone'
    BY <2>2, <2>3 DEF Gone, ToAnnounce, Underway
  <2> QED BY <2>5, <2>6, <2>7, <2>8 DEF FeedCore
<1>2. CASE LeaveRoom(u)
  <2>1. screen' = [screen EXCEPT ![u] = Away] /\ UNCHANGED <<message, crossed, overlapped>>
    BY <1>2 DEF LeaveRoom
  <2>2. chatReq' = [r \in Requests |-> IF chatReq[r].pc = "page" /\ chatReq[r].user = u
                                      THEN Idle ELSE chatReq[r]]
    BY <1>2 DEF LeaveRoom
  <2>3. \A v \in Members : screen'[v] = IF v = u THEN Away ELSE screen[v]
    BY <2>1 DEF ChatFeedTypeOK
  <2>4. /\ \A r \in Requests : chatReq'[r].pc # "idle" => chatReq'[r] = chatReq[r]
        /\ \A event, m : ToAnnounce(event, m) => ToAnnounce(event, m)'
        /\ \A m : ~Underway(m) => ~Underway(m)'
    BY <2>2, FewerCalls
  <2>5. \A r \in Requests : chatReq'[r].pc = "page" =>
          chatReq'[r] = chatReq[r] /\ chatReq[r].user \in Members /\ chatReq[r].user # u
    BY <2>2, IdleChats, ChatShape DEF ChatFeedTypeOK
  <2>6. ChatFeedTypeOK'
    <3>1. chatReq' \in [Requests -> ChatRequest]
      BY <2>2, IdleChats DEF ChatFeedTypeOK
    <3> QED BY <2>1, <2>3, <2>4, <3>1, AwayShows DEF ChatFeedTypeOK
  <2>7. Existing'
    BY <2>1, <2>3, <2>5, AwayShows DEF Existing
  <2>8. ReadersUnderway' /\ ReadersAreKept'
    BY <2>1, <2>3, <2>4, <2>5, AwayShows DEF ReadersUnderway, ReadersAreKept, Listed
  <2>9. Complete' /\ InStepSeesAll'
    BY <2>1, <2>3, <2>4, <2>5, AwayShows DEF Complete, InStepSeesAll, Live
  <2>10. Gone'
    BY <2>1, <2>3, <2>4, AwayShows DEF Gone
  <2> QED BY <2>6, <2>7, <2>8, <2>9, <2>10 DEF FeedCore
<1> QED BY <1>1, <1>2

LEMMA RestartKeeps == ASSUME FeedCore, ChatRestart PROVE FeedCore'
<1> ChatFeedTypeOK
  BY DEF FeedCore
<1>1. /\ chatReq' \in [Requests -> ChatRequest] /\ \A r \in Requests : chatReq'[r].pc = "idle"
      /\ screen' \in [Members -> Screen]
      /\ \A u \in Members : screen'[u] = Away
      /\ UNCHANGED <<message, crossed, overlapped>>
  BY IdleChats, AwayShows DEF ChatRestart, AllIdle
<1>2. ChatFeedTypeOK' /\ Existing' /\ ReadersUnderway' /\ ReadersAreKept'
  BY <1>1, AwayShows DEF ChatFeedTypeOK, Existing, ReadersUnderway, ReadersAreKept
<1>3. Complete' /\ InStepSeesAll' /\ Gone'
  BY <1>1, AwayShows DEF Complete, InStepSeesAll, Gone, Underway
<1> QED BY <1>2, <1>3 DEF FeedCore

\* Nobody begins to read a message or is listed.
LEMMA NotReading ==
    ASSUME FeedCore, ReadOnce, overlapped' = overlapped,
           \A m \in Messages : message'[m] # None =>
               message[m] # None /\ message'[m].readBy = message[m].readBy,
           \A r \in Requests : chatReq'[r].pc = "reading" => chatReq'[r] = chatReq[r],
           \A m \in Messages : message[m] # None => message'[m] # None
    PROVE  ReadOnce'
<1>1. \A r \in Requests : chatReq[r].pc = "reading" =>
        chatReq[r].id \in Messages /\ message[chatReq[r].id] # None
  BY ChatShape DEF FeedCore, ChatFeedTypeOK
<1>2. \A u, m : \A r \in Requests : ReadingOf(r, u, m)' => ReadingOf(r, u, m)
  BY DEF ReadingOf
<1> SUFFICES ASSUME NEW u \in Members, NEW m \in Messages, <<u, m>> \notin overlapped
             PROVE  /\ message'[m] # None => message'[m].readBy[u] <= 1
                    /\ \A r \in Requests : ReadingOf(r, u, m)' => message'[m].readBy[u] = 0
                    /\ \A r, q \in Requests : ReadingOf(r, u, m)' /\ ReadingOf(q, u, m)' => r = q
  BY DEF ReadOnce
<1>3. \A r \in Requests : ReadingOf(r, u, m) => message[m] # None
  BY <1>1 DEF ReadingOf
<1> QED BY <1>2, <1>3 DEF ReadOnce

LEMMA ReadOnceKeeps ==
    ASSUME FeedCore, ReadOnce, [ChatFeedNext]_feedVars
    PROVE  ReadOnce'
<1> ChatFeedTypeOK
  BY DEF FeedCore
<1>0. Idle.pc = "idle" /\ Idle \in ChatRequest
  BY IdleChats
<1>1. CASE UNCHANGED feedVars
  BY <1>1, NotReading DEF feedVars
<1>2. CASE ChatRestart
  <2>1. \A r \in Requests : chatReq'[r].pc = "idle"
    BY <1>0, <1>2 DEF ChatRestart, AllIdle
  <2> QED BY <1>2, <2>1, NotReading DEF ChatRestart
<1>3. ASSUME NEW r \in Requests, Announce(r) \/ ChatFail(r) \/ PageArrives(r)
      PROVE  ReadOnce'
  <2>1. UNCHANGED <<message, overlapped>> /\ chatReq' = [chatReq EXCEPT ![r] = Idle]
    BY <1>3 DEF Announce, ChatFail, PageArrives, Put
  <2> QED BY <1>0, <2>1, NotReading DEF ChatFeedTypeOK
<1>4. ASSUME NEW r \in Requests, SoftDelete(r) PROVE ReadOnce'
  <2> DEFINE m == chatReq[r].id
  <2>1. m \in Messages /\ chatReq[r].user \in Members /\ message[m] \in Row /\ message[m] # None
    BY <1>4, ChatShape DEF SoftDelete, ChatFeedTypeOK
  <2>2. /\ message' = [message EXCEPT ![m] = [message[m] EXCEPT !.deleted = TRUE]]
        /\ chatReq' = [chatReq EXCEPT ![r] = Announcing("deleted", chatReq[r].user, m)]
        /\ overlapped' = overlapped
    BY <1>4 DEF SoftDelete, Put
  <2>3. message'[m].readBy = message[m].readBy /\ message'[m] # None
    BY <2>1, <2>2, RowMoves DEF ChatFeedTypeOK
  <2>4. chatReq'[r].pc = "announce"
    BY <2>1, <2>2, AnnouncingFits DEF ChatFeedTypeOK
  <2> HIDE DEF m
  <2> QED BY <2>1, <2>2, <2>3, <2>4, NotReading DEF ChatFeedTypeOK
<1>5. ASSUME NEW u \in Members, JoinRoom(u) \/ LeaveRoom(u) PROVE ReadOnce'
  <2>1. UNCHANGED <<message, overlapped>>
    BY <1>5 DEF JoinRoom, LeaveRoom
  <2>2. \A r \in Requests : chatReq'[r].pc = "reading" => chatReq'[r] = chatReq[r]
    BY <1>0, <1>5 DEF JoinRoom, LeaveRoom
  <2> QED BY <2>1, <2>2, NotReading
<1>6. ASSUME NEW r \in Requests, NEW u \in Members,
             History(r, u) \/ \E m \in Messages : DeleteFind(r, u, m)
      PROVE  ReadOnce'
  <2>1. UNCHANGED <<message, overlapped>>
    BY <1>6 DEF History, DeleteFind
  <2>2. \A q \in Requests : chatReq'[q].pc = "reading" => chatReq'[q] = chatReq[q]
    BY <1>6 DEF History, DeleteFind, Put, ChatFeedTypeOK
  <2> QED BY <2>1, <2>2, NotReading
<1>7. ASSUME NEW r \in Requests, NEW u \in Members, NEW m \in Messages, Send(r, u, m)
      PROVE  ReadOnce'
  <2> DEFINE x == [by |-> u, deleted |-> FALSE, readBy |-> NoReads]
  <2>1. \A v \in Members : x.readBy[v] = 0
    BY DEF NoReads
  <2>2. /\ message' = [message EXCEPT ![m] = x] /\ message[m] = None
        /\ chatReq' = [chatReq EXCEPT ![r] = Announcing("new", u, m)] /\ overlapped' = overlapped
    BY <1>7 DEF Send, Put
  <2> HIDE DEF x
  <2>3. \A q \in Requests, v \in Members, n \in Messages :
          ReadingOf(q, v, n)' => ReadingOf(q, v, n) /\ n # m
    <3>1. \A q \in Requests : chatReq[q].pc = "reading" => message[chatReq[q].id] # None
      BY DEF ChatFeedTypeOK
    <3>2. Announcing("new", u, m).pc = "announce"
      BY AnnouncingFits
    <3> QED BY <2>2, <3>1, <3>2 DEF ReadingOf, ChatFeedTypeOK
  <2>4. \A n \in Messages : n # m => message'[n] = message[n]
    BY <2>2 DEF ChatFeedTypeOK
  <2>5. message'[m] = x
    BY <2>2 DEF ChatFeedTypeOK
  <2> QED BY <2>1, <2>2, <2>3, <2>4, <2>5 DEF ReadOnce
<1>8. ASSUME NEW r \in Requests, NEW u \in Members, NEW m \in Messages, ReadFind(r, u, m)
      PROVE  ReadOnce'
  <2> DEFINE next == IF message[m].readBy[u] > 0 THEN Announcing("read", u, m)
                     ELSE [pc |-> "reading", user |-> u, id |-> m, found |-> message[m].readBy]
  <2>1. /\ message' = message /\ chatReq' = [chatReq EXCEPT ![r] = next] /\ chatReq[r] = Idle
        /\ overlapped' = overlapped \union
             {<<u, m>> : q \in {p \in Requests : chatReq[p].pc = "reading"
                                             /\ chatReq[p].user = u /\ chatReq[p].id = m}}
        /\ message[m] # None
    BY <1>8 DEF ReadFind, Put
  <2>2. next.pc = "reading" => next.user = u /\ next.id = m /\ message[m].readBy[u] = 0
    <3>1. message[m] \in Row
      BY <2>1 DEF ChatFeedTypeOK
    <3>2. message[m].readBy \in [Members -> Nat]
      BY <3>1, RowMoves
    <3>3. message[m].readBy[u] \in Nat
      BY <3>2
    <3> QED BY <3>3, AnnouncingFits
  <2> HIDE DEF next
  <2>3. overlapped \subseteq overlapped'
        /\ \A q \in Requests : ReadingOf(q, u, m) => <<u, m>> \in overlapped'
    BY <2>1 DEF ReadingOf
  <2>4. \A v, n : \A q \in Requests : ReadingOf(q, v, n)' =>
          \/ q # r /\ ReadingOf(q, v, n)
          \/ q = r /\ v = u /\ n = m /\ message[m].readBy[u] = 0
    BY <2>1, <2>2 DEF ReadingOf, ChatFeedTypeOK
  <2> QED BY <2>1, <2>3, <2>4 DEF ReadOnce
<1>9. ASSUME NEW r \in Requests, ReadPush(r) PROVE ReadOnce'
  <2> DEFINE m == chatReq[r].id
             u == chatReq[r].user
             x == [message[m] EXCEPT !.readBy = [message[m].readBy EXCEPT ![u] = message[m].readBy[u] + 1]]
  <2>1. m \in Messages /\ u \in Members /\ message[m] # None /\ message[m] \in Row
        /\ chatReq[r].pc = "reading"
    BY <1>9, ChatShape DEF ReadPush, ChatFeedTypeOK
  <2>2. /\ message' = [message EXCEPT ![m] = x] /\ overlapped' = overlapped
        /\ chatReq' = [chatReq EXCEPT ![r] = Announcing("read", u, m)]
    BY <1>9 DEF ReadPush, Put
  <2>3. /\ message[m].readBy \in [Members -> Nat]
        /\ x.readBy = [message[m].readBy EXCEPT ![u] = message[m].readBy[u] + 1]
    BY <2>1, RowMoves DEF Row
  <2>4. ReadingOf(r, u, m)
    BY <2>1 DEF ReadingOf
  <2>5. Announcing("read", u, m).pc = "announce"
    BY <2>1, AnnouncingFits
  <2> HIDE DEF x, m, u
  <2>6. /\ x.readBy[u] = message[m].readBy[u] + 1
        /\ \A v \in Members : v # u => x.readBy[v] = message[m].readBy[v]
    BY <2>1, <2>3
  <2>7. \A n \in Messages : message'[n] = IF n = m THEN x ELSE message[n]
    BY <2>2 DEF ChatFeedTypeOK
  <2>8. \A v, n : \A q \in Requests : ReadingOf(q, v, n)' => q # r /\ ReadingOf(q, v, n)
    BY <2>2, <2>5 DEF ReadingOf, ChatFeedTypeOK
  <2> SUFFICES ASSUME NEW v \in Members, NEW n \in Messages, <<v, n>> \notin overlapped
               PROVE  /\ message'[n] # None => message'[n].readBy[v] <= 1
                      /\ \A q \in Requests : ReadingOf(q, v, n)' => message'[n].readBy[v] = 0
                      /\ \A p, q \in Requests : ReadingOf(p, v, n)' /\ ReadingOf(q, v, n)' => p = q
    BY <2>2 DEF ReadOnce
  <2>9. CASE v = u /\ n = m
    <3>1. message[m].readBy[u] = 0 /\ \A q \in Requests : ReadingOf(q, u, m) => q = r
      BY <2>2, <2>4, <2>9 DEF ReadOnce
    <3> QED BY <2>6, <2>7, <2>8, <2>9, <3>1
  <2>10. CASE ~(v = u /\ n = m)
    BY <2>1, <2>2, <2>6, <2>7, <2>8, <2>10 DEF ReadOnce
  <2> QED BY <2>9, <2>10
<1> QED BY <1>1, <1>2, <1>3, <1>4, <1>5, <1>6, <1>7, <1>8, <1>9 DEF ChatFeedNext, SocketEvents

LEMMA FeedStart == ChatFeedInit => FeedCore /\ ReadOnce
<1> SUFFICES ASSUME ChatFeedInit PROVE FeedCore /\ ReadOnce
  OBVIOUS
<1>1. /\ chatReq \in [Requests -> ChatRequest] /\ \A r \in Requests : chatReq[r].pc = "idle"
      /\ screen \in [Members -> Screen] /\ \A u \in Members : screen[u] = Away
  BY IdleChats, AwayShows DEF ChatFeedInit, AllIdle
<1>2. ChatFeedTypeOK /\ Existing /\ ReadersUnderway /\ ReadersAreKept
  BY <1>1, AwayShows DEF ChatFeedInit, ChatFeedTypeOK, Existing, ReadersUnderway, ReadersAreKept
<1>3. Complete /\ InStepSeesAll /\ Gone
  BY <1>1, AwayShows DEF ChatFeedInit, Complete, InStepSeesAll, Gone, Live
<1>4. ReadOnce
  BY <1>1 DEF ChatFeedInit, ReadOnce, ReadingOf
<1> QED BY <1>2, <1>3, <1>4 DEF FeedCore

LEMMA FeedStep == FeedCore /\ ReadOnce /\ [ChatFeedNext]_feedVars => (FeedCore /\ ReadOnce)'
<1> SUFFICES ASSUME FeedCore, ReadOnce, [ChatFeedNext]_feedVars PROVE FeedCore' /\ ReadOnce'
  OBVIOUS
<1>1. CASE UNCHANGED feedVars
  BY <1>1 DEF feedVars, FeedCore, ChatFeedTypeOK, Existing, ReadersUnderway, ReadersAreKept, Listed,
              Complete, InStepSeesAll, Gone, Live, ToAnnounce, Underway, ReadOnce, ReadingOf
<1>2. ASSUME ChatRestart PROVE FeedCore'
  BY <1>2, RestartKeeps
<1>3. ASSUME NEW r \in Requests, NEW u \in Members, SocketEvents(r, u) \/ History(r, u)
      PROVE  FeedCore'
  <2>1. CASE JoinRoom(u) \/ LeaveRoom(u)
    BY <2>1, RoomKeeps
  <2>2. CASE \E m \in Messages : Send(r, u, m)
    BY <2>2, WritesKeep
  <2>3. CASE History(r, u) \/ \E m \in Messages : DeleteFind(r, u, m) \/ ReadFind(r, u, m)
    BY <2>3, CallsKeep
  <2> QED BY <1>3, <2>1, <2>2, <2>3 DEF SocketEvents
<1>4. ASSUME NEW r \in Requests,
             SoftDelete(r) \/ ReadPush(r) \/ Announce(r) \/ ChatFail(r) \/ PageArrives(r)
      PROVE  FeedCore'
  <2>1. CASE ChatFail(r)
    <3>1. chatReq[r].user \in Members
      BY <2>1, ChatShape DEF ChatFail, FeedCore, ChatFeedTypeOK
    <3> QED BY <2>1, <3>1, CallsKeep
  <2> QED BY <1>4, <2>1, WritesKeep, AnnounceKeeps, PageKeeps
<1> QED BY <1>1, <1>2, <1>3, <1>4, ReadOnceKeeps DEF ChatFeedNext

\* Every reachable state of the messages of a case is well typed.
THEOREM ChatFeedTypeCorrect == ChatFeedSpec => []ChatFeedTypeOK
<1>1. FeedCore => ChatFeedTypeOK
  BY DEF FeedCore
<1> QED BY <1>1, FeedStart, FeedStep, PTL DEF ChatFeedSpec

\* Whoever is shown as a reader is in the row's list, for good.
THEOREM ReadersAreKeptHolds == ChatFeedSpec => []ReadersAreKept
<1>1. FeedCore => ReadersAreKept
  BY DEF FeedCore
<1> QED BY <1>1, FeedStart, FeedStep, PTL DEF ChatFeedSpec

\* A screen in step shows every message there is, but for those about to be
\* announced.
THEOREM InStepSeesAllHolds == ChatFeedSpec => []InStepSeesAll
<1>1. FeedCore => InStepSeesAll
  BY DEF FeedCore
<1> QED BY <1>1, FeedStart, FeedStep, PTL DEF ChatFeedSpec

\* A deleted message lingers on a screen in step only if a copy of it crossed
\* the announcement.
THEOREM OnlyCrossedLingerHolds == ChatFeedSpec => []OnlyCrossedLinger
<1>1. FeedCore => OnlyCrossedLinger
  <2>1. ChatFeedTypeOK => \A u \in Members : screen[u].shown \subseteq Messages
    BY DEF ChatFeedTypeOK, Screen
  <2> QED BY <2>1 DEF FeedCore, OnlyCrossedLinger, Gone, Existing
<1> QED BY <1>1, FeedStart, FeedStep, PTL DEF ChatFeedSpec

\* A reader is listed once, unless two of his calls overlapped.
THEOREM ListedOnceHolds == ChatFeedSpec => []ListedOnce
<1>1. FeedCore /\ ReadOnce => ListedOnce
  <2> SUFFICES ASSUME FeedCore, ReadOnce, NEW u \in Members, NEW m \in Messages, message[m] # None,
                      message[m].readBy[u] > 1, <<u, m>> \notin overlapped
               PROVE  FALSE
    BY DEF ListedOnce
  <2>1. message[m].readBy[u] \in Nat
    <3>1. message[m] \in Row
      BY DEF FeedCore, ChatFeedTypeOK
    <3>2. message[m].readBy \in [Members -> Nat]
      BY <3>1, RowMoves
    <3> QED BY <3>2
  <2> QED BY <2>1 DEF ReadOnce
<1> QED BY <1>1, FeedStart, FeedStep, PTL DEF ChatFeedSpec

-----------------------------------------------------------------------------
(* CaseRecords.  A number is taken from a count, so what the proofs need   *)
(* is what a count still says when its insert is made: the firm has at     *)
(* least as many cases as it had, and exactly as many if no other creation *)
(* came between (Promised).  All of it is said of firms no case of which   *)
(* was renumbered or moved.  A case is known by a call that has written    *)
(* (Created), so that a call still to write has a number left.             *)

\* A creation under way holds a number its firm's count led to.
Promised ==
    \A c \in Calls : call[c].pc = "insert" /\ call[c].org \notin renumbered =>
        /\ call[c].number[1] = Prefix(call[c].org)
        /\ call[c].number[2] <= Cardinality(CasesOf(call[c].org)) + 1
        /\ ~call[c].late => call[c].number[2] = Cardinality(CasesOf(call[c].org)) + 1

Created == \A k \in Calls : case[k] # None => k \in wrote

\* How far a call has come is what it has written; what it found is there.
Progress ==
    \A c \in Calls :
        /\ call[c].pc = "found" => case[call[c].case] # None
        /\ call[c].pc \in {"new", "insert", "found"} => c \notin wrote
        /\ call[c].pc \in {"history", "log", "trail"} => c \in wrote
        /\ call[c].pc = "history" => call[c].op = "status"
        /\ call[c].pc = "trail" /\ c \notin mishap /\ call[c].op # "document"
             => <<c, "service">> \in entries

CaseInv ==
    CaseTypeOK /\ Promised /\ Created /\ Progress /\ NumberedInOrder /\ TrailIsTrue

LEMMA CallFields ==
    ASSUME NEW q \in Call
    PROVE  /\ q.pc \in {"new", "insert", "found", "history", "log", "trail", "over"}
           /\ q.pc = "insert" => /\ q.op = "create" /\ q.org \in Firms /\ q.late \in BOOLEAN
                                 /\ q.number \in Numbers
           /\ q.pc = "found" => q.op \in Ops /\ q.case \in Calls
BY DEF Call

\* A call moves on and keeps what it holds.
LEMMA CallMovesOn ==
    ASSUME NEW q \in Call
    PROVE  /\ q.pc # "new" => /\ [q EXCEPT !.pc = "over"] \in Call
                              /\ [q EXCEPT !.pc = "over"].pc = "over"
                              /\ [q EXCEPT !.pc = "over"].op = q.op
           /\ q.pc \in {"insert", "found"} => /\ [q EXCEPT !.pc = "log"] \in Call
                                              /\ [q EXCEPT !.pc = "log"].pc = "log"
                                              /\ [q EXCEPT !.pc = "log"].op = q.op
           /\ q.pc \in {"found", "log"} => /\ [q EXCEPT !.pc = "trail"] \in Call
                                           /\ [q EXCEPT !.pc = "trail"].pc = "trail"
                                           /\ [q EXCEPT !.pc = "trail"].op = q.op
           /\ q.pc = "found" => /\ [q EXCEPT !.pc = "history"] \in Call
                                /\ [q EXCEPT !.pc = "history"].pc = "history"
                                /\ [q EXCEPT !.pc = "history"].op = q.op
BY DEF Call

LEMMA CallOvertaken ==
    ASSUME NEW q \in Call, q.pc = "insert"
    PROVE  /\ [q EXCEPT !.late = TRUE] \in Call /\ [q EXCEPT !.late = TRUE].late
           /\ [q EXCEPT !.late = TRUE].pc = "insert" /\ [q EXCEPT !.late = TRUE].op = q.op
           /\ [q EXCEPT !.late = TRUE].number = q.number /\ [q EXCEPT !.late = TRUE].org = q.org
<1>1. q \in [pc : {"insert", "log", "trail", "over"}, op : {"create"}, org : Firms,
             late : BOOLEAN, number : Numbers]
  BY DEF Call
<1> QED BY <1>1 DEF Call

LEMMA NumberParts ==
    ASSUME NEW k \in Numbers
    PROVE  k = <<k[1], k[2]>> /\ k[2] \in Nat /\ k[2] >= 1
<1>1. Cardinality(Calls) \in Nat
  BY FS_CardinalityType, CallsAssumption
<1> QED BY <1>1 DEF Numbers

\* A firm has fewer cases than there are calls, while one has yet to write.
LEMMA CasesCounted ==
    ASSUME Created, NEW f
    PROVE  /\ IsFiniteSet(CasesOf(f)) /\ Cardinality(CasesOf(f)) \in Nat
           /\ \A c \in Calls \ wrote : /\ c \notin CasesOf(f)
                                       /\ Cardinality(CasesOf(f)) + 1 <= Cardinality(Calls)
<1>1. CasesOf(f) \in SUBSET Calls
  BY DEF CasesOf
<1>2. IsFiniteSet(CasesOf(f)) /\ Cardinality(CasesOf(f)) \in Nat /\ Cardinality(Calls) \in Nat
  BY <1>1, FS_Subset, FS_CardinalityType, CallsAssumption
<1>3. ASSUME NEW c \in Calls, c \notin wrote
      PROVE  c \notin CasesOf(f) /\ Cardinality(CasesOf(f)) + 1 <= Cardinality(Calls)
  <2>1. IsFiniteSet(Calls \ {c}) /\ Cardinality(Calls \ {c}) = Cardinality(Calls) - 1
    BY <1>3, FS_RemoveElement, CallsAssumption
  <2>2. c \notin CasesOf(f)
    BY <1>3 DEF Created, CasesOf
  <2>3. CasesOf(f) \in SUBSET (Calls \ {c})
    BY <1>1, <2>2
  <2>4. Cardinality(CasesOf(f)) <= Cardinality(Calls \ {c})
    BY <2>1, <2>3, FS_Subset
  <2> QED BY <1>2, <2>1, <2>2, <2>4
<1> QED BY <1>2, <1>3

LEMMA CaseStart == CaseInit => CaseInv
<1> SUFFICES ASSUME CaseInit PROVE CaseInv
  OBVIOUS
<1>1. CaseTypeOK
  BY DEF CaseInit, CaseTypeOK, Call
<1>2. Promised /\ Created /\ Progress /\ TrailIsTrue
  BY DEF CaseInit, Promised, Created, Progress, TrailIsTrue
<1>3. NumberedInOrder
  <2>1. \A f \in Firms : CasesOf(f) = {}
    BY DEF CaseInit, CasesOf
  <2>2. Cardinality({}) = 0 /\ 1 .. 0 = {}
    BY FS_EmptySet
  <2>3. \A f \in Firms : {case[k].number : k \in CasesOf(f)} = {}
    BY <2>1
  <2>4. \A f \in Firms : {Prefix(f)} \X (1 .. 0) = {}
    BY <2>2
  <2> QED BY <2>1, <2>2, <2>3, <2>4 DEF NumberedInOrder
<1> QED BY <1>1, <1>2, <1>3 DEF CaseInv

\* What a call may hold after a step in which no case is made.
Sound(q, c) ==
    /\ q.pc = "insert" => q.number = <<Prefix(q.org), Cardinality(CasesOf(q.org)) + 1>>
    /\ q.pc = "found" => case'[q.case] # None
    /\ q.pc \in {"new", "insert", "found"} => c \notin wrote'
    /\ q.pc \in {"history", "log", "trail"} => c \in wrote'
    /\ q.pc = "history" => q.op = "status"
    /\ q.pc = "trail" /\ c \notin mishap' /\ q.op # "document" => <<c, "service">> \in entries'
    /\ q.pc = "over" /\ c \in wrote' \ mishap' /\ q.op # "status" =>
         /\ <<c, "interceptor">> \in entries'
         /\ q.op # "document" => <<c, "service">> \in entries'

\* No case is made, and only firms that are noted see one renumbered or moved.
Settled ==
    /\ case' \in [Calls -> CaseRow \union {None}]
    /\ renumbered \subseteq renumbered' /\ renumbered' \subseteq Firms
    /\ \A k \in Calls : case'[k] # None <=> case[k] # None
    /\ \A k \in Calls : case[k] # None =>
         \/ {case[k].org, case'[k].org} \subseteq renumbered'
         \/ case'[k].org = case[k].org /\ case'[k].number = case[k].number

\* The cases of a firm after the step.
NewCasesOf(f) == {k \in Calls : case'[k] # None /\ case'[k].org = f}

LEMMA StandStill ==
    ASSUME CaseTypeOK, UNCHANGED <<case, renumbered>>
    PROVE  Settled
BY DEF CaseTypeOK, Settled

LEMMA SameCases ==
    ASSUME Settled, NEW g, g \notin renumbered'
    PROVE  /\ NewCasesOf(g) = CasesOf(g)
           /\ \A k \in CasesOf(g) : case'[k].number = case[k].number
BY DEF Settled, CasesOf, NewCasesOf

LEMMA StillInOrder ==
    ASSUME NumberedInOrder, Settled
    PROVE  NumberedInOrder'
<1> SUFFICES ASSUME NEW g \in Firms, g \notin renumbered'
             PROVE  {case'[k].number : k \in NewCasesOf(g)} =
                      {Prefix(g)} \X (1 .. Cardinality(NewCasesOf(g)))
  BY DEF NumberedInOrder, Prefix, CasesOf, NewCasesOf
<1>1. g \notin renumbered
  BY DEF Settled
<1>2. {case[k].number : k \in CasesOf(g)} = {Prefix(g)} \X (1 .. Cardinality(CasesOf(g)))
  BY <1>1 DEF NumberedInOrder
<1>3. NewCasesOf(g) = CasesOf(g) /\ \A k \in CasesOf(g) : case'[k].number = case[k].number
  BY SameCases
<1>4. {case'[k].number : k \in CasesOf(g)} = {case[k].number : k \in CasesOf(g)}
  BY <1>3
<1> QED BY <1>2, <1>3, <1>4

\* A call moves on and no case is made.
LEMMA CallGoes ==
    ASSUME CaseInv, NEW c \in Calls, NEW next \in Call, Sound(next, c),
           call' = [call EXCEPT ![c] = next], Settled,
           wrote' = wrote \/ wrote' = wrote \union {c},
           entries \subseteq entries', entries' \subseteq Calls \X {"service", "interceptor"},
           \A e \in entries' \ entries : e[1] \in wrote',
           mishap \subseteq mishap', mishap' \subseteq Calls
    PROVE  CaseInv'
<1> CaseTypeOK /\ Promised /\ Created /\ Progress /\ NumberedInOrder /\ TrailIsTrue
  BY DEF CaseInv
<1>1. \A d \in Calls : call'[d] = IF d = c THEN next ELSE call[d]
  BY DEF CaseTypeOK
<1>2. CaseTypeOK'
  <2>1. call' \in [Calls -> Call]
    BY DEF CaseTypeOK
  <2>2. wrote' \subseteq Calls
    BY DEF CaseTypeOK
  <2> QED BY <2>1, <2>2 DEF CaseTypeOK, Settled
<1>3. Promised'
  <2> SUFFICES ASSUME NEW d \in Calls, call'[d].pc = "insert", call'[d].org \notin renumbered'
               PROVE  /\ call'[d].number[1] = Prefix(call'[d].org)
                      /\ call'[d].number[2] <= Cardinality(NewCasesOf(call'[d].org)) + 1
                      /\ ~call'[d].late =>
                           call'[d].number[2] = Cardinality(NewCasesOf(call'[d].org)) + 1
    BY DEF Promised, CasesOf, NewCasesOf, Prefix
  <2> DEFINE f == call'[d].org
  <2>1. NewCasesOf(f) = CasesOf(f) /\ f \notin renumbered
    BY SameCases DEF Settled
  <2>2. CASE d = c
    <3>1. call'[d] = next
      BY <1>1, <2>2
    <3>2. Cardinality(CasesOf(f)) \in Nat
      BY CasesCounted
    <3>3. call'[d].number = <<Prefix(f), Cardinality(CasesOf(f)) + 1>>
      BY <3>1 DEF Sound
    <3> HIDE DEF f
    <3> QED BY <2>1, <3>2, <3>3 DEF f
  <2>3. CASE d # c
    <3>1. call'[d] = call[d]
      BY <1>1, <2>3
    <3>2. /\ call[d].number[1] = Prefix(f)
          /\ call[d].number[2] <= Cardinality(CasesOf(f)) + 1
          /\ ~call[d].late => call[d].number[2] = Cardinality(CasesOf(f)) + 1
      BY <2>1, <3>1 DEF Promised
    <3> HIDE DEF f
    <3> QED BY <2>1, <3>1, <3>2 DEF f
  <2> QED BY <2>2, <2>3
<1>4. Created'
  BY DEF Created, Settled
<1>5. Progress'
  <2> SUFFICES ASSUME NEW d \in Calls
               PROVE  /\ call'[d].pc = "found" => case'[call'[d].case] # None
                      /\ call'[d].pc \in {"new", "insert", "found"} => d \notin wrote'
                      /\ call'[d].pc \in {"history", "log", "trail"} => d \in wrote'
                      /\ call'[d].pc = "history" => call'[d].op = "status"
                      /\ call'[d].pc = "trail" /\ d \notin mishap' /\ call'[d].op # "document"
                           => <<d, "service">> \in entries'
    BY DEF Progress
  <2>1. CASE d = c
    <3>1. call'[d] = next
      BY <1>1, <2>1
    <3> QED BY <2>1, <3>1 DEF Sound
  <2>2. CASE d # c
    <3>1. call'[d] = call[d]
      BY <1>1, <2>2
    <3>2. call[d].pc = "found" => case'[call[d].case] # None
      <4>1. call[d].pc = "found" => call[d].case \in Calls
        BY CallFields DEF CaseTypeOK
      <4> QED BY <4>1 DEF Progress, Settled
    <3>3. /\ call[d].pc = "history" => call[d].op = "status"
          /\ call[d].pc = "trail" /\ d \notin mishap' /\ call[d].op # "document"
               => <<d, "service">> \in entries'
      BY DEF Progress
    <3>4. /\ call[d].pc \in {"new", "insert", "found"} => d \notin wrote'
          /\ call[d].pc \in {"history", "log", "trail"} => d \in wrote'
      BY <2>2 DEF Progress
    <3> QED BY <3>1, <3>2, <3>3, <3>4
  <2> QED BY <2>1, <2>2
<1>6. NumberedInOrder'
  BY StillInOrder
<1>7. TrailIsTrue'
  <2>1. \A e \in entries' : e[1] \in wrote'
    BY DEF TrailIsTrue
  <2>2. ASSUME NEW d \in wrote', d \notin mishap', call'[d].pc = "over", call'[d].op # "status"
        PROVE  /\ <<d, "interceptor">> \in entries'
               /\ call'[d].op # "document" => <<d, "service">> \in entries'
    <3>1. CASE d = c
      BY <1>1, <2>2, <3>1 DEF Sound
    <3>2. CASE d # c
      <4>1. d \in wrote \ mishap /\ d \in Calls
        BY <2>2, <3>2 DEF CaseTypeOK
      <4>2. call'[d] = call[d]
        BY <1>1, <3>2, <4>1
      <4> QED BY <2>2, <4>1, <4>2 DEF TrailIsTrue
    <3> QED BY <3>1, <3>2
  <2> QED BY <2>1, <2>2 DEF TrailIsTrue
<1> QED BY <1>2, <1>3, <1>4, <1>5, <1>6, <1>7 DEF CaseInv

\* A call begins, or fails before it has changed a case.
LEMMA CallsBeginAndFail ==
    ASSUME CaseInv, NEW c \in Calls, CaseRoutes(c) \/ CaseFail(c) \/ HistoryFails(c)
    PROVE  CaseInv'
<1> CaseTypeOK /\ Promised /\ Created /\ Progress /\ NumberedInOrder /\ TrailIsTrue
  BY DEF CaseInv
<1>0. call[c] \in Call
  BY DEF CaseTypeOK
<1>1. ASSUME NEW f \in Firms, Count(c, f) PROVE CaseInv'
  <2> DEFINE n == Cardinality(CasesOf(f))
             next == [pc |-> "insert", op |-> "create", org |-> f, late |-> FALSE,
                      number |-> <<Prefix(f), n + 1>>]
  <2>1. call' = [call EXCEPT ![c] = next] /\ UNCHANGED <<case, entries, wrote, mishap, renumbered>>
        /\ c \notin wrote
    BY <1>1 DEF Count, WithNumber, Progress
  <2>2. next \in Call
    <3>1. n \in Nat /\ n + 1 <= Cardinality(Calls) /\ Cardinality(Calls) \in Nat
      BY <2>1, CasesCounted, FS_CardinalityType, CallsAssumption
    <3> HIDE DEF n
    <3>2. <<Prefix(f), n + 1>> \in Numbers
      BY <3>1 DEF Numbers
    <3> QED BY <3>2 DEF Call
  <2>3. Sound(next, c)
    BY <2>1 DEF Sound
  <2> HIDE DEF next, n
  <2> QED BY <2>1, <2>2, <2>3, StandStill, CallGoes DEF CaseTypeOK
<1>2. ASSUME NEW op \in Ops, NEW k \in Calls, Find(c, op, k) PROVE CaseInv'
  <2> DEFINE next == [pc |-> "found", op |-> op, case |-> k]
  <2>1. call' = [call EXCEPT ![c] = next] /\ UNCHANGED <<case, entries, wrote, mishap, renumbered>>
        /\ c \notin wrote
    BY <1>2 DEF Find, Progress
  <2>2. next \in Call /\ Sound(next, c)
    BY <1>2, <2>1 DEF Call, Sound, Find
  <2> HIDE DEF next
  <2> QED BY <2>1, <2>2, StandStill, CallGoes DEF CaseTypeOK
<1>3. CASE CaseFail(c) \/ HistoryFails(c)
  <2> DEFINE next == [call[c] EXCEPT !.pc = "over"]
  <2>1. call' = [call EXCEPT ![c] = next] /\ UNCHANGED <<case, entries, wrote, mishap, renumbered>>
        /\ (call[c].pc \in {"insert", "found"} \/ call[c].pc = "history")
    BY <1>3 DEF CaseFail, HistoryFails, Ended
  <2>2. next \in Call /\ next.pc = "over" /\ next.op = call[c].op
    BY <1>0, <2>1, CallMovesOn
  <2> HIDE DEF next
  <2>3. Sound(next, c)
    BY <2>1, <2>2 DEF Sound, Progress
  <2> QED BY <2>1, <2>2, <2>3, StandStill, CallGoes DEF CaseTypeOK
<1> QED BY <1>1, <1>2, <1>3 DEF CaseRoutes

\* An update writes a row of any number and firm and notes both firms.
LEMMA UpdateKeeps == ASSUME CaseInv, NEW c \in Calls, Update(c) PROVE CaseInv'
<1> DEFINE k == call[c].case
           next == [call[c] EXCEPT !.pc = "log"]
<1> CaseTypeOK /\ Progress
  BY DEF CaseInv
<1>1. call[c] \in Call /\ call[c].pc = "found" /\ k \in Calls
  BY CallFields DEF CaseTypeOK, Update
<1>2. case[k] \in CaseRow
  BY <1>1 DEF Progress, CaseTypeOK
<1>3. /\ call' = [call EXCEPT ![c] = next] /\ UNCHANGED <<entries, mishap>>
      /\ wrote' = wrote \union {c}
  BY DEF Update
<1>4. PICK new \in {[x EXCEPT !.assigned = case[k].assigned] : x \in CaseRow} :
        /\ case' = [case EXCEPT ![k] = new]
        /\ renumbered' = renumbered \union
             (IF new.number = case[k].number /\ new.org = case[k].org
              THEN {} ELSE {new.org, case[k].org})
  BY Zenon DEF Update
<1>5. new \in CaseRow /\ case[k].org \in Firms /\ new.org \in Firms
  BY <1>2, <1>4 DEF CaseRow
<1>6. /\ case' = [case EXCEPT ![k] = new]
      /\ renumbered \subseteq renumbered'
      /\ renumbered' \subseteq renumbered \union {new.org, case[k].org}
      /\ \/ new.number = case[k].number /\ new.org = case[k].org
         \/ {new.org, case[k].org} \subseteq renumbered'
  BY <1>4
<1>7. next \in Call /\ next.pc = "log"
  BY <1>1, CallMovesOn
<1> HIDE DEF next
<1>8. Settled
  <2>1. \A j \in Calls : case'[j] = IF j = k THEN new ELSE case[j]
    BY <1>6 DEF CaseTypeOK
  <2>2. case' \in [Calls -> CaseRow \union {None}] /\ renumbered' \subseteq Firms
    BY <1>1, <1>5, <1>6 DEF CaseTypeOK
  <2>3. new # None /\ case[k] # None
    BY <1>2, <1>5, CallsAssumption
  <2> HIDE DEF k
  <2>4. \A j \in Calls : case'[j] # None <=> case[j] # None
    BY <2>1, <2>3
  <2>5. \A j \in Calls : case[j] # None =>
          \/ {case[j].org, case'[j].org} \subseteq renumbered'
          \/ case'[j].org = case[j].org /\ case'[j].number = case[j].number
    BY <1>6, <2>1
  <2> QED BY <1>6, <2>2, <2>4, <2>5 DEF Settled
<1>9. Sound(next, c)
  BY <1>3, <1>7 DEF Sound
<1> QED BY <1>3, <1>7, <1>8, <1>9, CallGoes DEF CaseTypeOK

\* Another change leaves every case its number and its firm.
LEMMA ChangesKeep ==
    ASSUME CaseInv, NEW c \in Calls,
           \/ (\E status \in {"open", "closed"} : UpdateStatus(c, status))
           \/ (\E l \in Lawyers : Assign(c, l))
           \/ AddDocument(c)
    PROVE  CaseInv'
<1> DEFINE k == call[c].case
<1> CaseTypeOK /\ Progress
  BY DEF CaseInv
<1>0. call[c] \in Call /\ call[c].pc = "found" /\ k \in Calls
  BY CallFields DEF CaseTypeOK, UpdateStatus, Assign, AddDocument
<1>1. case[k] \in CaseRow
  BY <1>0 DEF Progress, CaseTypeOK
<1>2. ASSUME NEW x \in CaseRow, x.org = case[k].org, x.number = case[k].number,
             case' = [case EXCEPT ![k] = x], renumbered' = renumbered
      PROVE  Settled
  <2>1. \A j \in Calls : case'[j] = IF j = k THEN x ELSE case[j]
    BY <1>2 DEF CaseTypeOK
  <2>2. case' \in [Calls -> CaseRow \union {None}] /\ renumbered' \subseteq Firms
    BY <1>0, <1>2 DEF CaseTypeOK
  <2>3. x # None /\ case[k] # None
    BY <1>1, CallsAssumption
  <2> HIDE DEF k
  <2> QED BY <1>2, <2>1, <2>2, <2>3 DEF Settled
<1>3. ASSUME NEW status \in {"open", "closed"}, UpdateStatus(c, status) PROVE CaseInv'
  <2> DEFINE next == [call[c] EXCEPT !.pc = "history"]
             x == [case[k] EXCEPT !.status = status]
  <2>1. /\ call' = [call EXCEPT ![c] = next] /\ UNCHANGED <<entries, mishap, renumbered>>
        /\ wrote' = wrote \union {c} /\ case' = [case EXCEPT ![k] = x] /\ call[c].op = "status"
    BY <1>3 DEF UpdateStatus
  <2>2. next \in Call /\ next.pc = "history" /\ next.op = call[c].op
    BY <1>0, CallMovesOn
  <2>3. x \in CaseRow /\ x.org = case[k].org /\ x.number = case[k].number
    BY <1>1 DEF CaseRow
  <2> HIDE DEF next, x, k
  <2>4. Sound(next, c)
    BY <2>1, <2>2 DEF Sound
  <2>5. Settled
    BY <1>2, <2>1, <2>3
  <2> QED BY <2>1, <2>2, <2>4, <2>5, CallGoes DEF CaseTypeOK
<1>4. ASSUME NEW l \in Lawyers, Assign(c, l) PROVE CaseInv'
  <2> DEFINE next == [call[c] EXCEPT !.pc = "log"]
             x == [case[k] EXCEPT !.assigned = @ \union {l}]
  <2>1. /\ call' = [call EXCEPT ![c] = next] /\ UNCHANGED <<entries, mishap, renumbered>>
        /\ wrote' = wrote \union {c} /\ case' = [case EXCEPT ![k] = x]
    BY <1>4 DEF Assign
  <2>2. next \in Call /\ next.pc = "log"
    BY <1>0, CallMovesOn
  <2>3. x \in CaseRow /\ x.org = case[k].org /\ x.number = case[k].number
    BY <1>1 DEF CaseRow
  <2> HIDE DEF next, x, k
  <2>4. Sound(next, c)
    BY <2>1, <2>2 DEF Sound
  <2>5. Settled
    BY <1>2, <2>1, <2>3
  <2> QED BY <2>1, <2>2, <2>4, <2>5, CallGoes DEF CaseTypeOK
<1>5. CASE AddDocument(c)
  <2> DEFINE next == [call[c] EXCEPT !.pc = "trail"]
  <2>1. /\ call' = [call EXCEPT ![c] = next] /\ UNCHANGED <<case, entries, mishap, renumbered>>
        /\ wrote' = wrote \union {c} /\ call[c].op = "document"
    BY <1>5 DEF AddDocument
  <2>2. next \in Call /\ next.pc = "trail" /\ next.op = call[c].op
    BY <1>0, CallMovesOn
  <2> HIDE DEF next
  <2>3. Sound(next, c)
    BY <2>1, <2>2 DEF Sound
  <2> QED BY <2>1, <2>2, <2>3, StandStill, CallGoes DEF CaseTypeOK
<1> QED BY <1>3, <1>4, <1>5

\* The two logs.
LEMMA LogsKeep ==
    ASSUME CaseInv, NEW c \in Calls,
           (\E made \in BOOLEAN : LogEntry(c, made)) \/ TrailEntry(c)
    PROVE  CaseInv'
<1> CaseTypeOK /\ Progress
  BY DEF CaseInv
<1>0. call[c] \in Call /\ call[c].pc \in {"log", "trail"} /\ c \in wrote
  BY DEF CaseTypeOK, LogEntry, TrailEntry, Progress
<1>1. ASSUME NEW made \in BOOLEAN, LogEntry(c, made) PROVE CaseInv'
  <2> DEFINE next == [call[c] EXCEPT !.pc = "trail"]
  <2>1. /\ call' = [call EXCEPT ![c] = next] /\ UNCHANGED <<case, wrote, renumbered>>
        /\ entries' = entries \union {e \in {<<c, "service">>} : made}
        /\ mishap' = mishap \union {d \in {c} : ~made} /\ call[c].pc = "log"
    BY <1>1 DEF LogEntry
  <2>2. next \in Call /\ next.pc = "trail" /\ next.op = call[c].op
    BY <1>0, <2>1, CallMovesOn
  <2> HIDE DEF next
  <2>3. Sound(next, c)
    BY <1>0, <2>1, <2>2 DEF Sound
  <2>4. /\ entries \subseteq entries' /\ entries' \subseteq Calls \X {"service", "interceptor"}
        /\ \A e \in entries' \ entries : e[1] \in wrote'
    BY <1>0, <2>1 DEF CaseTypeOK
  <2>5. mishap \subseteq mishap' /\ mishap' \subseteq Calls
    BY <2>1 DEF CaseTypeOK
  <2> QED BY <2>1, <2>2, <2>3, <2>4, <2>5, StandStill, CallGoes DEF CaseTypeOK
<1>2. CASE TrailEntry(c)
  <2> DEFINE next == [call[c] EXCEPT !.pc = "over"]
  <2>1. /\ call' = [call EXCEPT ![c] = next] /\ UNCHANGED <<case, wrote, mishap, renumbered>>
        /\ entries' = entries \union {<<c, "interceptor">>} /\ call[c].pc = "trail"
    BY <1>2 DEF TrailEntry, Ended
  <2>2. next \in Call /\ next.pc = "over" /\ next.op = call[c].op
    BY <1>0, <2>1, CallMovesOn
  <2> HIDE DEF next
  <2>3. Sound(next, c)
    BY <1>0, <2>1, <2>2 DEF Sound, Progress
  <2>4. /\ entries \subseteq entries' /\ entries' \subseteq Calls \X {"service", "interceptor"}
        /\ \A e \in entries' \ entries : e[1] \in wrote'
    BY <1>0, <2>1 DEF CaseTypeOK
  <2> QED BY <2>1, <2>2, <2>3, <2>4, StandStill, CallGoes DEF CaseTypeOK
<1> QED BY <1>1, <1>2

\* The process ends: what is in flight is over and its trail may have gaps.
LEMMA EndKeeps == ASSUME CaseInv, ProcessEnds PROVE CaseInv'
<1> CaseTypeOK /\ Promised /\ Created /\ Progress /\ NumberedInOrder /\ TrailIsTrue
  BY DEF CaseInv
<1>1. /\ mishap' = mishap \union {c \in Calls : InFlight(c)}
      /\ UNCHANGED <<case, entries, wrote, renumbered>>
  BY DEF ProcessEnds
<1>2. ASSUME NEW c \in Calls
      PROVE  /\ call'[c] \in Call
             /\ call'[c].pc \in {"new", "over"}
             /\ call'[c].pc = "new" => call[c].pc = "new"
             /\ c \notin mishap' => c \notin mishap /\ call'[c] = call[c]
  <2>1. call[c] \in Call
    BY DEF CaseTypeOK
  <2>2. CASE InFlight(c)
    <3>1. call'[c] = [call[c] EXCEPT !.pc = "over"] /\ call[c].pc # "new" /\ c \in mishap'
      BY <1>1, <2>2 DEF ProcessEnds, Ended, InFlight
    <3>2. [call[c] EXCEPT !.pc = "over"] \in Call /\ [call[c] EXCEPT !.pc = "over"].pc = "over"
      BY <2>1, <3>1, CallMovesOn
    <3> QED BY <3>1, <3>2
  <2>3. CASE ~InFlight(c)
    <3>1. call'[c] = call[c] /\ call[c].pc \in {"new", "over"}
      BY <2>3 DEF ProcessEnds, InFlight
    <3> QED BY <1>1, <2>1, <3>1
  <2> QED BY <2>2, <2>3
<1>3. CaseTypeOK'
  <2>1. call' = [c \in Calls |-> call'[c]]
    BY DEF ProcessEnds
  <2>2. call' \in [Calls -> Call] /\ mishap' \subseteq Calls
    BY <1>1, <1>2, <2>1 DEF CaseTypeOK
  <2> QED BY <1>1, <2>2 DEF CaseTypeOK
<1>4. Promised' /\ Created' /\ Progress'
  BY <1>1, <1>2 DEF Promised, Created, Progress
<1>5. NumberedInOrder'
  BY <1>1, StandStill, StillInOrder
<1>6. TrailIsTrue'
  <2>1. wrote \subseteq Calls
    BY DEF CaseTypeOK
  <2> QED BY <1>1, <1>2, <2>1 DEF TrailIsTrue
<1> QED BY <1>3, <1>4, <1>5, <1>6 DEF CaseInv

\* A number that is not taken is the next one of its firm.
LEMMA NextNumber ==
    ASSUME CaseInv, NEW c \in Calls, call[c].pc = "insert", call[c].org \notin renumbered,
           ~Taken(call[c].number, Calls)
    PROVE  call[c].number = <<Prefix(call[c].org), Cardinality(CasesOf(call[c].org)) + 1>>
<1> DEFINE x == call[c].number
           f == call[c].org
           n == Cardinality(CasesOf(f))
<1>1. x \in Numbers /\ f \in Firms \ renumbered
  BY CallFields DEF CaseInv, CaseTypeOK
<1>2. n \in Nat
  BY CasesCounted DEF CaseInv
<1>3. x = <<x[1], x[2]>> /\ x[2] \in Nat /\ x[2] >= 1
  BY <1>1, NumberParts
<1>4. x[1] = Prefix(f) /\ x[2] <= n + 1
  BY <1>1 DEF CaseInv, Promised
<1>5. {case[k].number : k \in CasesOf(f)} = {Prefix(f)} \X (1 .. n)
  BY <1>1 DEF CaseInv, NumberedInOrder
<1>6. x \notin {case[k].number : k \in CasesOf(f)}
  BY DEF Taken, CasesOf
<1> HIDE DEF x, f, n
<1>7. ~(x[2] \in 1 .. n)
  BY <1>3, <1>4, <1>5, <1>6
<1> QED BY <1>2, <1>3, <1>4, <1>7 DEF x, f, n

LEMMA InsertKeeps == ASSUME CaseInv, NEW c \in Calls, Insert(c) PROVE CaseInv'
<1> DEFINE q == call[c]
           f == q.org
           x == [number |-> q.number, org |-> f, status |-> "open", deleted |-> FALSE, assigned |-> {}]
           done == [q EXCEPT !.pc = "log"]
<1> CaseTypeOK /\ Promised /\ Created /\ Progress /\ NumberedInOrder /\ TrailIsTrue
  BY DEF CaseInv
<1>0. /\ q \in Call /\ q.pc = "insert" /\ q.number \in Numbers /\ f \in Firms
      /\ c \notin wrote /\ case[c] = None
  BY CallFields DEF CaseTypeOK, Insert, Progress, Created
<1>1. CASE Taken(q.number, Calls)
  <2> DEFINE next == [q EXCEPT !.pc = "over"]
  <2>1. call' = [call EXCEPT ![c] = next] /\ UNCHANGED <<case, entries, wrote, mishap, renumbered>>
    BY <1>1 DEF Insert, Ended
  <2>2. next \in Call /\ next.pc = "over"
    BY <1>0, CallMovesOn
  <2> HIDE DEF next
  <2>3. Sound(next, c)
    BY <1>0, <2>1, <2>2 DEF Sound
  <2> QED BY <2>1, <2>2, <2>3, StandStill, CallGoes DEF CaseTypeOK
<1>2. CASE ~Taken(q.number, Calls)
  <2>1. /\ case' = [case EXCEPT ![c] = x] /\ wrote' = wrote \union {c}
        /\ UNCHANGED <<entries, mishap, renumbered>>
        /\ call' = [d \in Calls |->
                      IF d = c THEN done
                      ELSE IF call[d].pc = "insert" /\ call[d].org = f
                      THEN [call[d] EXCEPT !.late = TRUE] ELSE call[d]]
    BY <1>2 DEF Insert
  <2>2. done \in Call /\ done.pc = "log"
    BY <1>0, CallMovesOn
  <2>3. x \in CaseRow /\ x.org = f /\ x.number = q.number /\ x # None
    <3> HIDE DEF f, q
    <3>1. x \in CaseRow
      BY <1>0 DEF CaseRow
    <3> QED BY <3>1, CallsAssumption
  <2>4. call'[c] = done
    BY <2>1
  <2>5. f \notin renumbered => q.number = <<Prefix(f), Cardinality(CasesOf(f)) + 1>>
    BY <1>0, <1>2, NextNumber
  <2> HIDE DEF done, x
  <2>6. ASSUME NEW d \in Calls, d # c
        PROVE  /\ call'[d] \in Call /\ call'[d].pc = call[d].pc
               /\ call[d].pc \in {"found", "history", "log", "trail", "over"} => call'[d] = call[d]
               /\ call[d].pc = "insert" =>
                    /\ call'[d].org = call[d].org /\ call'[d].number = call[d].number
                    /\ IF call[d].org = f THEN call'[d].late ELSE call'[d].late = call[d].late
    <3>1. call[d] \in Call
      BY DEF CaseTypeOK
    <3>2. CASE call[d].pc = "insert" /\ call[d].org = f
      <4> DEFINE next == [call[d] EXCEPT !.late = TRUE]
      <4>1. call'[d] = next
        BY <2>1, <2>6, <3>2
      <4>2. /\ next \in Call /\ next.late /\ next.pc = "insert"
            /\ next.number = call[d].number /\ next.org = call[d].org
        BY <3>1, <3>2, CallOvertaken
      <4> HIDE DEF next
      <4> QED BY <3>2, <4>1, <4>2
    <3>3. CASE ~(call[d].pc = "insert" /\ call[d].org = f)
      BY <2>1, <2>6, <3>1, <3>3
    <3> QED BY <3>2, <3>3
  <2>7. \A j \in Calls : case'[j] = IF j = c THEN x ELSE case[j]
    BY <2>1 DEF CaseTypeOK
  <2> DEFINE n == Cardinality(CasesOf(f))
  <2>8. /\ NewCasesOf(f) = CasesOf(f) \union {c}
        /\ \A g : g # f => NewCasesOf(g) = CasesOf(g)
    <3> HIDE DEF f, q
    <3> QED BY <1>0, <2>3, <2>7 DEF CasesOf, NewCasesOf
  <2>9. Cardinality(NewCasesOf(f)) = n + 1 /\ n \in Nat
    <3>1. IsFiniteSet(CasesOf(f)) /\ n \in Nat /\ c \notin CasesOf(f)
      BY <1>0, CasesCounted
    <3> HIDE DEF f, q
    <3> QED BY <2>8, <3>1, FS_AddElement
  <2>10. CaseTypeOK'
    <3>1. case' \in [Calls -> CaseRow \union {None}]
      BY <2>1, <2>3 DEF CaseTypeOK
    <3>2. call' \in [Calls -> Call]
      <4>1. call' = [d \in Calls |-> call'[d]]
        BY <2>1
      <4> QED BY <2>2, <2>4, <2>6, <4>1
    <3> QED BY <2>1, <3>1, <3>2 DEF CaseTypeOK
  <2>11. Promised'
    <3> SUFFICES ASSUME NEW d \in Calls, call'[d].pc = "insert", call'[d].org \notin renumbered
                 PROVE  /\ call'[d].number[1] = Prefix(call'[d].org)
                        /\ call'[d].number[2] <= Cardinality(NewCasesOf(call'[d].org)) + 1
                        /\ ~call'[d].late =>
                             call'[d].number[2] = Cardinality(NewCasesOf(call'[d].org)) + 1
      BY <2>1 DEF Promised, CasesOf, NewCasesOf, Prefix
    <3> HIDE DEF f, q, n
    <3>1. d # c /\ call[d].pc = "insert" /\ call[d] \in Call
      BY <2>2, <2>4, <2>6 DEF CaseTypeOK
    <3>2. /\ call'[d].number = call[d].number /\ call'[d].org = call[d].org
          /\ IF call[d].org = f THEN call'[d].late ELSE call'[d].late = call[d].late
      BY <2>6, <3>1
    <3>3. call[d].number[2] \in Nat
      BY <3>1, CallFields, NumberParts
    <3>4. /\ call[d].number[1] = Prefix(call[d].org)
          /\ call[d].number[2] <= Cardinality(CasesOf(call[d].org)) + 1
          /\ ~call[d].late => call[d].number[2] = Cardinality(CasesOf(call[d].org)) + 1
      BY <3>1, <3>2 DEF Promised
    <3>5. CASE call[d].org = f
      <4>1. call[d].number[2] <= n + 1 /\ Cardinality(NewCasesOf(call'[d].org)) = n + 1 /\ call'[d].late
        BY <2>9, <3>2, <3>4, <3>5 DEF n
      <4> QED BY <2>9, <3>2, <3>3, <3>4, <4>1
    <3>6. CASE call[d].org # f
      BY <2>8, <3>2, <3>4, <3>6
    <3> QED BY <3>5, <3>6
  <2>12. Created'
    BY <1>0, <2>1, <2>7 DEF Created
  <2>13. Progress'
    <3>1. ASSUME NEW d \in Calls, d # c
          PROVE  /\ call'[d].pc = "found" => case'[call'[d].case] # None
                 /\ call'[d].pc \in {"new", "insert", "found"} => d \notin wrote'
                 /\ call'[d].pc \in {"history", "log", "trail"} => d \in wrote'
                 /\ call'[d].pc = "history" => call'[d].op = "status"
                 /\ call'[d].pc = "trail" /\ d \notin mishap' /\ call'[d].op # "document"
                      => <<d, "service">> \in entries'
      <4>1. call[d].pc = "found" => call[d].case \in Calls
        BY CallFields DEF CaseTypeOK
      <4> QED BY <2>1, <2>3, <2>6, <2>7, <3>1, <4>1 DEF Progress
    <3>2. call'[c].pc = "log" /\ c \in wrote'
      BY <2>1, <2>2, <2>4
    <3> QED BY <3>1, <3>2 DEF Progress
  <2>14. NumberedInOrder'
    <3> SUFFICES ASSUME NEW g \in Firms, g \notin renumbered
                 PROVE  {case'[j].number : j \in NewCasesOf(g)} = {Prefix(g)} \X (1 .. Cardinality(NewCasesOf(g)))
      BY <2>1 DEF NumberedInOrder, CasesOf, NewCasesOf, Prefix
    <3>1. {case[j].number : j \in CasesOf(g)} = {Prefix(g)} \X (1 .. Cardinality(CasesOf(g)))
      BY DEF NumberedInOrder
    <3>2. \A j \in CasesOf(g) : case'[j] = case[j]
      BY <1>0, <2>7 DEF CasesOf
    <3>3. {case'[j].number : j \in CasesOf(g)} = {case[j].number : j \in CasesOf(g)}
      BY <3>2
    <3>4. CASE g # f
      <4>1. NewCasesOf(g) = CasesOf(g)
        BY <2>8, <3>4
      <4> QED BY <3>1, <3>3, <4>1
    <3>5. CASE g = f
      <4>1. case'[c].number = <<Prefix(g), n + 1>>
        BY <2>3, <2>5, <2>7, <3>5
      <4>2. NewCasesOf(g) = CasesOf(g) \union {c}
        BY <2>8, <3>5
      <4>3. Cardinality(NewCasesOf(g)) = n + 1 /\ n \in Nat
        BY <2>9, <3>5
      <4>4. {case[j].number : j \in CasesOf(g)} = {Prefix(g)} \X (1 .. n)
        BY <3>1, <3>5
      <4> HIDE DEF f, q, n
      <4>5. {case'[j].number : j \in NewCasesOf(g)} =
              {case'[j].number : j \in CasesOf(g)} \union {case'[c].number}
        BY <4>2
      <4>6. 1 .. n + 1 = (1 .. n) \union {n + 1}
        BY <4>3
      <4>7. {Prefix(g)} \X (1 .. n + 1) = ({Prefix(g)} \X (1 .. n)) \union {<<Prefix(g), n + 1>>}
        BY <4>6
      <4> QED BY <3>3, <4>1, <4>3, <4>4, <4>5, <4>7
    <3> QED BY <3>4, <3>5
  <2>15. TrailIsTrue'
    <3>1. \A d \in wrote' : d \in Calls /\ (d = c \/ d \in wrote)
      BY <2>1 DEF CaseTypeOK
    <3>2. \A d \in wrote : d # c => call'[d].pc = call[d].pc
                                    /\ (call[d].pc = "over" => call'[d] = call[d])
      BY <2>6 DEF CaseTypeOK
    <3> QED BY <2>1, <2>2, <2>4, <3>1, <3>2 DEF TrailIsTrue
  <2> QED BY <2>10, <2>11, <2>12, <2>13, <2>14, <2>15 DEF CaseInv
<1> QED BY <1>1, <1>2

LEMMA CaseStep == CaseInv /\ [CaseNext]_caseVars => CaseInv'
<1> SUFFICES ASSUME CaseInv, [CaseNext]_caseVars PROVE CaseInv'
  OBVIOUS
<1>1. CASE UNCHANGED caseVars
  <2>1. UNCHANGED <<case, call, entries, wrote, mishap, renumbered>>
    BY <1>1 DEF caseVars
  <2>2. NumberedInOrder'
    BY <2>1, StandStill, StillInOrder DEF CaseInv
  <2>3. \A f : CasesOf(f)' = CasesOf(f)
    BY <2>1 DEF CasesOf
  <2> QED BY <2>1, <2>2, <2>3 DEF CaseInv, CaseTypeOK, Promised, Created, Progress, TrailIsTrue
<1> QED BY <1>1, CallsBeginAndFail, UpdateKeeps, ChangesKeep, LogsKeep, InsertKeeps, EndKeeps
        DEF CaseNext

\* Every reachable state of the cases is well typed: no number leaves the range.
THEOREM CaseTypeCorrect == CaseSpec => []CaseTypeOK
<1>1. CaseInv => CaseTypeOK
  BY DEF CaseInv
<1> QED BY <1>1, CaseStart, CaseStep, PTL DEF CaseSpec

\* The cases of a firm are numbered from one without a gap, as long as no
\* update writes a number or a firm.
THEOREM NumberedInOrderHolds == CaseSpec => []NumberedInOrder
<1>1. CaseInv => NumberedInOrder
  BY DEF CaseInv
<1> QED BY <1>1, CaseStart, CaseStep, PTL DEF CaseSpec

\* A creation is refused only when it was overtaken, when its number is held by
\* a case of another firm, or after an update of its own firm's numbers.
THEOREM RefusedHadRivalHolds == CaseSpec => []RefusedHadRival
<1>1. CaseInv => RefusedHadRival
  <2> SUFFICES ASSUME CaseInv, NEW c \in Calls, call[c].pc = "insert", ~call[c].late,
                      call[c].org \notin renumbered, NEW k \in CasesOf(call[c].org),
                      case[k].number = call[c].number
               PROVE  FALSE
    BY DEF RefusedHadRival
  <2> DEFINE x == call[c].number
             f == call[c].org
             n == Cardinality(CasesOf(f))
  <2>1. f \in Firms
    BY CallFields DEF CaseInv, CaseTypeOK
  <2>2. n \in Nat
    BY CasesCounted DEF CaseInv
  <2>3. x[2] = n + 1
    BY DEF CaseInv, Promised
  <2>4. {case[j].number : j \in CasesOf(f)} = {Prefix(f)} \X (1 .. n)
    BY <2>1 DEF CaseInv, NumberedInOrder
  <2>5. x \in {Prefix(f)} \X (1 .. n)
    BY <2>4
  <2> HIDE DEF x, f, n
  <2> QED BY <2>2, <2>3, <2>5
<1> QED BY <1>1, CaseStart, CaseStep, PTL DEF CaseSpec

\* The trail is what happened, for any interleaving of changes, failures of the
\* log and ends of the process.
THEOREM TrailIsTrueHolds == CaseSpec => []TrailIsTrue
<1>1. CaseInv => TrailIsTrue
  BY DEF CaseInv
<1> QED BY <1>1, CaseStart, CaseStep, PTL DEF CaseSpec

-----------------------------------------------------------------------------
(* Listings.  While no row leaves, a row of the first listing is never     *)
(* read before its place: it moves to later places only, which are the     *)
(* pages still to be asked for (Received).  The total ends the walk in     *)
(* time, as long as no row comes ahead between a page's two queries        *)
(* (Counted, Ending).                                                      *)

Kept == Walking /\ ~left => before \subseteq listed

\* What the pages answered so far, and the one whose rows are read, have brought.
Received ==
    Walking /\ ~left =>
        \A x \in before :
            /\ Place(x) <= (page.number - 1) * PageSize => x \in got
            /\ "items" \in page.answered /\ Place(x) <= page.number * PageSize
                 => x \in got \union page.items

\* A total without its rows counts every row of the first listing.
Counted ==
    Walking /\ ~left /\ ~slid /\ page.answered = {"total"} =>
        \A x \in before : Place(x) <= page.total

\* A last page has brought the last of them.
Ending ==
    Walking /\ ~left /\ ~slid /\ page.answered = Queries /\ page.total <= page.number * PageSize =>
        before \subseteq got \union page.items

ListInv == ListTypeOK /\ Kept /\ Received /\ Counted /\ Ending /\ WalkMissesNothing

\* A page is not the last one when rows are left for the next.
LEMMA LastPage ==
    ASSUME NEW n \in Nat, NEW t \in Nat, ~HasNext(n, t)
    PROVE  t <= n * PageSize
<1> DEFINE p == PageSize
           q == (t + p - 1) \div p
<1>1. p \in Nat /\ p > 0 /\ t + p - 1 \in Nat
  BY PagesAssumption
<1>2. q \in Nat /\ t + p - 1 < p * (q + 1) /\ n >= q
  BY <1>1 DEF HasNext
<1>3. p * q <= p * n
  BY <1>1, <1>2
<1> QED BY <1>1, <1>2, <1>3

\* Places are natural numbers, up to the number of the rows.
LEMMA PlaceShape ==
    ASSUME ListTypeOK
    PROVE  /\ IsFiniteSet(listed) /\ Cardinality(listed) \in 0 .. MaxRows
           /\ \A x : Place(x) \in Nat /\ Place(x) <= Cardinality(listed)
<1>1. /\ IsFiniteSet(1 .. created) /\ Cardinality(1 .. created) = created
      /\ listed \in SUBSET (1 .. created) /\ created \in Nat /\ created <= MaxRows
  BY FS_Interval, PagesAssumption DEF ListTypeOK
<1>2. IsFiniteSet(listed) /\ Cardinality(listed) <= created
  BY <1>1, FS_Subset
<1>3. Cardinality(listed) \in Nat
  BY <1>2, FS_CardinalityType
<1>4. ASSUME NEW x PROVE Place(x) \in Nat /\ Place(x) <= Cardinality(listed)
  <2> DEFINE ahead == {y \in listed : IF list = "queue" THEN y <= x ELSE y >= x}
  <2>1. ahead \in SUBSET listed
    OBVIOUS
  <2> HIDE DEF ahead
  <2>2. IsFiniteSet(ahead) /\ Cardinality(ahead) <= Cardinality(listed)
    BY <1>2, <2>1, FS_Subset
  <2> QED BY <2>2, FS_CardinalityType DEF Place, ahead
<1> QED BY <1>1, <1>2, <1>3, <1>4, PagesAssumption

\* A row that comes moves others to later places.
LEMMA PlacesGrow ==
    ASSUME ListTypeOK, NEW n \in 1 .. created', listed' = listed \union {n}, list' = list
    PROVE  \A x : Place(x) \in Nat /\ Place(x)' \in Nat /\ Place(x) <= Place(x)'
<1> SUFFICES ASSUME NEW x PROVE Place(x) \in Nat /\ Place(x)' \in Nat /\ Place(x) <= Place(x)'
  OBVIOUS
<1> DEFINE ahead(rows) == {y \in rows : IF list = "queue" THEN y <= x ELSE y >= x}
<1>1. ahead(listed) \in SUBSET ahead(listed \union {n})
  OBVIOUS
<1>2. ahead(listed \union {n}) \in SUBSET (listed \union {n})
  OBVIOUS
<1>3. Place(x) = Cardinality(ahead(listed)) /\ Place(x)' = Cardinality(ahead(listed \union {n}))
  BY DEF Place
<1> HIDE DEF ahead
<1>4. IsFiniteSet(listed \union {n})
  BY PlaceShape, FS_AddElement
<1>5. IsFiniteSet(ahead(listed \union {n}))
  BY <1>2, <1>4, FS_Subset
<1>6. Cardinality(ahead(listed)) <= Cardinality(ahead(listed \union {n}))
  BY <1>1, <1>5, FS_Subset
<1> QED BY <1>3, <1>5, <1>6, PlaceShape, FS_CardinalityType

\* Behind the oldest row that is read first, the newest changes no place.
LEMMA PlacesStay ==
    ASSUME ListTypeOK, list = "queue", list' = list, created' = created + 1,
           listed' = listed \union {created'}
    PROVE  \A x \in 1 .. created : Place(x)' = Place(x)
<1> SUFFICES ASSUME NEW x \in 1 .. created PROVE Place(x)' = Place(x)
  OBVIOUS
<1>1. {y \in listed \union {created'} : y <= x} = {y \in listed : y <= x}
  BY DEF ListTypeOK
<1> QED BY <1>1 DEF Place

LEMMA AskedShape ==
    ASSUME NEW x \in Page, x.pc = "asked"
    PROVE  /\ x.number \in Nat \ {0} /\ x.answered \subseteq Queries
           /\ x.items \subseteq 1 .. MaxRows /\ x.total \in 0 .. MaxRows
BY DEF Page

LEMMA WithItems ==
    ASSUME NEW x \in Page, x.pc = "asked", NEW s \in SUBSET (1 .. MaxRows)
    PROVE  LET y == [x EXCEPT !.answered = x.answered \union {"items"}, !.items = s] IN
           /\ y \in Page /\ y.pc = "asked" /\ y.number = x.number /\ y.total = x.total
           /\ y.items = s /\ y.answered = x.answered \union {"items"}
<1>1. x \in [pc : {"asked"}, number : Nat \ {0}, answered : SUBSET Queries,
            items : SUBSET (1 .. MaxRows), total : 0 .. MaxRows]
  BY DEF Page
<1> QED BY <1>1 DEF Page, Queries

LEMMA WithTotal ==
    ASSUME NEW x \in Page, x.pc = "asked", NEW t \in 0 .. MaxRows
    PROVE  LET y == [x EXCEPT !.answered = x.answered \union {"total"}, !.total = t] IN
           /\ y \in Page /\ y.pc = "asked" /\ y.number = x.number /\ y.items = x.items
           /\ y.total = t /\ y.answered = x.answered \union {"total"}
<1>1. x \in [pc : {"asked"}, number : Nat \ {0}, answered : SUBSET Queries,
            items : SUBSET (1 .. MaxRows), total : 0 .. MaxRows]
  BY DEF Page
<1> QED BY <1>1 DEF Page, Queries

\* Rows that move to later places are still to come.
LEMMA PlacesGrown ==
    ASSUME ListTypeOK, Received, UNCHANGED <<page, before, got, left>>,
           \A x : Place(x) \in Nat /\ Place(x)' \in Nat /\ Place(x) <= Place(x)'
    PROVE  Received'
<1> SUFFICES ASSUME Walking, ~left, NEW x \in before
             PROVE  /\ Place(x)' <= (page.number - 1) * PageSize => x \in got
                    /\ "items" \in page.answered /\ Place(x)' <= page.number * PageSize
                         => x \in got \union page.items
  BY DEF Received, Walking
<1>1. page.number \in Nat \ {0}
  BY AskedShape DEF Walking, ListTypeOK
<1>2. (page.number - 1) * PageSize \in Nat /\ page.number * PageSize \in Nat
  BY <1>1, PagesAssumption
<1>3. /\ Place(x)' <= (page.number - 1) * PageSize => Place(x) <= (page.number - 1) * PageSize
      /\ Place(x)' <= page.number * PageSize => Place(x) <= page.number * PageSize
  BY <1>2
<1> QED BY <1>3 DEF Received

LEMMA ListStart == ListInit => ListInv
<1> SUFFICES ASSUME ListInit PROVE ListInv
  OBVIOUS
<1>1. page \in Page /\ page.pc = "idle"
  BY DEF ListInit, Page
<1>2. ListTypeOK
  <2>1. 0 \in 0 .. MaxRows
    BY PagesAssumption
  <2>2. page.pc # "asked"
    BY <1>1
  <2> QED BY <1>1, <2>1, <2>2 DEF ListInit, ListTypeOK
<1> QED BY <1>1, <1>2 DEF ListInv, Kept, Received, Counted, Ending, WalkMissesNothing, Walking

LEMMA ArriveKeeps == ASSUME ListInv, Arrive PROVE ListInv'
<1> ListTypeOK /\ Kept /\ Received /\ Counted /\ Ending /\ WalkMissesNothing
  BY DEF ListInv
<1>0. created' = created + 1 /\ created' \in 0 .. MaxRows /\ created \in Nat
      /\ UNCHANGED <<list, page, before, got, left>>
  BY PagesAssumption DEF Arrive, Comes, ListTypeOK
<1>1. ASSUME UNCHANGED <<listed, slid>> PROVE ListInv'
  <2>1. \A x : Place(x)' = Place(x)
    BY <1>0, <1>1 DEF Place
  <2> QED BY <1>0, <1>1, <2>1 DEF ListInv, ListTypeOK, Kept, Received, Counted, Ending,
             WalkMissesNothing, Walking
<1>2. ASSUME Comes(created', list # "queue") PROVE ListInv'
  <2>1. listed' = listed \union {created'} /\ created' \in 1 .. created'
        /\ slid' = (slid \/ (Halfway /\ list # "queue"))
    BY <1>0, <1>2 DEF Comes
  <2>2. ListTypeOK'
    BY <1>0, <2>1 DEF ListTypeOK
  <2>3. \A x : Place(x) \in Nat /\ Place(x)' \in Nat /\ Place(x) <= Place(x)'
    BY <1>0, <2>1, <2>1, PlacesGrow
  <2>4. Kept' /\ Received' /\ Ending' /\ WalkMissesNothing'
    BY <1>0, <2>1, PlacesGrown, <2>3 DEF Kept, Ending, WalkMissesNothing, Walking
  <2>5. Counted'
    <3> SUFFICES ASSUME Walking, ~left, ~slid', page.answered = {"total"}, NEW x \in before
                 PROVE  Place(x)' <= page.total
      BY <1>0 DEF Counted, Walking
    <3>1. list = "queue" /\ ~slid
      BY <2>1 DEF Halfway, Queries
    <3>2. Place(x)' = Place(x)
      BY <1>0, <2>1, <3>1, PlacesStay DEF ListTypeOK
    <3> QED BY <3>1, <3>2 DEF Counted
  <2> QED BY <2>2, <2>4, <2>5 DEF ListInv
<1> QED BY <1>1, <1>2 DEF Arrive

LEMMA GainsKeeps == ASSUME ListInv, NEW n \in 1 .. MaxRows, Gains(n) PROVE ListInv'
<1> ListTypeOK /\ Kept /\ Received /\ Counted /\ Ending /\ WalkMissesNothing
  BY DEF ListInv
<1>0. /\ UNCHANGED <<list, page, before, got, left, created>>
      /\ listed' = listed \union {n} /\ n \in 1 .. created' /\ slid' = (slid \/ Halfway)
  BY DEF Gains, Comes
<1>1. ListTypeOK'
  BY <1>0 DEF ListTypeOK
<1>2. \A x : Place(x) \in Nat /\ Place(x)' \in Nat /\ Place(x) <= Place(x)'
  BY <1>0, PlacesGrow
<1>3. Kept' /\ Received' /\ Ending' /\ WalkMissesNothing'
  BY <1>0, <1>2, PlacesGrown DEF Kept, Ending, WalkMissesNothing, Walking
<1>4. Counted'
  <2> SUFFICES ASSUME Walking, ~slid', page.answered = {"total"}
               PROVE  FALSE
    BY <1>0 DEF Counted, Walking
  <2>1. Halfway
    BY DEF Halfway, Queries
  <2> QED BY <1>0, <2>1
<1> QED BY <1>1, <1>3, <1>4 DEF ListInv

LEMMA GoesKeeps ==
    ASSUME ListInv, NEW rows, Goes(rows)
    PROVE  ListInv'
<1>1. ListTypeOK'
  BY DEF ListInv, ListTypeOK, Goes
<1>2. ~(Walking' /\ ~left') /\ page' = page /\ before' = before /\ got' = got /\ slid' = slid
      /\ (left => left')
  BY DEF Goes, Walking
<1>3. Kept' /\ Received' /\ Counted' /\ Ending' /\ WalkMissesNothing'
  BY <1>2 DEF ListInv, Kept, Received, Counted, Ending, WalkMissesNothing
<1> QED BY <1>1, <1>3 DEF ListInv

LEMMA StartKeeps == ASSUME ListInv, StartWalk PROVE ListInv'
<1>1. /\ UNCHANGED <<list, listed, created>> /\ before' = listed /\ got' = {}
      /\ left' = FALSE /\ slid' = FALSE /\ page' = Ask(1)
  BY DEF StartWalk
<1>2. Ask(1) \in Page /\ Ask(1).pc = "asked" /\ Ask(1).number = 1 /\ Ask(1).answered = {}
      /\ Ask(1).items = {}
  BY PagesAssumption DEF Ask, Page, Queries
<1>3. ListTypeOK'
  <2>1. ListTypeOK
    BY DEF ListInv
  <2> HIDE DEF Ask
  <2> QED BY <1>1, <1>2, <2>1 DEF ListTypeOK
<1>4. \A x \in listed : Place(x)' \in Nat /\ Place(x)' # 0
  <2> SUFFICES ASSUME NEW x \in listed PROVE Place(x)' \in Nat /\ Place(x)' # 0
    OBVIOUS
  <2> DEFINE ahead == {y \in listed : IF list = "queue" THEN y <= x ELSE y >= x}
  <2>1. Place(x)' = Cardinality(ahead)
    BY <1>1 DEF Place
  <2>2. x \in ahead /\ ahead \in SUBSET listed
    BY DEF ListInv, ListTypeOK
  <2> HIDE DEF ahead
  <2>3. IsFiniteSet(ahead)
    BY <2>2, PlaceShape, FS_Subset DEF ListInv
  <2> QED BY <2>1, <2>2, <2>3, FS_CardinalityType, FS_EmptySet
<1>5. Received'
  <2>1. (page'.number - 1) * PageSize = 0
    BY <1>1, <1>2, PagesAssumption
  <2> QED BY <1>1, <1>2, <1>4, <2>1 DEF Received
<1>6. Kept' /\ Counted' /\ Ending' /\ WalkMissesNothing'
  BY <1>1, <1>2 DEF Kept, Counted, Ending, WalkMissesNothing, Walking, Queries
<1> QED BY <1>3, <1>5, <1>6 DEF ListInv

LEMMA FindManyKeeps == ASSUME ListInv, FindMany PROVE ListInv'
<1> DEFINE n == page.number
           next == [page EXCEPT !.answered = page.answered \union {"items"}, !.items = Items(n)]
<1> ListTypeOK /\ Kept /\ Received /\ Counted /\ Ending /\ WalkMissesNothing
  BY DEF ListInv
<1>1. /\ page \in Page /\ page.pc = "asked" /\ "items" \notin page.answered
      /\ page' = next /\ UNCHANGED <<list, listed, created, before, got, left, slid>>
  BY DEF FindMany, Walking, ListTypeOK
<1>2. Items(n) \subseteq 1 .. created /\ Items(n) \in SUBSET (1 .. MaxRows)
  <2>1. Items(n) \subseteq listed
    BY DEF Items
  <2>2. listed \subseteq 1 .. created /\ created \in Nat /\ created <= MaxRows
    BY PagesAssumption DEF ListTypeOK
  <2>3. 1 .. created \subseteq 1 .. MaxRows
    BY <2>2, PagesAssumption
  <2> HIDE DEF n
  <2> QED BY <2>1, <2>2, <2>3
<1>3. /\ next \in Page /\ next.pc = "asked" /\ next.number = n /\ next.total = page.total
      /\ next.items = Items(n) /\ next.answered = page.answered \union {"items"}
      /\ n \in Nat \ {0} /\ page.answered \subseteq Queries
  <2>1. n \in Nat \ {0} /\ page.answered \subseteq Queries
    BY <1>1, AskedShape
  <2> QED BY <1>1, <1>2, <2>1, WithItems
<1> HIDE DEF next, n
<1>4. ListTypeOK'
  BY <1>1, <1>2, <1>3 DEF ListTypeOK
<1>5. \A x : Place(x)' = Place(x) /\ Place(x) \in Nat
  BY <1>1, PlaceShape DEF Place
<1>6. Kept' /\ Counted' /\ WalkMissesNothing'
  BY <1>1, <1>3 DEF Kept, Counted, WalkMissesNothing, Walking
<1>7. ASSUME ~left, NEW x \in before, Place(x) <= n * PageSize
      PROVE  x \in got \union Items(n)
  <2>1. x \in listed
    BY <1>1, <1>7 DEF Kept, Walking
  <2>2. Place(x) <= (n - 1) * PageSize => x \in got
    BY <1>1, <1>7 DEF Received, Walking, n
  <2>3. (n - 1) * PageSize \in Nat
    BY <1>3, PagesAssumption
  <2> QED BY <1>5, <1>7, <2>1, <2>2, <2>3 DEF Items
<1>8. Received'
  <2>1. ~left => \A x \in before : Place(x) <= (n - 1) * PageSize => x \in got
    BY <1>1 DEF Received, Walking, n
  <2> QED BY <1>1, <1>3, <1>5, <1>7, <2>1 DEF Received
<1>9. Ending'
  <2> SUFFICES ASSUME ~left, ~slid, next.answered = Queries, page.total <= n * PageSize,
                      NEW x \in before
               PROVE  x \in got \union Items(n)
    BY <1>1, <1>3 DEF Ending, Walking
  <2>1. page.answered = {"total"}
    BY <1>1, <1>3 DEF Queries
  <2>2. Place(x) <= page.total
    BY <1>1, <2>1 DEF Counted, Walking
  <2>3. page.total \in Nat /\ n * PageSize \in Nat
    BY <1>1, <1>3, AskedShape, PagesAssumption
  <2> QED BY <1>5, <1>7, <2>2, <2>3
<1> QED BY <1>4, <1>6, <1>8, <1>9 DEF ListInv

LEMMA CountKeeps == ASSUME ListInv, CountRows PROVE ListInv'
<1> DEFINE n == page.number
           t == Cardinality(listed)
           next == [page EXCEPT !.answered = page.answered \union {"total"}, !.total = t]
<1> ListTypeOK /\ Kept /\ Received /\ Counted /\ Ending /\ WalkMissesNothing
  BY DEF ListInv
<1>1. /\ page \in Page /\ page.pc = "asked" /\ "total" \notin page.answered
      /\ page' = next /\ UNCHANGED <<list, listed, created, before, got, left, slid>>
  BY DEF CountRows, Walking, ListTypeOK
<1>2. t \in 0 .. MaxRows /\ t \in Nat /\ \A x : Place(x) \in Nat /\ Place(x) <= t
  BY PlaceShape, PagesAssumption
<1>3. /\ next \in Page /\ next.pc = "asked" /\ next.number = n /\ next.total = t
      /\ next.items = page.items /\ next.answered = page.answered \union {"total"}
      /\ n \in Nat \ {0} /\ page.answered \subseteq Queries
  <2>1. n \in Nat \ {0} /\ page.answered \subseteq Queries
    BY <1>1, AskedShape
  <2> QED BY <1>1, <1>2, <2>1, WithTotal
<1> HIDE DEF next, n, t
<1>4. ListTypeOK'
  BY <1>1, <1>3 DEF ListTypeOK
<1>5. \A x : Place(x)' = Place(x)
  BY <1>1 DEF Place
<1>6. Kept' /\ WalkMissesNothing'
  BY <1>1, <1>3 DEF Kept, WalkMissesNothing, Walking
<1>7. Received'
  BY <1>1, <1>3, <1>5 DEF Received, Walking, n
<1>8. Counted'
  BY <1>1, <1>2, <1>3, <1>5 DEF Counted
<1>9. Ending'
  <2> SUFFICES ASSUME ~left, next.answered = Queries, t <= n * PageSize, NEW x \in before
               PROVE  x \in got \union page.items
    BY <1>1, <1>3 DEF Ending, Walking
  <2>1. "items" \in page.answered
    BY <1>1, <1>3 DEF Queries
  <2>2. Place(x) <= n * PageSize
    <3>1. n * PageSize \in Nat
      BY <1>3, PagesAssumption
    <3> QED BY <1>2, <3>1
  <2> QED BY <1>1, <2>1, <2>2 DEF Received, Walking, n
<1> QED BY <1>4, <1>6, <1>7, <1>8, <1>9 DEF ListInv

LEMMA AnswerKeeps == ASSUME ListInv, Answer PROVE ListInv'
<1> DEFINE n == page.number
<1> ListTypeOK /\ Kept /\ Received /\ Counted /\ Ending /\ WalkMissesNothing
  BY DEF ListInv
<1>1. /\ page \in Page /\ page.pc = "asked" /\ page.answered = Queries
      /\ got' = got \union page.items
      /\ UNCHANGED <<list, listed, created, before, left, slid>>
  BY DEF Answer, Walking, ListTypeOK
<1>2. n \in Nat \ {0} /\ page.items \subseteq 1 .. MaxRows /\ page.total \in Nat
  BY <1>1, AskedShape, PagesAssumption
<1>3. CASE HasNext(n, page.total)
  <2> DEFINE next == Ask(n + 1)
  <2>1. page' = next
    BY <1>3 DEF Answer
  <2>2. /\ next \in Page /\ next.pc = "asked" /\ next.number = n + 1 /\ next.answered = {}
        /\ next.items = {}
    BY <1>2, PagesAssumption DEF Ask, Page
  <2> HIDE DEF next
  <2>3. ListTypeOK'
    BY <1>1, <2>1, <2>2 DEF ListTypeOK
  <2>4. Received'
    <3>1. (n + 1) - 1 = n
      BY <1>2
    <3>2. ~left => \A x \in before : Place(x) <= n * PageSize => x \in got \union page.items
      BY <1>1 DEF Received, Walking, Queries
    <3>3. \A x : Place(x)' = Place(x)
      BY <1>1 DEF Place
    <3> QED BY <1>1, <2>1, <2>2, <3>1, <3>2, <3>3 DEF Received
  <2>5. Kept' /\ Counted' /\ Ending' /\ WalkMissesNothing'
    BY <1>1, <2>1, <2>2 DEF Kept, Counted, Ending, WalkMissesNothing, Walking, Queries
  <2> QED BY <2>3, <2>4, <2>5 DEF ListInv
<1>4. CASE ~HasNext(n, page.total)
  <2>1. page' = [pc |-> "over"]
    BY <1>4 DEF Answer
  <2>2. ListTypeOK'
    BY <1>1, <2>1 DEF ListTypeOK, Page
  <2>3. Kept' /\ Received' /\ Counted' /\ Ending'
    BY <2>1 DEF Kept, Received, Counted, Ending, Walking
  <2>4. page.total <= n * PageSize
    BY <1>2, <1>4, LastPage
  <2>5. WalkMissesNothing'
    BY <1>1, <2>1, <2>4 DEF Ending, Walking, WalkMissesNothing
  <2> QED BY <2>2, <2>3, <2>5 DEF ListInv
<1> QED BY <1>3, <1>4

LEMMA ListStep == ListInv /\ [ListNext]_listVars => ListInv'
<1> SUFFICES ASSUME ListInv, [ListNext]_listVars PROVE ListInv'
  OBVIOUS
<1>1. CASE UNCHANGED listVars
  <2>1. \A x : Place(x)' = Place(x)
    BY <1>1 DEF listVars, Place
  <2> QED BY <1>1, <2>1 DEF listVars, ListInv, ListTypeOK, Kept, Received, Counted, Ending,
                            WalkMissesNothing, Walking
<1>2. ASSUME NEW n \in 1 .. MaxRows, Gains(n) \/ Loses(n) PROVE ListInv'
  BY <1>2, GainsKeeps, GoesKeeps DEF Loses
<1>3. CASE ClearAll
  BY <1>3, GoesKeeps DEF ClearAll
<1> QED BY <1>1, <1>2, <1>3, ArriveKeeps, StartKeeps, FindManyKeeps, CountKeeps, AnswerKeeps
        DEF ListNext

\* Every reachable state of a list and its reader is well typed.
THEOREM ListTypeCorrect == ListSpec => []ListTypeOK
<1>1. ListInv => ListTypeOK
  BY DEF ListInv
<1> QED BY <1>1, ListStart, ListStep, PTL DEF ListSpec

\* For any page size and any number of rows, a walk during which no row leaves
\* and none comes ahead between a page's two queries misses nothing.
THEOREM WalkMissesNothingHolds == ListSpec => []WalkMissesNothing
<1>1. ListInv => WalkMissesNothing
  BY DEF ListInv
<1> QED BY <1>1, ListStart, ListStep, PTL DEF ListSpec

-----------------------------------------------------------------------------
(* The four together.  Each behaviour of Collaboration is one of each      *)
(* component, of which three stand still.                                  *)

LEMMA EachMoves ==
    [CollaborationNext]_collaborationVars =>
        /\ [PresenceNext]_presenceVars /\ [ChatFeedNext]_feedVars
        /\ [CaseNext]_caseVars /\ [ListNext]_listVars
BY DEF CollaborationNext, collaborationVars

THEOREM CollaborationImplements ==
    CollaborationSpec => PresenceSpec /\ ChatFeedSpec /\ CaseSpec /\ ListSpec
<1>1. CollaborationInit => PresenceInit /\ ChatFeedInit /\ CaseInit /\ ListInit
  BY DEF CollaborationInit
<1> QED BY <1>1, EachMoves, PTL
        DEF CollaborationSpec, PresenceSpec, ChatFeedSpec, CaseSpec, ListSpec

\* Every reachable state of chat, cases and lists is well typed.
THEOREM CollaborationTypeCorrect == CollaborationSpec => []CollaborationTypeOK
<1>1. CollaborationTypeOK <=> PresenceTypeOK /\ ChatFeedTypeOK /\ CaseTypeOK /\ ListTypeOK
  BY DEF CollaborationTypeOK
<1> QED BY <1>1, CollaborationImplements, PresenceTypeCorrect, ChatFeedTypeCorrect,
           CaseTypeCorrect, ListTypeCorrect, PTL

=============================================================================
