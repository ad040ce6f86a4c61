------------------------------ MODULE ChatFeed ------------------------------
(***************************************************************************)
(* The messages of one case.  Sending, reading and deleting write the row, *)
(* wait for the audit log, and only then are announced to the case's room; *)
(* history is a REST call on its own connection, so a page and the         *)
(* announcements reach a screen in either order.  The browser is external: *)
(* it joins the room and then reads history, adds what it is told of,      *)
(* removes what it is told is deleted, and is in step from its first page  *)
(* on.                                                                     *)
(***************************************************************************)
EXTENDS Naturals, Handlers

CONSTANTS Members, Messages

VARIABLES
    message,   \* rows of case_messages
    screen,    \* each member's browser
    chatReq,   \* handlers in flight
    \* History variables.
    crossed,   \* messages deleted while a copy of them was on its way
    overlapped \* <<reader, message>>: read by two overlapping calls

feedVars == <<message, screen, chatReq, crossed, overlapped>>

Row == [by : Members, deleted : BOOLEAN, readBy : [Members -> Nat]]
ASSUME RowAssumption == None \notin Row

NoReads == [u \in Members |-> 0]
Away == [inRoom |-> FALSE, inStep |-> FALSE, shown |-> {}, readers |-> {}]

Screen == [inRoom : BOOLEAN, inStep : BOOLEAN, shown : SUBSET Messages,
           readers : SUBSET (Members \X Messages)]
ChatRequest ==
    {Idle}
    \union [pc : {"announce"}, event : {"new", "deleted", "read"}, user : Members, id : Messages]
    \union [pc : {"deleting"}, user : Members, id : Messages]
    \union [pc : {"reading"}, user : Members, id : Messages, found : [Members -> Nat]]
    \union [pc : {"page"}, user : Members, items : SUBSET Messages,
            readers : SUBSET (Members \X Messages)]

\* The state is well typed, and a handler works on a message that exists.
ChatFeedTypeOK ==
    /\ message \in [Messages -> Row \union {None}]
    /\ screen \in [Members -> Screen]
    /\ \A u \in Members : screen[u].inStep => screen[u].inRoom
    /\ chatReq \in [Requests -> ChatRequest]
    /\ \A r \in Requests :
         chatReq[r].pc \in {"deleting", "reading", "announce"} => message[chatReq[r].id] # None
    /\ crossed \subseteq Messages /\ overlapped \subseteq Members \X Messages

ChatFeedInit ==
    /\ message = [m \in Messages |-> None]
    /\ screen = [u \in Members |-> Away]
    /\ chatReq = AllIdle
    /\ crossed = {} /\ overlapped = {}

Announcing(event, u, m) == [pc |-> "announce", event |-> event, user |-> u, id |-> m]

\* sendMessage up to its audit entry.
Send(r, u, m) ==
    /\ chatReq[r] = Idle /\ message[m] = None
    /\ message' = [message EXCEPT ![m] = [by |-> u, deleted |-> FALSE, readBy |-> NoReads]]
    /\ chatReq' = Put(chatReq, r, Announcing("new", u, m))
    /\ UNCHANGED <<screen, crossed, overlapped>>

\* deleteMessage reads the row; only its sender gets past this.
DeleteFind(r, u, m) ==
    /\ chatReq[r] = Idle /\ message[m] # None /\ message[m].by = u
    /\ chatReq' = Put(chatReq, r, [pc |-> "deleting", user |-> u, id |-> m])
    /\ UNCHANGED <<message, screen, crossed, overlapped>>

\* Mutant: the row itself is deleted.
HardDelete(r) ==
    LET q == chatReq[r] IN
    /\ q.pc = "deleting"
    /\ message' = [message EXCEPT ![q.id] = None]
    /\ chatReq' = Put(chatReq, r, Announcing("deleted", q.user, q.id))
    /\ UNCHANGED <<screen, crossed, overlapped>>

SoftDelete(r) ==
    LET q == chatReq[r] IN
    /\ q.pc = "deleting"
    /\ message' = [message EXCEPT ![q.id].deleted = TRUE]
    /\ chatReq' = Put(chatReq, r, Announcing("deleted", q.user, q.id))
    /\ UNCHANGED <<screen, crossed, overlapped>>

\* Mutant: markAsRead does not look whether the reader is already listed.
ReadFindAnyway(r, u, m) ==
    /\ chatReq[r] = Idle /\ message[m] # None
    /\ chatReq' = Put(chatReq, r, [pc |-> "reading", user |-> u, id |-> m,
                                   found |-> message[m].readBy])
    /\ overlapped' = overlapped \union
         {<<u, m>> : q \in {p \in Requests : chatReq[p].pc = "reading"
                                             /\ chatReq[p].user = u /\ chatReq[p].id = m}}
    /\ UNCHANGED <<message, screen, crossed>>

\* markAsRead reads the row, a deleted one too; a reader listed already is
\* announced again and not written.
ReadFind(r, u, m) ==
    /\ chatReq[r] = Idle /\ message[m] # None
    /\ chatReq' = Put(chatReq, r,
         IF message[m].readBy[u] > 0 THEN Announcing("read", u, m)
         ELSE [pc |-> "reading", user |-> u, id |-> m, found |-> message[m].readBy])
    /\ overlapped' = overlapped \union
         {<<u, m>> : q \in {p \in Requests : chatReq[p].pc = "reading"
                                             /\ chatReq[p].user = u /\ chatReq[p].id = m}}
    /\ UNCHANGED <<message, screen, crossed>>

\* Mutant: the list that was read is written back with the reader added.
ReadWriteBack(r) ==
    LET q == chatReq[r] IN
    /\ q.pc = "reading"
    /\ message' = [message EXCEPT ![q.id].readBy = [q.found EXCEPT ![q.user] = @ + 1]]
    /\ chatReq' = Put(chatReq, r, Announcing("read", q.user, q.id))
    /\ UNCHANGED <<screen, crossed, overlapped>>

\* Otherwise the database appends him to whatever the list holds by now.
ReadPush(r) ==
    LET q == chatReq[r] IN
    /\ q.pc = "reading"
    /\ message' = [message EXCEPT ![q.id].readBy[q.user] = @ + 1]
    /\ chatReq' = Put(chatReq, r, Announcing("read", q.user, q.id))
    /\ UNCHANGED <<screen, crossed, overlapped>>

\* What the announcement of q changes on a screen.
Took(view, q) ==
    CASE q.event = "new" -> [view EXCEPT !.shown = @ \union {q.id}]
      [] q.event = "deleted" -> [view EXCEPT !.shown = @ \ {q.id}]
      [] q.event = "read" -> [view EXCEPT !.readers = @ \union {<<q.user, q.id>>}]

\* A copy of message m is on its way to a screen.
Underway(m) ==
    \E r \in Requests :
        \/ chatReq[r].pc = "page" /\ m \in chatReq[r].items
        \/ chatReq[r].pc = "announce" /\ chatReq[r].event = "new" /\ chatReq[r].id = m

\* Mutant: the event goes to the room without its sender, as the typing events do.
AnnounceToOthers(r) ==
    LET q == chatReq[r] IN
    /\ q.pc = "announce"
    /\ screen' = [u \in Members |-> IF screen[u].inRoom /\ u # q.user THEN Took(screen[u], q)
                                    ELSE screen[u]]
    /\ crossed' = crossed \union {m \in {q.id} : q.event = "deleted" /\ Underway(m)}
    /\ chatReq' = Put(chatReq, r, Idle)
    /\ UNCHANGED <<message, overlapped>>

\* server.to(room).emit, once the audit entry is made or has failed.
Announce(r) ==
    LET q == chatReq[r] IN
    /\ q.pc = "announce"
    /\ screen' = [u \in Members |-> IF screen[u].inRoom THEN Took(screen[u], q) ELSE screen[u]]
    /\ crossed' = crossed \union {m \in {q.id} : q.event = "deleted" /\ Underway(m)}
    /\ chatReq' = Put(chatReq, r, Idle)
    /\ UNCHANGED <<message, overlapped>>

\* The database refuses the write of a handler.
ChatFail(r) ==
    /\ chatReq[r].pc \in {"deleting", "reading"}
    /\ chatReq' = Put(chatReq, r, Idle)
    /\ UNCHANGED <<message, screen, crossed, overlapped>>

\* Mutant: history is read as findById reads, without looking at deletedAt.
HistoryWhole(r, u) ==
    /\ chatReq[r] = Idle /\ screen[u].inRoom
    /\ chatReq' = Put(chatReq, r,
         [pc |-> "page", user |-> u,
          items |-> {m \in Messages : message[m] # None},
          readers |-> {rd \in Members \X Messages :
                         message[rd[2]] # None /\ message[rd[2]].readBy[rd[1]] > 0}])
    /\ UNCHANGED <<message, screen, crossed, overlapped>>

\* getMessages reads a page long enough for every message.
History(r, u) ==
    LET live == {m \in Messages : message[m] # None /\ ~message[m].deleted} IN
    /\ chatReq[r] = Idle /\ screen[u].inRoom
    /\ chatReq' = Put(chatReq, r,
         [pc |-> "page", user |-> u, items |-> live,
          readers |-> {rd \in Members \X live : message[rd[2]].readBy[rd[1]] > 0}])
    /\ UNCHANGED <<message, screen, crossed, overlapped>>

PageArrives(r) ==
    LET q == chatReq[r] IN
    /\ q.pc = "page"
    /\ screen' = [screen EXCEPT ![q.user].shown = @ \union q.items,
                                ![q.user].readers = @ \union q.readers,
                                ![q.user].inStep = TRUE]
    /\ chatReq' = Put(chatReq, r, Idle)
    /\ UNCHANGED <<message, crossed, overlapped>>

\* handleJoinRoom.
JoinRoom(u) ==
    /\ ~screen[u].inRoom
    /\ screen' = [screen EXCEPT ![u].inRoom = TRUE]
    /\ UNCHANGED <<message, chatReq, crossed, overlapped>>

\* handleLeaveRoom, or the socket closes; the browser drops the view and any
\* page it waits for.
LeaveRoom(u) ==
    /\ screen[u] # Away
    /\ screen' = [screen EXCEPT ![u] = Away]
    /\ chatReq' = [r \in Requests |-> IF chatReq[r].pc = "page" /\ chatReq[r].user = u
                                      THEN Idle ELSE chatReq[r]]
    /\ UNCHANGED <<message, crossed, overlapped>>

\* The process restarts: handlers and rooms are gone, rows stay.
ChatRestart ==
    /\ chatReq # AllIdle
    /\ chatReq' = AllIdle
    /\ screen' = [u \in Members |-> Away]
    /\ UNCHANGED <<message, crossed, overlapped>>

\* The events of a socket that is let in.
SocketEvents(r, u) ==
    \/ JoinRoom(u) \/ LeaveRoom(u)
    \/ \E m \in Messages : Send(r, u, m) \/ DeleteFind(r, u, m) \/ ReadFind(r, u, m)

ChatFeedNext ==
    \/ \E r \in Requests :
         \/ \E u \in Members : SocketEvents(r, u) \/ History(r, u)
         \/ SoftDelete(r) \/ ReadPush(r) \/ Announce(r) \/ ChatFail(r) \/ PageArrives(r)
    \/ ChatRestart

ChatFeedSpec == ChatFeedInit /\ [][ChatFeedNext]_feedVars

-----------------------------------------------------------------------------
(* Properties.                                                             *)

\* The announcement of event about m is still to be made.
ToAnnounce(event, m) ==
    \E r \in Requests :
        chatReq[r].pc = "announce" /\ chatReq[r].event = event /\ chatReq[r].id = m

\* A screen in step shows every message of the case that is not deleted, but
\* for those about to be announced: joining and then reading history leaves no
\* gap, whatever is sent, deleted or restarted meanwhile.
InStepSeesAll ==
    \A u \in Members, m \in Messages :
        screen[u].inStep /\ message[m] # None /\ ~message[m].deleted
            => m \in screen[u].shown \/ ToAnnounce("new", m)

\* A deleted message stays on the screen of someone in step only until the
\* deletion is announced, unless a copy was on its way at that time: that one
\* arrives after the announcement and nothing takes it down again.
OnlyCrossedLinger ==
    \A u \in Members, m \in Messages :
        screen[u].inStep /\ m \in screen[u].shown /\ message[m].deleted
            => ToAnnounce("deleted", m) \/ m \in crossed

\* Whoever is shown as a reader is in the row's list and stays there, also when
\* members read the same message at the same time.
ReadersAreKept ==
    \A u \in Members : \A rd \in screen[u].readers :
        message[rd[2]] # None /\ message[rd[2]].readBy[rd[1]] > 0

\* A reader is listed once, unless two of his calls overlapped.
ListedOnce ==
    \A u \in Members, m \in Messages :
        message[m] # None /\ message[m].readBy[u] > 1 => <<u, m>> \in overlapped

=============================================================================
