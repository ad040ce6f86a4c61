---------------------------- MODULE ChatPresence ----------------------------
(***************************************************************************)
(* Who is online: ChatGateway's map of users, kept by the connections of   *)
(* their browser tabs.  The token of a connection is verified across an    *)
(* await, during which the socket may close and its events may already run *)
(* through WsJwtGuard.  socket.io delivers what the server emits in order, *)
(* so an event is modelled as received when it is emitted; of the map only *)
(* its keys are ever read.                                                 *)
(***************************************************************************)
EXTENDS Handlers

CONSTANTS Sockets, ChatUsers

VARIABLES
    socket,       \* a tab's connection
    onlineUsers,  \* keys of the map
    \* History variable.
    blurred       \* users with two connections at once, or one closed while verified

presenceVars == <<socket, onlineUsers, blurred>>

Off == [st |-> "off"]
Socket ==
    {Off}
    \union [st : {"verifying", "closed"}, user : ChatUsers, known : BOOLEAN]
    \union [st : {"on"}, user : ChatUsers, view : SUBSET ChatUsers]

\* The state is well typed.
PresenceTypeOK ==
    /\ socket \in [Sockets -> Socket]
    /\ onlineUsers \subseteq ChatUsers /\ blurred \subseteq ChatUsers

PresenceInit ==
    /\ socket = [s \in Sockets |-> Off]
    /\ onlineUsers = {} /\ blurred = {}

Holds(s, u) == socket[s] # Off /\ socket[s].user = u

\* server.emit, of a user who came or went: every tab let in takes it in.
Came(sockets, u) ==
    [s \in Sockets |-> IF sockets[s].st = "on" THEN [sockets[s] EXCEPT !.view = @ \union {u}]
                       ELSE sockets[s]]

Went(sockets, u) ==
    [s \in Sockets |-> IF sockets[s].st = "on" THEN [sockets[s] EXCEPT !.view = @ \ {u}]
                       ELSE sockets[s]]

\* A tab connects with u's token and handleConnection starts to verify it.
Connect(s, u) ==
    /\ socket[s] = Off
    /\ socket' = [socket EXCEPT ![s] = [st |-> "verifying", user |-> u, known |-> FALSE]]
    /\ blurred' = blurred \union {v \in {u} : \E t \in Sockets : Holds(t, v)}
    /\ UNCHANGED onlineUsers

\* A connection without a valid token is closed again.
Unauthorized(s) ==
    /\ socket[s].st \in {"verifying", "closed"} /\ ~socket[s].known
    /\ socket' = [socket EXCEPT ![s] = Off]
    /\ UNCHANGED <<onlineUsers, blurred>>

\* WsJwtGuard on an event the tab sent without waiting to be let in.
GuardedEvent(s) ==
    /\ socket[s].st = "verifying"
    /\ socket' = [socket EXCEPT ![s].known = TRUE]
    /\ UNCHANGED <<onlineUsers, blurred>>

\* Mutant: the list is sent before the user is entered.
EnterLate(s) ==
    LET u == socket[s].user IN
    /\ socket[s].st = "verifying"
    /\ onlineUsers' = onlineUsers \union {u}
    /\ socket' = [Came(socket, u) EXCEPT
                    ![s] = [st |-> "on", user |-> u, view |-> onlineUsers]]
    /\ UNCHANGED blurred

\* The token is valid: the user is entered, announced, and sent the list.
Enter(s) ==
    LET u == socket[s].user IN
    /\ socket[s].st = "verifying"
    /\ onlineUsers' = onlineUsers \union {u}
    /\ socket' = [Came(socket, u) EXCEPT
                    ![s] = [st |-> "on", user |-> u, view |-> onlineUsers']]
    /\ UNCHANGED blurred

\* The same for a socket that has closed meanwhile: joining and sending do
\* nothing any more, but the user is entered and announced.
EnterClosed(s) ==
    LET u == socket[s].user IN
    /\ socket[s].st = "closed"
    /\ onlineUsers' = onlineUsers \union {u}
    /\ socket' = [Came(socket, u) EXCEPT ![s] = Off]
    /\ UNCHANGED blurred

\* Mutant: only sockets that were let in count as disconnected users.
DisconnectQuiet(s) ==
    LET u == socket[s].user IN
    /\ socket[s].st = "on"
    /\ socket' = [Went(socket, u) EXCEPT ![s] = Off]
    /\ UNCHANGED <<onlineUsers, blurred>>

\* handleDisconnect: the user goes, with whatever other tabs are open.
Disconnect(s) ==
    LET u == socket[s].user IN
    /\ socket[s].st = "on"
    /\ onlineUsers' = onlineUsers \ {u}
    /\ socket' = [Went(socket, u) EXCEPT ![s] = Off]
    /\ UNCHANGED blurred

\* A socket closes while its token is verified; handleDisconnect acts only if
\* the guard has set its user by then.
DisconnectEarly(s) ==
    LET u == socket[s].user IN
    /\ socket[s].st = "verifying"
    /\ onlineUsers' = IF socket[s].known THEN onlineUsers \ {u} ELSE onlineUsers
    /\ socket' = [(IF socket[s].known THEN Went(socket, u) ELSE socket)
                    EXCEPT ![s] = [socket[s] EXCEPT !.st = "closed"]]
    /\ blurred' = blurred \union {u}

\* The process restarts: the map and every connection are gone.
Restart ==
    /\ \E s \in Sockets : socket[s] # Off
    /\ socket' = [s \in Sockets |-> Off]
    /\ onlineUsers' = {} /\ blurred' = {}

PresenceNext ==
    \/ \E s \in Sockets :
         \/ \E u \in ChatUsers : Connect(s, u)
         \/ Unauthorized(s) \/ GuardedEvent(s) \/ Enter(s) \/ EnterClosed(s)
         \/ Disconnect(s) \/ DisconnectEarly(s)
    \/ Restart

PresenceSpec == PresenceInit /\ [][PresenceNext]_presenceVars

-----------------------------------------------------------------------------
(* Properties.                                                             *)

\* A user who never had two tabs at once, nor one that closed while its token
\* was verified, is in the map exactly while a tab of his is let in.
OnlineIsConnected ==
    \A u \in ChatUsers \ blurred :
        u \in onlineUsers <=> \E s \in Sockets : Holds(s, u) /\ socket[s].st = "on"

\* What a tab was sent as the initial list and as events since adds up to the
\* map, also for users the map is wrong about.
ViewsAgree == \A s \in Sockets : socket[s].st = "on" => socket[s].view = onlineUsers

=============================================================================
