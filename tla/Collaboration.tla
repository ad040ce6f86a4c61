--------------------------- MODULE Collaboration ---------------------------
(***************************************************************************)
(* Chat, cases and lists, for model checking.  As in Commerce, they keep   *)
(* separate state and each behaviour lets one of them run, chosen at the   *)
(* start.                                                                  *)
(***************************************************************************)
EXTENDS ChatPresence, ChatFeed, CaseRecords, Listings

VARIABLE focus

collaborationVars == <<presenceVars, feedVars, caseVars, listVars, focus>>

CollaborationInit ==
    /\ focus \in {"presence", "feed", "cases", "lists"}
    /\ PresenceInit /\ ChatFeedInit /\ CaseInit /\ ListInit
    \* What stands still starts in one way only.
    /\ focus # "lists" => list = "log"

CollaborationNext ==
    \/ /\ focus = "presence" /\ PresenceNext
       /\ UNCHANGED <<feedVars, caseVars, listVars, focus>>
    \/ /\ focus = "feed" /\ ChatFeedNext
       /\ UNCHANGED <<presenceVars, caseVars, listVars, focus>>
    \/ /\ focus = "cases" /\ CaseNext
       /\ UNCHANGED <<presenceVars, feedVars, listVars, focus>>
    \/ /\ focus = "lists" /\ ListNext
       /\ UNCHANGED <<presenceVars, feedVars, caseVars, focus>>

\* The state of each component is well typed.
CollaborationTypeOK == PresenceTypeOK /\ ChatFeedTypeOK /\ CaseTypeOK /\ ListTypeOK

CollaborationSpec == CollaborationInit /\ [][CollaborationNext]_collaborationVars

=============================================================================
