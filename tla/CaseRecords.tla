---------------------------- MODULE CaseRecords ----------------------------
(***************************************************************************)
(* The cases of law firms and the trail their changes leave.  A case gets  *)
(* its number from a count made before the insert; a change is logged      *)
(* twice: AuditService.log waits for its entry and swallows a failure,     *)
(* AuditInterceptor starts a second insert as the answer leaves and nobody *)
(* handles its failure.  A call here is made once and kept to the end; a   *)
(* case is known by the call that created it, as a row is by its id.       *)
(***************************************************************************)
EXTENDS Naturals, FiniteSets, Handlers

CONSTANTS
    Calls,      \* calls that are made
    Firms,      \* organizations
    SamePrefix, \* those whose ids begin with the same four characters
    Lawyers

ASSUME SamePrefixAssumption == SamePrefix \subseteq Firms

VARIABLES
    case,     \* rows of cases: creating call -> row
    call,     \* each call
    entries,  \* <<call, "service" or "interceptor">>: audit entries made
    \* History variables.
    wrote,       \* calls that changed a row
    mishap,      \* calls that an audit insert failed for, or that were cut off
    renumbered   \* firms a case of which was given another number or firm

caseVars == <<case, call, entries, wrote, mishap, renumbered>>

Prefix(f) == IF f \in SamePrefix THEN SamePrefix ELSE {f}

\* A number is its firm's prefix and a count; the empty prefix stands for the
\* texts that an update can write besides.
Numbers == ({Prefix(f) : f \in Firms} \union {{}}) \X (1 .. Cardinality(Calls))

CaseRow == [number : Numbers, org : Firms, status : {"open", "closed"},
            deleted : BOOLEAN, assigned : SUBSET Lawyers]
Ops == {"update", "status", "assign", "document"}
Call ==
    [pc : {"new"}]
    \union [pc : {"insert", "log", "trail", "over"}, op : {"create"}, org : Firms,
            late : BOOLEAN, number : Numbers]
    \union [pc : {"found", "history", "log", "trail", "over"}, op : Ops, case : Calls]

ASSUME CallsAssumption == IsFiniteSet(Calls) /\ None \notin CaseRow

\* The cases of a firm, the deleted ones too.
CasesOf(f) == {k \in Calls : case[k] # None /\ case[k].org = f}

Taken(number, others) == \E k \in others : case[k] # None /\ case[k].number = number

\* Calls of a process that is running.
InFlight(c) == call[c].pc \notin {"new", "over"}

Ended(c) == [call[c] EXCEPT !.pc = "over"]

\* The state is well typed.
CaseTypeOK ==
    /\ case \in [Calls -> CaseRow \union {None}]
    /\ call \in [Calls -> Call]
    /\ wrote \subseteq Calls /\ mishap \subseteq Calls /\ renumbered \subseteq Firms
    /\ entries \subseteq Calls \X {"service", "interceptor"}

CaseInit ==
    /\ case = [k \in Calls |-> None]
    /\ call = [c \in Calls |-> [pc |-> "new"]]
    /\ entries = {} /\ wrote = {} /\ mishap = {} /\ renumbered = {}

\* The creation waits for its insert with the number that follows n others.
WithNumber(c, f, n) ==
    /\ call[c].pc = "new"
    /\ call' = [call EXCEPT ![c] = [pc |-> "insert", op |-> "create", org |-> f, late |-> FALSE,
                                    number |-> <<Prefix(f), n + 1>>]]
    /\ UNCHANGED <<case, entries, wrote, mishap, renumbered>>

\* Mutant: the cases of every firm are counted.
CountAll(c, f) == WithNumber(c, f, Cardinality({k \in Calls : case[k] # None}))

\* Mutant: deleted cases are not counted.
CountLive(c, f) == WithNumber(c, f, Cardinality({k \in CasesOf(f) : ~case[k].deleted}))

\* getNextCaseNumber; late is history: another call has inserted a case of the
\* firm since.
Count(c, f) == WithNumber(c, f, Cardinality(CasesOf(f)))

\* The insert, refused when the number is taken.
Insert(c) ==
    LET q == call[c] IN
    /\ q.pc = "insert"
    /\ IF Taken(q.number, Calls)
       THEN /\ call' = [call EXCEPT ![c] = Ended(c)]
            /\ UNCHANGED <<case, wrote>>
       ELSE /\ case' = [case EXCEPT ![c] = [number |-> q.number, org |-> q.org, status |-> "open",
                                            deleted |-> FALSE, assigned |-> {}]]
            /\ call' = [d \in Calls |->
                          IF d = c THEN [q EXCEPT !.pc = "log"]
                          ELSE IF call[d].pc = "insert" /\ call[d].org = q.org
                          THEN [call[d] EXCEPT !.late = TRUE] ELSE call[d]]
            /\ wrote' = wrote \union {c}
    /\ UNCHANGED <<entries, mishap, renumbered>>

\* update, updateStatus, assignProfessional and addDocument find the case
\* first, unless it is deleted.
Find(c, op, k) ==
    /\ call[c].pc = "new" /\ case[k] # None /\ ~case[k].deleted
    /\ call' = [call EXCEPT ![c] = [pc |-> "found", op |-> op, case |-> k]]
    /\ UNCHANGED <<case, entries, wrote, mishap, renumbered>>

\* update: the body is Partial<CreateCaseDto>, for which no class is left at run
\* time to validate it by, and is written as it came: also the number, the
\* firm, the status and the date of deletion.  A number that is taken is
\* refused.  Not modelled: a body that changes the id or writes through
\* relations.
Update(c) ==
    LET q == call[c] IN
    /\ q.pc = "found" /\ q.op = "update"
    /\ \E new \in {[x EXCEPT !.assigned = case[q.case].assigned] : x \in CaseRow} :
         /\ ~Taken(new.number, Calls \ {q.case})
         /\ case' = [case EXCEPT ![q.case] = new]
         /\ renumbered' = renumbered \union
              (IF new.number = case[q.case].number /\ new.org = case[q.case].org
               THEN {} ELSE {new.org, case[q.case].org})
    /\ wrote' = wrote \union {c}
    /\ call' = [call EXCEPT ![c].pc = "log"]
    /\ UNCHANGED <<entries, mishap>>

\* updateStatus: the status is written before its entry in the case's history.
UpdateStatus(c, status) ==
    LET q == call[c] IN
    /\ q.pc = "found" /\ q.op = "status"
    /\ case' = [case EXCEPT ![q.case].status = status]
    /\ wrote' = wrote \union {c}
    /\ call' = [call EXCEPT ![c].pc = "history"]
    /\ UNCHANGED <<entries, mishap, renumbered>>

\* Mutant: an assignment is not logged by the service.
AssignQuiet(c, l) ==
    LET q == call[c] IN
    /\ q.pc = "found" /\ q.op = "assign"
    /\ case' = [case EXCEPT ![q.case].assigned = @ \union {l}]
    /\ wrote' = wrote \union {c}
    /\ call' = [call EXCEPT ![c].pc = "trail"]
    /\ UNCHANGED <<entries, mishap, renumbered>>

\* assignProfessional: one row for each case, lawyer and role.
Assign(c, l) ==
    LET q == call[c] IN
    /\ q.pc = "found" /\ q.op = "assign"
    /\ case' = [case EXCEPT ![q.case].assigned = @ \union {l}]
    /\ wrote' = wrote \union {c}
    /\ call' = [call EXCEPT ![c].pc = "log"]
    /\ UNCHANGED <<entries, mishap, renumbered>>

\* addDocument spreads a body that is not validated into the insert: one that
\* names the table's columns makes a row, and the service logs nothing; any
\* other ends in CaseFail.  Documents themselves are not kept here.
AddDocument(c) ==
    /\ call[c].pc = "found" /\ call[c].op = "document"
    /\ wrote' = wrote \union {c}
    /\ call' = [call EXCEPT ![c].pc = "trail"]
    /\ UNCHANGED <<case, entries, mishap, renumbered>>

\* addUpdate names columns its table does not have, whatever the caller sent:
\* the call ends with an error, the status written, nothing notified and
\* nothing logged.
HistoryFails(c) ==
    /\ call[c].pc = "history"
    /\ call' = [call EXCEPT ![c] = Ended(c)]
    /\ UNCHANGED <<case, entries, wrote, mishap, renumbered>>

\* The database refuses a statement before the change is made.
CaseFail(c) ==
    /\ call[c].pc \in {"insert", "found"}
    /\ call' = [call EXCEPT ![c] = Ended(c)]
    /\ UNCHANGED <<case, entries, wrote, mishap, renumbered>>

\* AuditService.log; a failure is logged and forgotten.
LogEntry(c, made) ==
    /\ call[c].pc = "log"
    /\ entries' = entries \union {e \in {<<c, "service">>} : made}
    /\ mishap' = mishap \union {d \in {c} : ~made}
    /\ call' = [call EXCEPT ![c].pc = "trail"]
    /\ UNCHANGED <<case, wrote, renumbered>>

\* AuditInterceptor's insert, while the answer is on its way.
TrailEntry(c) ==
    /\ call[c].pc = "trail"
    /\ entries' = entries \union {<<c, "interceptor">>}
    /\ call' = [call EXCEPT ![c] = Ended(c)]
    /\ UNCHANGED <<case, wrote, mishap, renumbered>>

\* The process ends: a restart, or the insert of the interceptor fails and its
\* rejection is unhandled.  Every call in flight ends with it.
ProcessEnds ==
    /\ \E c \in Calls : InFlight(c)
    /\ call' = [c \in Calls |-> IF InFlight(c) THEN Ended(c) ELSE call[c]]
    /\ mishap' = mishap \union {c \in Calls : InFlight(c)}
    /\ UNCHANGED <<case, entries, wrote, renumbered>>

\* The routes that change a case.
CaseRoutes(c) ==
    \/ \E f \in Firms : Count(c, f)
    \/ \E op \in Ops, k \in Calls : Find(c, op, k)

CaseNext ==
    \/ \E c \in Calls :
         \/ CaseRoutes(c)
         \/ \E status \in {"open", "closed"} : UpdateStatus(c, status)
         \/ \E l \in Lawyers : Assign(c, l)
         \/ \E made \in BOOLEAN : LogEntry(c, made)
         \/ Insert(c) \/ Update(c) \/ AddDocument(c)
         \/ HistoryFails(c) \/ CaseFail(c) \/ TrailEntry(c)
    \/ ProcessEnds

CaseSpec == CaseInit /\ [][CaseNext]_caseVars

-----------------------------------------------------------------------------
(* Properties.                                                             *)

\* The cases of a firm carry its prefix and the numbers from one without a gap,
\* however creations overlap, fail or are cut off, cases are closed or deleted
\* and others share the prefix, until an update gives one of its cases another
\* number or firm, or brings it one (getNextCaseNumber, create, update).
NumberedInOrder ==
    \A f \in Firms \ renumbered :
        {case[k].number : k \in CasesOf(f)} = {Prefix(f)} \X (1 .. Cardinality(CasesOf(f)))

\* A creation that will find its number taken has been overtaken by another of
\* its firm, or meets a case of another firm (one that shares the prefix, or
\* whose case was given the number; that never passes, and the firm can open no
\* more cases), or the firm's own cases were renumbered or moved.
RefusedHadRival ==
    \A c \in Calls :
        call[c].pc = "insert" /\ ~call[c].late /\ call[c].org \notin renumbered =>
            \A k \in CasesOf(call[c].org) : case[k].number # call[c].number

\* The trail is what happened.  Nothing is logged of a call that changed nothing
\* (refused, failed or cut off).  A change is logged by the interceptor and,
\* unless it is a document, by the service once its call is over, if the inserts
\* of this call succeeded and it was not cut off.  A change of status alone is
\* never logged.
TrailIsTrue ==
    /\ \A e \in entries : e[1] \in wrote
    /\ \A c \in wrote \ mishap :
         call[c].pc = "over" /\ call[c].op # "status" =>
             /\ <<c, "interceptor">> \in entries
             /\ call[c].op # "document" => <<c, "service">> \in entries

=============================================================================
