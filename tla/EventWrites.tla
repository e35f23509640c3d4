---------------------------- MODULE EventWrites ----------------------------
(***************************************************************************)
(* The transactions that write into one event: attendees created, edited,  *)
(* restored, revoked and changed in bulk, imports from the page and from   *)
(* the command line, erasures, ticket types, the capacity, mail settings   *)
(* and the deletion of the event (packages/tickets, packages/import,       *)
(* apps/web/src/admin).                                                    *)
(*                                                                         *)
(* A request is a list of statements.  Transactions are READ COMMITTED: a  *)
(* statement sees what is committed, a row or advisory lock is held to the *)
(* end, and writes are seen from Commit on.  Rows made by a request carry  *)
(* its name.                                                               *)
(***************************************************************************)
EXTENDS Naturals, Sequences, FiniteSets

CONSTANTS Requests,     \* HTTP requests, and runs of the importer
          People,       \* attendees there may be at first, in the order of their ids
          Labels,       \* labels of ticket types
          MaxTypes,     \* MAX_TICKET_TYPES_PER_EVENT
          MaxCapacity,  \* bound on the capacity of the event
          FileOrders,   \* the files: who is listed -> at which line
          Kinds         \* the kinds of request used, of DOMAIN Plan

ASSUME EventAssumption ==
  /\ People \subseteq Nat \ {0} /\ IsFiniteSet(People)
  /\ MaxTypes \in Nat \ {0} /\ MaxCapacity \in Nat
  /\ \A file \in FileOrders : DOMAIN file \subseteq People
  /\ Requests \cap {"before", "none"} = {} /\ IsFiniteSet(Requests)
  /\ "standard" \in Labels /\ "none" \notin Labels

\* The statements of each kind of request, in the order of the code.
Create     == <<"types", "check", "capacity", "limit", "count", "insert", "commit">>
Restore    == <<"read", "types", "check", "capacity", "limit", "count", "update", "commit">>
Edit       == <<"read", "types", "check", "update", "commit">>
Revoke     == <<"read", "update", "commit">>
Bulk       == <<"owned", "rows", "set", "commit">>
BulkType   == <<"types", "check", "owned", "rows", "set", "commit">>
Import     == <<"queueShared", "newJob", "commit", "claim", "ownJob", "types", "capacity",
                "fresh", "match", "limit", "count", "insert", "file", "commit">>
Importer   == <<"types", "fresh", "capacity", "match", "limit", "count", "insert", "file", "commit">>
Erase      == <<"queue", "openJobs", "rows", "set", "results", "commit">>
CreateType == <<"types", "label", "add", "commit">>
RenameType == <<"types", "label", "commit">>
DeleteType == <<"types", "unused", "commit">>
Resize     == <<"resize", "commit">>
Settings   == <<"scoped", "exists", "commit">>
Delete     == <<"scoped", "queue", "allJobs", "event", "empty", "allJobs", "commit">>

Plan == [create |-> Create, restore |-> Restore, edit |-> Edit, revoke |-> Revoke, bulk |-> Bulk,
         bulkType |-> BulkType, import |-> Import, cli |-> Importer, erase |-> Erase,
         remove |-> Erase, createType |-> CreateType, renameType |-> RenameType,
         deleteType |-> DeleteType, resize |-> Resize, settings |-> Settings, delete |-> Delete]
ASSUME KindsAssumption == Kinds \subseteq DOMAIN Plan
\* Requests under the capacity lock, where their transaction begins and where its work does.
Seated == [create |-> [begin |-> 1, work |-> 4], restore |-> [begin |-> 2, work |-> 5],
           import |-> [begin |-> 5, work |-> 8], cli |-> [begin |-> 1, work |-> 4]]

VARIABLES
  event,     \* the event is there
  capacity,  \* its capacity
  settings,  \* a row of mail settings names it (no foreign key)
  types,     \* the catalog: who made a type -> its label, or "none"
  person,    \* People -> the row of an attendee
  newcomers, \* Requests -> how many rows it created, and their type
  job,       \* Requests -> the state of its import job
  request    \* Requests -> what it is, where it is, what it holds and will write

vars == <<event, capacity, settings, types, person, newcomers, job, request>>

Makers == Requests \cup {"before"}
\* erased: erased_at is set; named: the row holds the name; takes: it counts against the
\* capacity; by: who wrote it last (updated_at).
PersonRow == [there : BOOLEAN, erased : BOOLEAN, named : BOOLEAN, takes : BOOLEAN,
              type : Makers \cup {"none"}, by : Makers]
NoPerson == [there |-> FALSE, erased |-> FALSE, named |-> FALSE, takes |-> FALSE,
             type |-> "none", by |-> "before"]
JobStates == {"none", "pending", "running", "succeeded", "failed"}

\* "S" for FOR KEY SHARE, what a foreign key takes, and shared advisory locks; "N" for
\* the lock of an update; "X" for FOR UPDATE, deletes and exclusive advisory locks.
Advisory == {"scoped", "queue", "types", "capacity"}
Locks == ((Advisory \cup {"event"}) \X {0}) \cup ({"job"} \X Requests) \cup ({"person"} \X People)
Modes == {"S", "N", "X"}
Conflict(m1, m2) == m1 = "X" \/ m2 = "X" \/ (m1 = "N" /\ m2 = "N")

\* x: the people it names; key, label: a ticket type; flag: force=1, or an erasure that
\* keeps the seat (of an admitted person, or an archived event); file, left: its file and
\* the people there still to update; new: the seats it wants; seen: the rows as it read them.
NoRequest == [kind |-> "none", at |-> 0, x |-> {}, key |-> "none", label |-> "none", flag |-> FALSE,
              file |-> <<>>, left |-> {}, new |-> 0, limit |-> 0, counted |-> FALSE, checked |-> FALSE,
              seen |-> [p \in People |-> NoPerson], held |-> {}, wrote |-> {}, state |-> "idle"]

TypeOK ==
  /\ event \in BOOLEAN /\ settings \in BOOLEAN /\ capacity \in 0..MaxCapacity
  /\ types \in [Makers -> Labels \cup {"none"}]
  /\ person \in [People -> PersonRow]
  /\ newcomers \in [Requests -> [n : Nat, type : Makers \cup {"none"}]]
  /\ job \in [Requests -> JobStates]
  /\ request \in [Requests ->
       [kind : DOMAIN Plan \cup {"none"}, at : Nat, x : SUBSET People, key : Makers \cup {"none"},
        label : Labels \cup {"none"}, flag : BOOLEAN, file : FileOrders \cup {<<>>},
        left : SUBSET People, new : Nat, limit : 0..MaxCapacity, counted : BOOLEAN, checked : BOOLEAN, seen : [People -> PersonRow],
        held : SUBSET (Locks \X Modes), wrote : SUBSET People,
        state : {"idle", "open", "ok", "refused"}]]

Init ==
  /\ event = TRUE /\ settings = FALSE
  /\ capacity \in 0..MaxCapacity
  /\ types = [t \in Makers |-> IF t = "before" THEN "standard" ELSE "none"]
  /\ person \in [People -> {NoPerson} \cup
       {[NoPerson EXCEPT !.there = TRUE, !.named = TRUE, !.takes = b] : b \in BOOLEAN}]
  /\ newcomers = [r \in Requests |-> [n |-> 0, type |-> "none"]]
  /\ job = [r \in Requests |-> "none"]
  /\ request = [r \in Requests |-> NoRequest]

----------------------------------------------------------------------------
(* What a statement reads, and the locks it waits for.                     *)

Open(r) == request[r].state = "open"
Op(r) == Plan[request[r].kind][request[r].at]
Done(r) == request[r].at > Len(Plan[request[r].kind])
Holds(r, lock) == \E mode \in Modes : <<lock, mode>> \in request[r].held

There(p) == person[p].there
Live(p) == There(p) /\ ~person[p].erased
Taken == {p \in People : There(p) /\ person[p].takes}
\* Attendees the requests created; each takes a seat.
Created == {c \in Requests \X (1..(Cardinality(People) + 1)) : c[2] <= newcomers[c[1]].n}
InUse(t) == \/ \E p \in People : There(p) /\ person[p].type = t
            \/ \E r \in Requests : newcomers[r].n > 0 /\ newcomers[r].type = t

\* The jobs a statement has still to lock, in the order of their ids; any order here.
JobsWanted(r) ==
  {q \in Requests : ~Holds(r, <<"job", q>>) /\
     CASE Op(r) = "openJobs" -> job[q] \in {"pending", "running"}
       [] Op(r) = "allJobs"  -> job[q] # "none"
       [] Op(r) = "results"  -> job[q] = "succeeded"
       [] Op(r) \in {"claim", "ownJob"} -> q = r
       [] OTHER -> FALSE}

\* The attendee rows a statement has still to lock, and the next one: by id.
RowsWanted(r) == {p \in request[r].x : There(p) /\ ~Holds(r, <<"person", p>>)}
NextRow(r) == {p \in RowsWanted(r) : \A q \in RowsWanted(r) : p <= q}

\* The next of its file, by line.
NextInFile(r) ==
  {p \in request[r].left : \A q \in request[r].left : request[r].file[p] <= request[r].file[q]}

EventMode == [newJob |-> "S", insert |-> "S", add |-> "S", resize |-> "N", event |-> "X"]
Wants(r) ==
  CASE Op(r) \in Advisory -> {<<<<Op(r), 0>>, "X">>}
    [] Op(r) = "queueShared" -> {<<<<"queue", 0>>, "S">>}
    [] Op(r) \in DOMAIN EventMode -> {<<<<"event", 0>>, EventMode[Op(r)]>>}
    [] Op(r) = "update" -> {<<<<"person", p>>, "N">> : p \in request[r].x}
    [] Op(r) = "rows" -> {<<<<"person", p>>, "X">> : p \in NextRow(r)}
    [] Op(r) = "file" -> {<<<<"person", p>>, "N">> : p \in NextInFile(r)}
    [] OTHER -> {<<<<"job", q>>, "X">> : q \in JobsWanted(r)}

\* q holds a lock in a mode that conflicts with the one wanted.
InTheWay(q, want) ==
  Open(q) /\ \E mode \in Modes : <<want[1], mode>> \in request[q].held /\ Conflict(want[2], mode)
Free(r, want) == \A q \in Requests \ {r} : ~InTheWay(q, want)
WaitsFor(r, q) == Open(r) /\ ~Done(r) /\ q # r /\ \E want \in Wants(r) : InTheWay(q, want)

----------------------------------------------------------------------------
(* The steps of a request.                                                 *)

Next1(r) == request' = [request EXCEPT ![r].at = @ + 1]
Take(r, want) == request' = [request EXCEPT ![r].at = @ + 1, ![r].held = @ \cup {want}]
\* The transaction is rolled back and the request answered.
Refuse(r) == request' = [request EXCEPT ![r] = [NoRequest EXCEPT !.state = "refused"]]
RowsSame == UNCHANGED <<event, capacity, settings, types, person, newcomers, job>>

Names(kind) == IF kind \in {"restore", "edit", "revoke"} THEN {{p} : p \in {p \in People : There(p)}}
               ELSE IF kind \in {"bulk", "bulkType", "erase", "remove"}
               THEN (SUBSET {p \in People : There(p)}) \ {{}} ELSE {{}}
Keys(kind) == (IF kind \in {"edit", "bulkType", "renameType", "deleteType"} THEN {} ELSE {"none"})
              \cup (IF kind \in {"create", "restore", "import", "cli", "edit", "bulkType",
                                 "renameType", "deleteType"}
                    THEN {t \in Makers : types[t] # "none"} ELSE {})

Begin(r) ==
  /\ request[r].state = "idle" /\ event
  /\ \E kind \in Kinds :
     \E x \in Names(kind), key \in Keys(kind),
        flag \in (IF kind \in {"create", "restore", "import", "erase"} THEN BOOLEAN ELSE {FALSE}),
        label \in (IF kind \in {"createType", "renameType"} THEN Labels ELSE {"none"}),
        limit \in (IF kind = "resize" THEN 0..MaxCapacity ELSE {0}),
        file \in (IF kind \in {"import", "cli"} THEN FileOrders ELSE {<<>>}) :
       request' = [request EXCEPT ![r] =
         [NoRequest EXCEPT !.kind = kind, !.at = 1, !.x = x, !.key = key, !.label = label,
            !.flag = flag, !.limit = limit, !.file = file, !.left = DOMAIN file,
            !.new = IF kind \in DOMAIN Seated THEN 1 ELSE 0, !.state = "open"]]
  /\ RowsSame

\* Neither a type that is not set nor a status that does not bring a seat back is guarded.
Unneeded(r) ==
  \/ Op(r) = "types" /\ request[r].kind \in {"create", "restore"} /\ request[r].key = "none"
  \/ Op(r) = "capacity" /\ request[r].kind = "restore" /\ request[r].new = 0

LockBut(r, skipped) ==
  /\ Op(r) \in Advisory \cup {"queueShared"} /\ ~Unneeded(r)
  /\ IF Op(r) \in skipped THEN Next1(r) ELSE \E want \in Wants(r) : Free(r, want) /\ Take(r, want)
  /\ RowsSame
LockAllButCapacity(r) == LockBut(r, {"capacity"})
LockAllButTypes(r) == LockBut(r, {"types"})
LockAllButScoped(r) == LockBut(r, {"scoped"})
LockAllButQueue(r) == LockBut(r, {"queue", "queueShared"})

\* pg_advisory_xact_lock.
Lock(r) ==
  /\ Op(r) \in Advisory \cup {"queueShared"} /\ ~Unneeded(r)
  /\ \E want \in Wants(r) : Free(r, want) /\ Take(r, want)
  /\ RowsSame

Skip(r) ==
  /\ Unneeded(r)
  /\ request' = [request EXCEPT ![r].at = @ + (IF Op(r) = "types" THEN 2 ELSE 3)]
  /\ RowsSame

\* lockOpenAttendeeJobs, the deletion of the event, scrubImportJobResults.
LockJobs(r) ==
  /\ Op(r) \in {"openJobs", "allJobs", "results"}
  /\ IF JobsWanted(r) = {} THEN Next1(r)
     ELSE \E want \in Wants(r) :
            Free(r, want) /\ request' = [request EXCEPT ![r].held = @ \cup {want}]
  /\ RowsSame

\* Statements that need the event: inserts (their foreign key), the new capacity, the
\* deletion itself.  Without it they fail.
NeedEvent(r) ==
  /\ Op(r) \in DOMAIN EventMode
  /\ IF Op(r) = "insert" /\ request[r].new = 0 THEN Next1(r)
     ELSE \E want \in Wants(r) : Free(r, want) /\ (IF event THEN Take(r, want) ELSE Refuse(r))
  /\ RowsSame

\* A worker claims the job if it is still pending, in a statement of its own.
Claim(r) ==
  /\ Op(r) = "claim"
  /\ \A want \in Wants(r) : Free(r, want)
  /\ IF job[r] = "pending" THEN Next1(r) /\ job' = [job EXCEPT ![r] = "running"]
     ELSE Refuse(r) /\ UNCHANGED job
  /\ UNCHANGED <<event, capacity, settings, types, person, newcomers>>

OwnJobUnasked(r) == Op(r) = "ownJob" /\ Next1(r) /\ RowsSame

\* executeImportCommit takes the row of its job first, and stops if it is not running.
OwnJob(r) ==
  /\ Op(r) = "ownJob"
  /\ \E want \in Wants(r) :
       Free(r, want) /\ (IF job[r] = "running" THEN Take(r, want) ELSE Refuse(r))
  /\ RowsSame

\* validateTicketTypeCatalog, under the lock.
Check(r) ==
  /\ Op(r) = "check"
  /\ IF types[request[r].key] = "none" THEN Refuse(r)
     ELSE request' = [request EXCEPT ![r].at = @ + 1, ![r].checked = TRUE]
  /\ RowsSame

\* An import asks again which types there are, and leaves out the rows of another.
Fresh(r) ==
  /\ Op(r) = "fresh"
  /\ request' = [request EXCEPT ![r].at = @ + 1,
       ![r].checked = request[r].key # "none" /\ types[request[r].key] # "none"]
  /\ RowsSame
Match(r) ==
  /\ Op(r) = "match"
  /\ LET all == request[r].left
         known == {p \in all : Live(p)}
     IN request' = [request EXCEPT ![r].at = @ + 1,
          ![r].left = IF request[r].key = "none" \/ request[r].checked THEN known ELSE {},
          ![r].new = IF request[r].key = "none" \/ request[r].checked
                     THEN @ + Cardinality(all \ known) ELSE 0]
  /\ RowsSame

\* The row a PATCH decides from, read before its transaction: a status that frees a seat
\* or brings one back (isCapacityReactivation), if it was given up.
Read(r) ==
  /\ Op(r) = "read"
  /\ IF \A p \in request[r].x : Live(p)
     THEN request' = [request EXCEPT ![r].at = @ + 1, ![r].seen = person,
            ![r].new = IF \E p \in request[r].x : person[p].takes THEN 0 ELSE @]
     ELSE Refuse(r)
  /\ RowsSame

Limit(r) ==
  /\ Op(r) = "limit"
  /\ IF event THEN request' = [request EXCEPT ![r].at = @ + 1, ![r].limit = capacity] ELSE Refuse(r)
  /\ RowsSame

\* assertEventCapacityForIncoming, assertImportCapacityInTx: refused for want of seats,
\* unless a superadmin forces it.
Count(r) ==
  /\ Op(r) = "count"
  /\ IF request[r].flag \/ request[r].new = 0 THEN Next1(r)
     ELSE IF Cardinality(Taken) + Cardinality(Created) + request[r].new > request[r].limit
     THEN Refuse(r)
     ELSE request' = [request EXCEPT ![r].at = @ + 1, ![r].counted = TRUE]
  /\ RowsSame

\* optimisticAttendeeUpdate: only the row that was read, and not an erased one.
Update(r) ==
  /\ Op(r) = "update"
  /\ \E p \in request[r].x : LET want == <<<<"person", p>>, "N">> IN
       /\ Free(r, want)
       /\ IF Live(p) /\ person[p].by = request[r].seen[p].by
          THEN request' = [request EXCEPT ![r].at = @ + 1, ![r].held = @ \cup {want}, ![r].wrote = {p}]
          ELSE Refuse(r)
  /\ RowsSame

\* A bulk change reads which of the people it can change, locks their rows in id order,
\* and changes those that still hold what it read.
Owned(r) ==
  /\ Op(r) = "owned"
  /\ request' = [request EXCEPT ![r].at = @ + 1, ![r].seen = person,
       ![r].x = {p \in @ : Live(p) /\ (request[r].kind = "bulkType" => person[p].type # request[r].key)}]
  /\ RowsSame
LockRows(r) ==
  /\ Op(r) = "rows"
  /\ IF RowsWanted(r) = {} THEN Next1(r)
     ELSE \E want \in Wants(r) :
            Free(r, want) /\ request' = [request EXCEPT ![r].held = @ \cup {want}]
  /\ RowsSame
Set(r) ==
  /\ Op(r) = "set"
  /\ LET may(p) == CASE request[r].kind = "bulkType" -> Live(p) /\ person[p].type = request[r].seen[p].type
                     [] request[r].kind \in {"bulk", "erase"} -> Live(p)
                     [] request[r].kind = "remove" -> There(p)
         rows == {p \in request[r].x : may(p)}
     IN request' = [request EXCEPT ![r].wrote = rows,
          ![r].at = IF rows = {} THEN Len(Plan[request[r].kind]) ELSE @ + 1]
  /\ RowsSame

\* An import updates the people of its file one by one, by id, in the order of the file.
FromFile(r) ==
  /\ Op(r) = "file"
  /\ IF request[r].left = {} THEN Next1(r)
     ELSE \E p \in NextInFile(r) : LET want == <<<<"person", p>>, "N">> IN
       /\ Free(r, want)
       /\ IF There(p)
          THEN request' = [request EXCEPT ![r].left = @ \ {p}, ![r].wrote = @ \cup {p},
                                          ![r].held = @ \cup {want}]
          ELSE Refuse(r)
  /\ RowsSame

\* A label is free, and a new type does not exceed the limit.
Label(r) ==
  /\ Op(r) = "label"
  /\ IF \/ \E t \in Makers \ {request[r].key} : types[t] = request[r].label
        \/ IF request[r].kind = "createType"
           THEN Cardinality({t \in Makers : types[t] # "none"}) >= MaxTypes
           ELSE types[request[r].key] = "none"
     THEN Refuse(r) ELSE Next1(r)
  /\ RowsSame
Unused(r) ==
  /\ Op(r) = "unused"
  /\ IF InUse(request[r].key) \/ types[request[r].key] = "none" THEN Refuse(r) ELSE Next1(r)
  /\ RowsSame

Exists(r) ==
  /\ Op(r) = "exists"
  /\ IF event THEN Next1(r) ELSE Refuse(r)
  /\ RowsSame

\* isEventDeletable, under the lock of the event's row.
Empty(r) ==
  /\ Op(r) = "empty"
  /\ IF \/ \E p \in People : There(p)
        \/ Created # {}
        \/ \E t \in Requests : types[t] # "none"
     THEN Refuse(r) ELSE Next1(r)
  /\ RowsSame

----------------------------------------------------------------------------
(* A transaction commits: its writes are seen, its locks released.         *)

RowAfterByLabel(r, p) ==
  IF request[r].kind = "edit" THEN [person[p] EXCEPT !.type = types[request[r].key]] ELSE person[p]

RowAfter(r, p) ==
  LET q == request[r] row == person[p] IN
  CASE q.kind = "remove" -> NoPerson
    [] q.kind = "erase" -> [row EXCEPT !.erased = TRUE, !.named = FALSE, !.takes = @ /\ q.flag, !.by = r]
    [] q.kind = "restore" -> [row EXCEPT !.takes = TRUE, !.by = r,
                                         !.type = IF q.key = "none" THEN @ ELSE q.key]
    [] q.kind = "revoke" -> [row EXCEPT !.takes = FALSE, !.by = r]
    [] q.kind \in {"edit", "bulkType"} -> [row EXCEPT !.type = q.key, !.by = r]
    [] q.kind \in {"import", "cli"} -> [row EXCEPT !.named = TRUE, !.by = r,
                                                   !.type = IF q.key = "none" THEN @ ELSE q.key]
    [] q.kind = "bulk" -> [row EXCEPT !.by = r]

TypeAfter(r, t) ==
  LET q == request[r] IN
  CASE q.kind = "createType" /\ t = r -> q.label
    [] q.kind = "renameType" /\ t = q.key -> q.label
    [] q.kind = "deleteType" /\ t = q.key -> "none"
    [] q.kind = "delete" -> "none"
    [] OTHER -> types[t]

JobAfter(r, j) ==
  CASE request[r].kind = "import" /\ j = r -> IF request[r].at = 3 THEN "pending" ELSE "succeeded"
    [] request[r].kind \in {"erase", "remove"} /\ request[r].wrote # {}
         /\ job[j] \in {"pending", "running"} -> "failed"
    [] request[r].kind = "delete" -> "none"
    [] OTHER -> job[j]

Creates(r) == /\ request[r].kind \in {"create", "import", "cli"}
              /\ request[r].at = Len(Plan[request[r].kind])

Commit(r) ==
  /\ Op(r) = "commit"
  /\ person' = [p \in People |-> IF p \in request[r].wrote THEN RowAfter(r, p) ELSE person[p]]
  /\ newcomers' = [newcomers EXCEPT ![r] =
       IF Creates(r) THEN [n |-> request[r].new, type |-> request[r].key] ELSE @]
  /\ types' = [t \in Makers |-> TypeAfter(r, t)]
  /\ job' = [j \in Requests |-> JobAfter(r, j)]
  /\ capacity' = IF request[r].kind = "resize" THEN request[r].limit ELSE capacity
  /\ settings' = IF request[r].kind \in {"settings", "delete"} THEN request[r].kind = "settings" ELSE settings
  /\ event' = (event /\ request[r].kind # "delete")
  /\ request' = [request EXCEPT ![r] =
       IF request[r].at = Len(Plan[request[r].kind]) THEN [NoRequest EXCEPT !.state = "ok"]
       ELSE [request[r] EXCEPT !.at = request[r].at + 1, !.held = {}]]

\* runEventCapacityTransaction: preparation that took too long is rolled back and done
\* again; work never is.
Retry(r) ==
  /\ Open(r) /\ request[r].kind \in DOMAIN Seated /\ request[r].new # 0
  /\ request[r].at \in (Seated[request[r].kind].begin + 1)..Seated[request[r].kind].work
  /\ request' = [request EXCEPT ![r].at = Seated[request[r].kind].begin,
                                ![r].held = {}, ![r].checked = FALSE]
  /\ RowsSame

\* A lost connection, a timeout, a crash, or PostgreSQL breaking a deadlock.
Abort(r) == Open(r) /\ Refuse(r) /\ RowsSame

Step(r) ==
  /\ Open(r) /\ ~Done(r)
  /\ \/ Lock(r) \/ Skip(r) \/ LockJobs(r) \/ NeedEvent(r) \/ Claim(r) \/ OwnJob(r) \/ Check(r)
     \/ Fresh(r) \/ Match(r) \/ Read(r) \/ Limit(r) \/ Count(r) \/ Update(r) \/ Owned(r)
     \/ LockRows(r) \/ Set(r) \/ FromFile(r) \/ Label(r) \/ Unused(r) \/ Exists(r) \/ Empty(r)
     \/ Commit(r)

Next == \E r \in Requests : Begin(r) \/ Step(r) \/ Retry(r) \/ Abort(r)

Spec == Init /\ [][Next]_vars

----------------------------------------------------------------------------
(* What the code promises.                                                 *)

\* From the moment seats were counted for a request until it commits, nobody else takes
\* one of them: the event is not overfilled by two of a manual creation, a restored
\* attendee and an import (event-capacity.ts, acquireEventCapacityLock).
NoOverfill ==
  \A r \in Requests : Open(r) /\ request[r].counted =>
    Cardinality(Taken) + Cardinality(Created) + request[r].new <= request[r].limit

\* A ticket type that was found in the catalog is there when the row that names it is
\* written (ticket-types.ts, acquireEventTicketTypesLock).
CheckedTypeStays ==
  \A r \in Requests : Open(r) /\ request[r].checked /\ event => types[request[r].key] # "none"

\* "None of these waits can end in a cycle" (stop-open-jobs.ts): no set of open
\* transactions in which each waits for another of them.
NoWaitCycle ==
  \A D \in SUBSET Requests : (\A r \in D : \E q \in D : WaitsFor(r, q)) => D = {}

\* Only the order of a file closes a circle of waits: in every circle an import updates its
\* people in the order of its file and waits for one that another request locks by id, itself
\* waiting for the next.  If the import is a job, that is a bulk change, never an erasure or a
\* removal, which hold the rows of all open jobs by then (lockOpenAttendeeJobs).
OnlyFilesMakeCycles ==
  \A D \in SUBSET Requests : D # {} /\ (\A r \in D : \E q \in D : WaitsFor(r, q)) =>
    \E r, q \in D :
      /\ WaitsFor(r, q) /\ Op(r) = "file" /\ Op(q) = "rows"
      /\ request[r].kind = "import" => request[q].kind \in {"bulk", "bulkType"}

\* Nothing writes into the row of an erased attendee, except its removal.
ErasedUntouched ==
  [][\A p \in People : There(p) /\ person[p].erased => person'[p] \in {person[p], NoPerson}]_vars

\* A deleted event leaves no mail settings and no job behind.
NothingOrphaned ==
  ~event => ~settings /\ \A r \in Requests : job[r] = "none"
=============================================================================
