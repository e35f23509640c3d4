-------------------------- MODULE EventWritesProofs --------------------------
(***************************************************************************)
(* What TLAPS proves of EventWrites for any number of requests, people,    *)
(* labels and files: types stay once checked, a deleted event leaves       *)
(* nothing behind, nothing writes into the row of an erased attendee,      *)
(* nobody takes a seat between a count of the seats and the commit of the  *)
(* request that counted them, and only the order of a file makes requests  *)
(* wait in a circle.                                                       *)
(***************************************************************************)
EXTENDS EventWrites, FiniteSetTheorems, TLAPS

States == {"idle", "open", "ok", "refused"}
Newcomers == [n : Nat, type : Makers \cup {"none"}]
RequestRecords ==
  [kind : DOMAIN Plan \cup {"none"}, at : Nat, x : SUBSET People, key : Makers \cup {"none"},
   label : Labels \cup {"none"}, flag : BOOLEAN, file : FileOrders \cup {<<>>},
   left : SUBSET People, new : Nat, limit : 0..MaxCapacity, counted : BOOLEAN,
   checked : BOOLEAN, seen : [People -> PersonRow], held : SUBSET (Locks \X Modes),
   wrote : SUBSET People, state : States]

LEMMA TypeParts ==
  /\ TypeOK <=> /\ event \in BOOLEAN /\ settings \in BOOLEAN /\ capacity \in 0..MaxCapacity
                /\ types \in [Makers -> Labels \cup {"none"}] /\ person \in [People -> PersonRow]
                /\ newcomers \in [Requests -> Newcomers] /\ job \in [Requests -> JobStates]
                /\ request \in [Requests -> RequestRecords]
  /\ TypeOK' <=> /\ event' \in BOOLEAN /\ settings' \in BOOLEAN /\ capacity' \in 0..MaxCapacity
                 /\ types' \in [Makers -> Labels \cup {"none"}] /\ person' \in [People -> PersonRow]
                 /\ newcomers' \in [Requests -> Newcomers] /\ job' \in [Requests -> JobStates]
                 /\ request' \in [Requests -> RequestRecords]
PROOF BY DEF TypeOK, RequestRecords, Newcomers, States

LEMMA RequestFields ==
  ASSUME NEW q \in RequestRecords
  PROVE  /\ q.kind \in DOMAIN Plan \cup {"none"} /\ q.at \in Nat /\ q.x \subseteq People
         /\ q.key \in Makers \cup {"none"} /\ q.label \in Labels \cup {"none"}
         /\ q.flag \in BOOLEAN /\ q.file \in FileOrders \cup {<<>>} /\ q.left \subseteq People
         /\ q.new \in Nat /\ q.limit \in 0..MaxCapacity /\ q.counted \in BOOLEAN
         /\ q.checked \in BOOLEAN /\ q.seen \in [People -> PersonRow]
         /\ q.held \subseteq (Locks \X Modes) /\ q.wrote \subseteq People /\ q.state \in States
PROOF
  <1>1. /\ q.kind \in DOMAIN Plan \cup {"none"} /\ q.at \in Nat /\ q.x \in SUBSET People
        /\ q.key \in Makers \cup {"none"} /\ q.label \in Labels \cup {"none"}
        /\ q.flag \in BOOLEAN /\ q.file \in FileOrders \cup {<<>>} /\ q.left \in SUBSET People
        /\ q.new \in Nat /\ q.limit \in 0..MaxCapacity /\ q.counted \in BOOLEAN
        /\ q.checked \in BOOLEAN /\ q.seen \in [People -> PersonRow]
        /\ q.held \in SUBSET (Locks \X Modes) /\ q.wrote \in SUBSET People /\ q.state \in States
    BY Zenon DEF RequestRecords
  <1> QED BY <1>1

LEMMA NameFacts ==
  /\ "none" \notin Makers /\ "none" \notin Labels /\ "standard" \in Labels
  /\ \A r \in Requests : r \in Makers /\ r # "before"
  /\ "before" \in Makers /\ 0 \in 0..MaxCapacity /\ IsFiniteSet(People)
PROOF BY EventAssumption DEF Makers

LEMMA PersonFields ==
  ASSUME NEW x \in PersonRow
  PROVE  /\ x.there \in BOOLEAN /\ x.erased \in BOOLEAN /\ x.named \in BOOLEAN /\ x.takes \in BOOLEAN
         /\ x.type \in Makers \cup {"none"} /\ x.by \in Makers
PROOF BY DEF PersonRow

LEMMA NoPersonIs == NoPerson \in PersonRow /\ NoPerson.there = FALSE /\ NoPerson.erased = FALSE
PROOF BY NameFacts DEF NoPerson, PersonRow

LEMMA NoRequestIs ==
  /\ NoRequest \in RequestRecords /\ NoRequest.state = "idle" /\ NoRequest.held = {}
  /\ NoRequest.wrote = {} /\ NoRequest.checked = FALSE
PROOF
  <1>1. [p \in People |-> NoPerson] \in [People -> PersonRow]
    BY NoPersonIs
  <1>2. 0 \in Nat /\ "idle" \in States /\ 0 \in 0..MaxCapacity
    BY NameFacts DEF States
  <1>3. NoRequest \in RequestRecords
    BY <1>1, <1>2, Zenon DEF NoRequest, RequestRecords
  <1> QED BY <1>3 DEF NoRequest

LEMMA RefusedIs ==
  LET y == [NoRequest EXCEPT !.state = "refused"] IN
  y \in RequestRecords /\ y.state = "refused" /\ y.held = {}
PROOF
  <1> DEFINE y == [NoRequest EXCEPT !.state = "refused"]
  <1>1. NoRequest \in RequestRecords /\ "refused" \in States
    BY NoRequestIs DEF States
  <1>2. y \in RequestRecords /\ y.state = "refused" /\ y.held = NoRequest.held
    BY <1>1, Zenon DEF RequestRecords
  <1> QED BY <1>2, NoRequestIs

LEMMA DoneIs ==
  LET y == [NoRequest EXCEPT !.state = "ok"] IN
  y \in RequestRecords /\ y.state = "ok" /\ y.held = {}
PROOF
  <1> DEFINE y == [NoRequest EXCEPT !.state = "ok"]
  <1>1. NoRequest \in RequestRecords /\ "ok" \in States
    BY NoRequestIs DEF States
  <1>2. y \in RequestRecords /\ y.state = "ok" /\ y.held = NoRequest.held
    BY <1>1, Zenon DEF RequestRecords
  <1> QED BY <1>2, NoRequestIs

-----------------------------------------------------------------------------
(* Where the statements stand in the plans.                                *)

Statements == {"types", "check", "capacity", "limit", "count", "insert", "commit", "read", "update",
               "owned", "rows", "set", "queueShared", "newJob", "claim", "ownJob", "fresh", "match",
               "file", "queue", "openJobs", "results", "label", "add", "unused", "resize", "scoped",
               "exists", "allJobs", "event", "empty"}

Erasing == {"erase", "remove"}

PlanPlace(kind, at) ==
  /\ Plan[kind][at] \in Statements
  /\ Plan[kind][at] # "commit" => at < Len(Plan[kind])
  /\ Plan[kind][at] = "commit" => at = Len(Plan[kind]) \/ (kind = "import" /\ at = 3)
  /\ at = Len(Plan[kind]) => Plan[kind][at] = "commit"
  /\ at = 1 => Plan[kind][at] \notin {"check", "fresh"}
  /\ kind = "import" /\ at = 4 => Plan[kind][at] = "claim"
  /\ kind = "import" /\ at > 5 /\ at < 14 => Plan[kind][at] # "commit"
  /\ kind = "deleteType" /\ at = 1 => Plan[kind][at] = "types"
  /\ kind = "settings" /\ at = 1 => Plan[kind][at] = "scoped"
  /\ kind = "settings" /\ at = 2 => Plan[kind][at] = "exists"
  /\ kind = "settings" => Len(Plan[kind]) = 3
  /\ kind = "delete" /\ at = 1 => Plan[kind][at] = "scoped"
  /\ kind = "delete" /\ at = 4 => Plan[kind][at] = "event"
  /\ kind = "delete" /\ at = 6 => Plan[kind][at] = "allJobs"
  /\ kind = "delete" => Len(Plan[kind]) = 7
  /\ kind = "deleteType" => Len(Plan[kind]) = 3
  /\ kind = "import" /\ at = 1 => Plan[kind][at] = "queueShared"
  /\ kind = "import" /\ at = 2 => Plan[kind][at] = "newJob"
  /\ kind = "import" /\ at = 5 => Plan[kind][at] = "ownJob"
  /\ kind = "import" /\ at = 6 => Plan[kind][at] = "types"
  /\ kind = "import" /\ at = 9 => Plan[kind][at] = "match"
  /\ kind = "import" => Len(Plan[kind]) = 14
  /\ kind \in Erasing /\ at = 1 => Plan[kind][at] = "queue"
  /\ kind \in Erasing /\ at = 2 => Plan[kind][at] = "openJobs"
  /\ kind \in Erasing /\ at = 3 => Plan[kind][at] = "rows"
  /\ kind \in Erasing => Len(Plan[kind]) = 6
  /\ kind = "bulk" => Len(Plan[kind]) = 4
  /\ kind = "bulkType" => Len(Plan[kind]) = 6
  /\ kind = "bulk" /\ at = 2 => Plan[kind][at] = "rows"
  /\ kind = "bulkType" /\ at = 4 => Plan[kind][at] = "rows"
  /\ kind = "create" /\ at = 1 => Plan[kind][at] = "types"
  /\ kind = "restore" /\ at = 2 => Plan[kind][at] = "types"
  /\ Plan[kind][at] = "check" => /\ kind \in {"create", "restore", "edit", "bulkType"}
                                 /\ (kind = "create" => at = 2) /\ (kind = "restore" => at = 3)
  /\ Plan[kind][at] = "fresh" => kind \in {"import", "cli"} /\ (kind = "import" => at = 8)
  /\ Plan[kind][at] = "match" => kind \in {"import", "cli"} /\ (kind = "import" => at = 9)
  /\ Plan[kind][at] = "file" => kind \in {"import", "cli"} /\ (kind = "import" => at = 13)
  /\ Plan[kind][at] \in {"claim", "ownJob"} => kind = "import" /\ at \in {4, 5}
  /\ Plan[kind][at] = "claim" => at = 4
  /\ Plan[kind][at] = "update" => kind \in {"restore", "edit", "revoke"}
  /\ Plan[kind][at] = "set" => /\ kind \in {"bulk", "bulkType"} \cup Erasing
                               /\ (kind \in Erasing => at = 4) /\ (kind = "bulk" => at = 3)
                               /\ (kind = "bulkType" => at = 5)

\* What comes after a statement.
PlanStep(kind, at) ==
  /\ Plan[kind][at + 1] \in {"check", "fresh"} =>
       Plan[kind][at] = "types" \/ (kind = "import" /\ at = 7)
  /\ Plan[kind][at] \in {"results", "file", "update"} => Plan[kind][at + 1] = "commit"
  /\ Plan[kind][at] = "set" => Plan[kind][at + 1] \in {"results", "commit"}

\* Places that requests are taken to out of the order of their statements.
PlanJump(kind, at) ==
  /\ Plan[kind][at] = "types" /\ kind \in {"create", "restore"} =>
       at + 2 <= Len(Plan[kind]) /\ Plan[kind][at + 2] = "capacity"
       /\ (kind = "create" => at = 1) /\ (kind = "restore" => at = 2)
  /\ Plan[kind][at] = "capacity" /\ kind = "restore" =>
       at = 4 /\ at + 3 <= Len(Plan[kind]) /\ Plan[kind][at + 3] = "update"
  /\ kind \in DOMAIN Seated =>
       LET begin == Seated[kind].begin IN
       /\ begin \in 1..Len(Plan[kind]) /\ Plan[kind][begin] \in {"types", "ownJob"}
       /\ kind = "import" => begin = 5
       /\ kind = "create" => begin = 1
       /\ kind = "restore" => begin = 2
       /\ at \in (begin + 1)..Seated[kind].work => Plan[kind][at] \notin {"file", "results", "commit"}

LEMMA PlanLengths ==
  ASSUME NEW kind \in DOMAIN Plan
  PROVE  Len(Plan[kind]) \in 1..14
PROOF BY DEF Plan, Create, Restore, Edit, Revoke, Bulk, BulkType, Import, Importer, Erase, CreateType,
             RenameType, DeleteType, Resize, Settings, Delete

LEMMA PlanPlaces ==
  ASSUME NEW kind \in DOMAIN Plan, NEW at \in Nat, at >= 1, at <= Len(Plan[kind])
  PROVE  /\ PlanPlace(kind, at)
         /\ at < Len(Plan[kind]) => PlanStep(kind, at)
         /\ PlanJump(kind, at)
PROOF
  <1> USE DEF PlanPlace, PlanStep, PlanJump, Statements, Erasing
  <1>1. CASE kind = "create"
    <2>1. Plan[kind] = Create /\ Len(Create) = 7
      BY <1>1 DEF Plan, Create
    <2>2. PlanPlace(kind, at)
      BY <2>1, <1>1 DEF Create
    <2>3. at < Len(Plan[kind]) => PlanStep(kind, at)
      BY <2>1, <1>1 DEF Create
    <2>4. PlanJump(kind, at)
      BY <2>1, <1>1 DEF Create, Seated
    <2> QED BY <2>2, <2>3, <2>4
  <1>2. CASE kind = "restore"
    <2>1. Plan[kind] = Restore /\ Len(Restore) = 8
      BY <1>2 DEF Plan, Restore
    <2>2. PlanPlace(kind, at)
      BY <2>1, <1>2 DEF Restore
    <2>3. at < Len(Plan[kind]) => PlanStep(kind, at)
      BY <2>1, <1>2 DEF Restore
    <2>4. PlanJump(kind, at)
      BY <2>1, <1>2 DEF Restore, Seated
    <2> QED BY <2>2, <2>3, <2>4
  <1>3. CASE kind = "edit"
    <2>1. Plan[kind] = Edit /\ Len(Edit) = 5
      BY <1>3 DEF Plan, Edit
    <2>2. PlanPlace(kind, at)
      BY <2>1, <1>3 DEF Edit
    <2>3. at < Len(Plan[kind]) => PlanStep(kind, at)
      BY <2>1, <1>3 DEF Edit
    <2>4. PlanJump(kind, at)
      BY <2>1, <1>3 DEF Edit, Seated
    <2> QED BY <2>2, <2>3, <2>4
  <1>4. CASE kind = "revoke"
    <2>1. Plan[kind] = Revoke /\ Len(Revoke) = 3
      BY <1>4 DEF Plan, Revoke
    <2>2. PlanPlace(kind, at)
      BY <2>1, <1>4 DEF Revoke
    <2>3. at < Len(Plan[kind]) => PlanStep(kind, at)
      BY <2>1, <1>4 DEF Revoke
    <2>4. PlanJump(kind, at)
      BY <2>1, <1>4 DEF Revoke, Seated
    <2> QED BY <2>2, <2>3, <2>4
  <1>5. CASE kind = "bulk"
    <2>1. Plan[kind] = Bulk /\ Len(Bulk) = 4
      BY <1>5 DEF Plan, Bulk
    <2>2. PlanPlace(kind, at)
      BY <2>1, <1>5 DEF Bulk
    <2>3. at < Len(Plan[kind]) => PlanStep(kind, at)
      BY <2>1, <1>5 DEF Bulk
    <2>4. PlanJump(kind, at)
      BY <2>1, <1>5 DEF Bulk, Seated
    <2> QED BY <2>2, <2>3, <2>4
  <1>6. CASE kind = "bulkType"
    <2>1. Plan[kind] = BulkType /\ Len(BulkType) = 6
      BY <1>6 DEF Plan, BulkType
    <2>2. PlanPlace(kind, at)
      BY <2>1, <1>6 DEF BulkType
    <2>3. at < Len(Plan[kind]) => PlanStep(kind, at)
      BY <2>1, <1>6 DEF BulkType
    <2>4. PlanJump(kind, at)
      BY <2>1, <1>6 DEF BulkType, Seated
    <2> QED BY <2>2, <2>3, <2>4
  <1>7. CASE kind = "import"
    <2>1. Plan[kind] = Import /\ Len(Import) = 14
      BY <1>7 DEF Plan, Import
    <2>2. PlanPlace(kind, at)
      BY <2>1, <1>7 DEF Import
    <2>3. at < Len(Plan[kind]) => PlanStep(kind, at)
      BY <2>1, <1>7 DEF Import
    <2>4. PlanJump(kind, at)
      BY <2>1, <1>7 DEF Import, Seated
    <2> QED BY <2>2, <2>3, <2>4
  <1>8. CASE kind = "cli"
    <2>1. Plan[kind] = Importer /\ Len(Importer) = 9
      BY <1>8 DEF Plan, Importer
    <2>2. PlanPlace(kind, at)
      BY <2>1, <1>8 DEF Importer
    <2>3. at < Len(Plan[kind]) => PlanStep(kind, at)
      BY <2>1, <1>8 DEF Importer
    <2>4. PlanJump(kind, at)
      BY <2>1, <1>8 DEF Importer, Seated
    <2> QED BY <2>2, <2>3, <2>4
  <1>9. CASE kind = "erase"
    <2>1. Plan[kind] = Erase /\ Len(Erase) = 6
      BY <1>9 DEF Plan, Erase
    <2>2. PlanPlace(kind, at)
      BY <2>1, <1>9 DEF Erase
    <2>3. at < Len(Plan[kind]) => PlanStep(kind, at)
      BY <2>1, <1>9 DEF Erase
    <2>4. PlanJump(kind, at)
      BY <2>1, <1>9 DEF Erase, Seated
    <2> QED BY <2>2, <2>3, <2>4
  <1>10. CASE kind = "remove"
    <2>1. Plan[kind] = Erase /\ Len(Erase) = 6
      BY <1>10 DEF Plan, Erase
    <2>2. PlanPlace(kind, at)
      BY <2>1, <1>10 DEF Erase
    <2>3. at < Len(Plan[kind]) => PlanStep(kind, at)
      BY <2>1, <1>10 DEF Erase
    <2>4. PlanJump(kind, at)
      BY <2>1, <1>10 DEF Erase, Seated
    <2> QED BY <2>2, <2>3, <2>4
  <1>11. CASE kind = "createType"
    <2>1. Plan[kind] = CreateType /\ Len(CreateType) = 4
      BY <1>11 DEF Plan, CreateType
    <2>2. PlanPlace(kind, at)
      BY <2>1, <1>11 DEF CreateType
    <2>3. at < Len(Plan[kind]) => PlanStep(kind, at)
      BY <2>1, <1>11 DEF CreateType
    <2>4. PlanJump(kind, at)
      BY <2>1, <1>11 DEF CreateType, Seated
    <2> QED BY <2>2, <2>3, <2>4
  <1>12. CASE kind = "renameType"
    <2>1. Plan[kind] = RenameType /\ Len(RenameType) = 3
      BY <1>12 DEF Plan, RenameType
    <2>2. PlanPlace(kind, at)
      BY <2>1, <1>12 DEF RenameType
    <2>3. at < Len(Plan[kind]) => PlanStep(kind, at)
      BY <2>1, <1>12 DEF RenameType
    <2>4. PlanJump(kind, at)
      BY <2>1, <1>12 DEF RenameType, Seated
    <2> QED BY <2>2, <2>3, <2>4
  <1>13. CASE kind = "deleteType"
    <2>1. Plan[kind] = DeleteType /\ Len(DeleteType) = 3
      BY <1>13 DEF Plan, DeleteType
    <2>2. PlanPlace(kind, at)
      BY <2>1, <1>13 DEF DeleteType
    <2>3. at < Len(Plan[kind]) => PlanStep(kind, at)
      BY <2>1, <1>13 DEF DeleteType
    <2>4. PlanJump(kind, at)
      BY <2>1, <1>13 DEF DeleteType, Seated
    <2> QED BY <2>2, <2>3, <2>4
  <1>14. CASE kind = "resize"
    <2>1. Plan[kind] = Resize /\ Len(Resize) = 2
      BY <1>14 DEF Plan, Resize
    <2>2. PlanPlace(kind, at)
      BY <2>1, <1>14 DEF Resize
    <2>3. at < Len(Plan[kind]) => PlanStep(kind, at)
      BY <2>1, <1>14 DEF Resize
    <2>4. PlanJump(kind, at)
      BY <2>1, <1>14 DEF Resize, Seated
    <2> QED BY <2>2, <2>3, <2>4
  <1>15. CASE kind = "settings"
    <2>1. Plan[kind] = Settings /\ Len(Settings) = 3
      BY <1>15 DEF Plan, Settings
    <2>2. PlanPlace(kind, at)
      BY <2>1, <1>15 DEF Settings
    <2>3. at < Len(Plan[kind]) => PlanStep(kind, at)
      BY <2>1, <1>15 DEF Settings
    <2>4. PlanJump(kind, at)
      BY <2>1, <1>15 DEF Settings, Seated
    <2> QED BY <2>2, <2>3, <2>4
  <1>16. CASE kind = "delete"
    <2>1. Plan[kind] = Delete /\ Len(Delete) = 7
      BY <1>16 DEF Plan, Delete
    <2>2. PlanPlace(kind, at)
      BY <2>1, <1>16 DEF Delete
    <2>3. at < Len(Plan[kind]) => PlanStep(kind, at)
      BY <2>1, <1>16 DEF Delete
    <2>4. PlanJump(kind, at)
      BY <2>1, <1>16 DEF Delete, Seated
    <2> QED BY <2>2, <2>3, <2>4
  <1>17. kind \in {"create", "restore", "edit", "revoke", "bulk", "bulkType", "import", "cli", "erase",
                   "remove", "createType", "renameType", "deleteType", "resize", "settings", "delete"}
    BY DEF Plan
  <1> QED BY <1>1, <1>2, <1>3, <1>4, <1>5, <1>6, <1>7, <1>8, <1>9, <1>10, <1>11, <1>12, <1>13, <1>14,
             <1>15, <1>16, <1>17

-----------------------------------------------------------------------------
(* The invariant.                                                          *)

\* Request q holds a lock.
Has(q, name, id, mode) == <<<<name, id>>, mode>> \in q.held
HasPerson(q, p) == Has(q, "person", p, "N") \/ Has(q, "person", p, "X")
\* Rows of people are locked in "N" or "X", jobs in "X".
Usual(want) == /\ want[1][1] = "person" => want[2] \in {"N", "X"}
               /\ want[1][1] = "job" => want[2] = "X"
OpenJob(j) == job[j] \in {"pending", "running"}
Typing == {"create", "restore", "edit", "bulkType", "import", "cli"}
Writers == {"remove", "erase", "restore", "revoke", "edit", "bulkType", "import", "cli", "bulk"}

\* Where it is, and what it was asked to do.
Placed(q) ==
  /\ q.kind \in Kinds /\ q.at \in 1..Len(Plan[q.kind])
  /\ q.kind \in {"createType", "renameType"} => q.label \in Labels
  /\ q.kind \in {"edit", "bulkType"} => q.key \in Makers
  /\ q.kind = "create" /\ q.at = 2 => q.key \in Makers
  /\ q.kind = "restore" /\ q.at = 3 => q.key \in Makers
  /\ \A want \in q.held : Usual(want)

\* The locks it has taken on its way.
Locked(r, q) ==
  /\ q.kind = "deleteType" /\ q.at > 1 => Has(q, "types", 0, "X")
  /\ q.kind = "settings" /\ q.at > 1 => Has(q, "scoped", 0, "X")
  /\ q.kind = "delete" /\ q.at > 1 => Has(q, "scoped", 0, "X")
  /\ q.kind = "delete" /\ q.at > 4 => Has(q, "event", 0, "X")
  /\ q.kind = "import" /\ q.at \in {2, 3} => Has(q, "queue", 0, "S")
  /\ q.kind = "import" /\ q.at = 3 => Has(q, "event", 0, "S")
  /\ q.kind = "import" /\ q.at > 5 => Has(q, "job", r, "X")
  /\ q.kind \in Erasing /\ q.at > 1 => Has(q, "queue", 0, "X")
  /\ q.kind = "import" /\ q.at \in {7, 8} => Has(q, "types", 0, "X")
  /\ Plan[q.kind][q.at] \in {"check", "fresh"} => Has(q, "types", 0, "X")

\* What it has found under them.
Found(r, q) ==
  /\ q.kind = "settings" /\ q.at > 2 => event
  /\ q.kind = "delete" /\ q.at > 6 => \A j \in Requests : job[j] # "none" => Has(q, "job", j, "X")
  /\ q.kind = "import" /\ q.at = 3 => event
  /\ q.kind = "import" /\ q.at > 5 => job[r] = "running"
  /\ q.kind \in Erasing /\ q.at > 2 => \A j \in Requests : OpenJob(j) => Has(q, "job", j, "X")
  /\ \/ q.kind \in Erasing /\ q.at > 3
     \/ q.kind = "bulk" /\ q.at > 2
     \/ q.kind = "bulkType" /\ q.at > 4
     => \A p \in q.x : There(p) => HasPerson(q, p)

\* A type it has found is there.
Typed(q) ==
  q.checked => /\ q.kind \in Typing /\ (q.kind = "import" => q.at > 8)
               /\ q.key \in Makers /\ Has(q, "types", 0, "X")
               /\ event => types[q.key] # "none"

\* What it will write is locked, and not of somebody erased.
Writing(q) ==
  /\ q.wrote # {} => /\ q.kind \in Writers
                     /\ Plan[q.kind][q.at] \in {"file", "results", "commit"}
                     /\ q.kind = "import" => q.at > 9
  /\ \A p \in q.wrote : There(p) /\ HasPerson(q, p)
  /\ q.kind \notin {"remove", "cli"} => \A p \in q.wrote : ~person[p].erased
  /\ q.kind = "import" /\ q.at > 9 => \A p \in q.left : There(p) => ~person[p].erased

OpenGood(r, q) == Placed(q) /\ Locked(r, q) /\ Found(r, q) /\ Typed(q) /\ Writing(q)

OpenAreGood == \A r \in Requests : Open(r) => OpenGood(r, request[r])

\* No two open requests hold one lock in modes that conflict.
Apart ==
  \A r, q \in Requests : r # q /\ Open(r) /\ Open(q) =>
    \A lock \in Locks, m1, m2 \in Modes :
      <<lock, m1>> \in request[r].held /\ <<lock, m2>> \in request[q].held => ~Conflict(m1, m2)

IInv == OpenAreGood /\ Apart /\ NothingOrphaned

-----------------------------------------------------------------------------
(* Within one request's transaction.                                       *)

\* Where an open request is.
LEMMA OpenPlace ==
  ASSUME TypeOK, IInv, NEW r \in Requests, Open(r)
  PROVE  LET q == request[r] IN
         /\ q \in RequestRecords /\ OpenGood(r, q) /\ q.kind \in DOMAIN Plan /\ q.kind \in Kinds
         /\ Len(Plan[q.kind]) \in 1..14 /\ q.at \in Nat /\ q.at >= 1 /\ q.at <= Len(Plan[q.kind])
         /\ PlanPlace(q.kind, q.at) /\ PlanJump(q.kind, q.at)
         /\ q.at < Len(Plan[q.kind]) => PlanStep(q.kind, q.at)
         /\ Op(r) = Plan[q.kind][q.at]
PROOF
  <1> DEFINE q == request[r]
  <1>1. q \in RequestRecords /\ OpenGood(r, q)
    BY TypeParts DEF IInv, OpenAreGood
  <1>2. q.kind \in DOMAIN Plan /\ q.kind \in Kinds /\ q.at \in 1..Len(Plan[q.kind])
    BY <1>1, KindsAssumption DEF OpenGood, Placed
  <1>3. Len(Plan[q.kind]) \in 1..14
    BY <1>2, PlanLengths
  <1>4. q.at \in Nat /\ q.at >= 1 /\ q.at <= Len(Plan[q.kind])
    BY <1>2, <1>3
  <1> QED BY <1>1, <1>2, <1>3, <1>4, PlanPlaces DEF Op

\* The statement a request is at, by its place.
LEMMA OpPlace ==
  ASSUME TypeOK, IInv, NEW r \in Requests, Open(r)
  PROVE  /\ request[r] \in RequestRecords /\ PlanPlace(request[r].kind, request[r].at)
         /\ Op(r) = Plan[request[r].kind][request[r].at]
PROOF BY OpenPlace

\* Where a file is read.
LEMMA FilePlace ==
  ASSUME NEW kind, NEW at, PlanPlace(kind, at), Plan[kind][at] = "file"
  PROVE  kind \in {"import", "cli"} /\ (kind = "import" => at = 13)
PROOF BY DEF PlanPlace

\* What is known of a request known by its value is known of its name.
LEMMA ByName ==
  ASSUME NEW x, NEW q, q = request'[x], OpenGood(x, q)'
  PROVE  OpenGood(x, request[x])'
PROOF
  <1>1. Placed(q) /\ Locked(x, q)
    BY DEF OpenGood, Placed, Locked, HasPerson, Has
  <1>2. Placed(request'[x]) /\ Locked(x, request'[x])
    BY <1>1
  <1>3. Placed(request[x])'
    BY <1>2 DEF Placed, HasPerson, Has
  <1>4. Locked(x, request[x])'
    BY <1>2 DEF Locked, Has
  <1>5. Found(x, request[x])'
    BY DEF OpenGood, Found, OpenJob, There, HasPerson, Has
  <1>6. Typed(request[x])'
    BY DEF OpenGood, Typed, Has
  <1>7. Writing(request[x])'
    BY DEF OpenGood, Writing, There, HasPerson, Has
  <1> QED BY <1>3, <1>4, <1>5, <1>6, <1>7 DEF OpenGood

LEMMA GoodStays ==
  ASSUME RowsSame, NEW r, NEW q, OpenGood(r, q)
  PROVE  OpenGood(r, q)'
PROOF
  <1>1. Placed(q)' /\ Locked(r, q)'
    BY DEF OpenGood, Placed, Locked, HasPerson, Has
  <1>2. Found(r, q)'
    BY DEF OpenGood, Found, OpenJob, There, HasPerson, Has, RowsSame
  <1>3. Typed(q)' /\ Writing(q)'
    BY DEF OpenGood, Typed, Writing, There, HasPerson, Has, RowsSame
  <1> QED BY <1>1, <1>2, <1>3 DEF OpenGood

\* The locks stay apart when those a request gains are free.
LEMMA ApartStays ==
  ASSUME TypeOK, IInv, NEW r \in Requests, NEW y \in RequestRecords,
         request' = [request EXCEPT ![r] = y],
         y.state = "open" => \A want \in y.held : \/ Open(r) /\ want \in request[r].held
                                                 \/ Free(r, want)
  PROVE  Apart'
PROOF
  <1>1. request'[r] = y /\ \A x \in Requests \ {r} : request'[x] = request[x]
    BY TypeParts
  <1>2. \A m1, m2 : Conflict(m1, m2) <=> Conflict(m2, m1)
    BY DEF Conflict
  <1>3. ASSUME NEW q \in Requests \ {r}, Open(r)', Open(q), NEW lock \in Locks,
               NEW m1 \in Modes, NEW m2 \in Modes,
               <<lock, m1>> \in y.held, <<lock, m2>> \in request[q].held
        PROVE  ~Conflict(m1, m2)
    <2>1. y.state = "open"
      BY <1>1, <1>3 DEF Open
    <2>2. CASE Open(r) /\ <<lock, m1>> \in request[r].held
      BY <1>3, <2>2 DEF IInv, Apart
    <2>3. CASE Free(r, <<lock, m1>>)
      <3>1. ~InTheWay(q, <<lock, m1>>)
        BY <1>3, <2>3 DEF Free
      <3> QED BY <1>3, <3>1 DEF InTheWay
    <2> QED BY <1>3, <2>1, <2>2, <2>3
  <1>4. ASSUME NEW x \in Requests, NEW q \in Requests, x # q, Open(x)', Open(q)',
               NEW lock \in Locks, NEW m1 \in Modes, NEW m2 \in Modes,
               <<lock, m1>> \in request'[x].held, <<lock, m2>> \in request'[q].held
        PROVE  ~Conflict(m1, m2)
    <2>1. CASE x = r
      <3>1. q \in Requests \ {r} /\ Open(q) /\ <<lock, m2>> \in request[q].held
        BY <1>1, <1>4, <2>1 DEF Open
      <3> QED BY <1>1, <1>3, <1>4, <2>1, <3>1
    <2>2. CASE q = r
      <3>1. x \in Requests \ {r} /\ Open(x) /\ <<lock, m1>> \in request[x].held
        BY <1>1, <1>4, <2>2 DEF Open
      <3> QED BY <1>1, <1>2, <1>3, <1>4, <2>2, <3>1
    <2>3. CASE x # r /\ q # r
      BY <1>1, <1>4, <2>3 DEF IInv, Apart, Open
    <2> QED BY <2>1, <2>2, <2>3
  <1> QED BY <1>4 DEF Apart

\* A step of request r that changes no row.
LEMMA LocalKeeps ==
  ASSUME TypeOK, IInv, NEW r \in Requests, RowsSame,
         NEW y \in RequestRecords, request' = [request EXCEPT ![r] = y],
         y.state = "open" =>
           /\ OpenGood(r, y)
           /\ \A want \in y.held : \/ Open(r) /\ want \in request[r].held
                                   \/ Free(r, want)
  PROVE  TypeOK' /\ IInv'
PROOF
  <1>1. /\ request'[r] = y /\ \A x \in Requests \ {r} : request'[x] = request[x]
        /\ request' \in [Requests -> RequestRecords]
    BY TypeParts
  <1>2. TypeOK'
    BY <1>1, TypeParts DEF RowsSame
  <1>3. OpenAreGood'
    <2>1. ASSUME NEW x \in Requests, Open(x)'
          PROVE  OpenGood(x, request[x])'
      <3>1. PICK q : q = request'[x]
        OBVIOUS
      <3>2. OpenGood(x, q)
        BY <1>1, <2>1, <3>1 DEF Open, IInv, OpenAreGood
      <3>3. OpenGood(x, q)'
        BY <3>2, GoodStays
      <3> QED BY <3>1, <3>3, ByName
    <2> QED BY <2>1 DEF OpenAreGood
  <1>4. Apart'
    BY ApartStays
  <1>5. NothingOrphaned'
    BY DEF IInv, NothingOrphaned, RowsSame
  <1> QED BY <1>2, <1>3, <1>4, <1>5 DEF IInv

LEMMA RefuseKeeps ==
  ASSUME TypeOK, IInv, NEW r \in Requests, RowsSame, Refuse(r)
  PROVE  TypeOK' /\ IInv'
PROOF
  <1> DEFINE y == [NoRequest EXCEPT !.state = "refused"]
  <1>1. request' = [request EXCEPT ![r] = y]
    BY DEF Refuse
  <1>2. y \in RequestRecords /\ y.state = "refused"
    BY RefusedIs
  <1> QED BY <1>1, <1>2, LocalKeeps

\* What a statement has to give for the request to go on to the next one.
Gains(r, y) ==
  /\ Op(r) \in {"types", "scoped", "queue"} => Has(y, Op(r), 0, "X")
  /\ Op(r) = "queueShared" => Has(y, "queue", 0, "S")
  /\ Op(r) = "newJob" => Has(y, "event", 0, "S") /\ event
  /\ Op(r) = "event" => Has(y, "event", 0, "X")
  /\ Op(r) = "ownJob" => Has(y, "job", r, "X") /\ job[r] = "running"
  /\ Op(r) = "exists" => event
  /\ Op(r) = "openJobs" => \A j \in Requests : OpenJob(j) => Has(y, "job", j, "X")
  /\ Op(r) = "allJobs" => \A j \in Requests : job[j] # "none" => Has(y, "job", j, "X")
  /\ Op(r) = "rows" => \A p \in y.x : There(p) => HasPerson(y, p)
  /\ Op(r) = "match" => \A p \in y.left : There(p) => ~person[p].erased
  /\ Op(r) = "types" /\ y.kind \in {"create", "restore"} => y.key \in Makers

\* What it will write, or has written: rows it has locked, of nobody erased.
Writes(r, y) ==
  \/ y.wrote = request[r].wrote
  \/ /\ Op(r) \in {"update", "set", "file"}
     /\ \A p \in y.wrote : There(p) /\ HasPerson(y, p)
     /\ y.kind \notin {"remove", "cli"} => \A p \in y.wrote : ~person[p].erased

\* It is the same request, with no lock less and nothing more to do.
Same(q, y) ==
  /\ y.kind = q.kind /\ y.key = q.key /\ y.label = q.label /\ q.held \subseteq y.held
  /\ y.x \subseteq q.x /\ y.left \subseteq q.left
  /\ \A want \in y.held : Usual(want)

LEMMA Onward ==
  ASSUME TypeOK, IInv, NEW r \in Requests, Open(r), NEW y, Same(request[r], y), Gains(r, y),
         y.at = request[r].at + 1, Writes(r, y), Op(r) # "commit", y.wrote = request[r].wrote \/ Op(r) # "file",
         y.checked => \/ request[r].checked
                      \/ Op(r) \in {"check", "fresh"} /\ y.key \in Makers /\ types[y.key] # "none"
  PROVE  OpenGood(r, y)
PROOF
  <1> DEFINE q == request[r]
  <1>1. /\ q \in RequestRecords /\ OpenGood(r, q) /\ q.kind \in DOMAIN Plan /\ q.kind \in Kinds
        /\ q.at \in Nat /\ q.at >= 1 /\ q.at <= Len(Plan[q.kind]) /\ Len(Plan[q.kind]) \in 1..14
        /\ PlanPlace(q.kind, q.at) /\ (q.at < Len(Plan[q.kind]) => PlanStep(q.kind, q.at))
        /\ Op(r) = Plan[q.kind][q.at]
    BY OpenPlace
  <1>2. q.at < Len(Plan[q.kind]) /\ PlanStep(q.kind, q.at)
    BY <1>1 DEF PlanPlace
  <1>3. y.at \in 1..Len(Plan[q.kind]) /\ y.at \in Nat /\ y.at = q.at + 1
    <2>1. \A m \in 1..14, n \in Nat : n >= 1 /\ n < m => n + 1 \in 1..m /\ n + 1 \in Nat
      OBVIOUS
    <2> QED BY <1>1, <1>2, <2>1
  <1>4. \A name, id, mode : Has(q, name, id, mode) => Has(y, name, id, mode)
    BY DEF Has, Same
  <1>5. \A p : HasPerson(q, p) => HasPerson(y, p)
    BY <1>4 DEF HasPerson
  <1>6. Placed(y)
    <2>1. q.kind = "create" /\ y.at = 2 => y.key \in Makers
      BY <1>1, <1>3, SMTT(30) DEF PlanPlace, Gains, Same
    <2>2. q.kind = "restore" /\ y.at = 3 => y.key \in Makers
      BY <1>1, <1>3, SMTT(30) DEF PlanPlace, Gains, Same
    <2> QED BY <1>1, <1>3, <2>1, <2>2 DEF OpenGood, Placed, Same
  <1>7. Locked(r, y)
    <2>1. /\ q.kind = "deleteType" /\ y.at > 1 => Has(y, "types", 0, "X")
          /\ q.kind = "settings" /\ y.at > 1 => Has(y, "scoped", 0, "X")
          /\ q.kind = "delete" /\ y.at > 1 => Has(y, "scoped", 0, "X")
          /\ q.kind \in Erasing /\ y.at > 1 => Has(y, "queue", 0, "X")
      BY <1>1, <1>3, <1>4, SMTT(30) DEF PlanPlace, Gains, OpenGood, Locked
    <2>2. q.kind = "delete" /\ y.at > 4 => Has(y, "event", 0, "X")
      BY <1>1, <1>3, <1>4, SMTT(30) DEF PlanPlace, Gains, OpenGood, Locked
    <2>3. /\ q.kind = "import" /\ y.at \in {2, 3} => Has(y, "queue", 0, "S")
          /\ q.kind = "import" /\ y.at = 3 => Has(y, "event", 0, "S")
      BY <1>1, <1>3, <1>4, SMTT(30) DEF PlanPlace, Gains, OpenGood, Locked
    <2>4. /\ q.kind = "import" /\ y.at > 5 => Has(y, "job", r, "X")
          /\ q.kind = "import" /\ y.at \in {7, 8} => Has(y, "types", 0, "X")
      <3>1. q.kind = "import" /\ y.at > 5 => q.at > 5 \/ Op(r) = "ownJob"
        BY <1>1, <1>3, SMTT(30) DEF PlanPlace
      <3>2. q.kind = "import" /\ y.at \in {7, 8} => q.at \in {7, 8} \/ Op(r) = "types"
        BY <1>1, <1>3, SMTT(30) DEF PlanPlace
      <3>3. q.kind = "import" /\ y.at > 5 => Has(y, "job", r, "X")
        BY <1>1, <1>4, <3>1, SMTT(30) DEF Gains, OpenGood, Locked
      <3>4. q.kind = "import" /\ y.at \in {7, 8} => Has(y, "types", 0, "X")
        BY <1>1, <1>4, <3>2, SMTT(30) DEF Gains, OpenGood, Locked
      <3> QED BY <3>3, <3>4
    <2>5. Plan[q.kind][y.at] \in {"check", "fresh"} => Has(y, "types", 0, "X")
      BY <1>1, <1>2, <1>3, <1>4 DEF PlanStep, Gains, OpenGood, Locked
    <2> QED BY <2>1, <2>2, <2>3, <2>4, <2>5 DEF Locked, Same
  <1>8. Found(r, y)
    <2>1. q.kind = "settings" /\ y.at > 2 => event
      BY <1>1, <1>3, SMTT(30) DEF PlanPlace, Gains, OpenGood, Found
    <2>2. q.kind = "delete" /\ y.at > 6 => \A j \in Requests : job[j] # "none" => Has(y, "job", j, "X")
      BY <1>1, <1>3, <1>4, SMTT(30) DEF PlanPlace, Gains, OpenGood, Found
    <2>3. q.kind = "import" /\ y.at = 3 => event
      BY <1>1, <1>3, SMTT(30) DEF PlanPlace, Gains, OpenGood, Found
    <2>4. q.kind = "import" /\ y.at > 5 => job[r] = "running"
      <3>1. q.kind = "import" /\ y.at > 5 => q.at > 5 \/ Op(r) = "ownJob"
        BY <1>1, <1>3, SMTT(30) DEF PlanPlace
      <3> QED BY <1>1, <3>1, SMTT(30) DEF Gains, OpenGood, Found
    <2>5. q.kind \in Erasing /\ y.at > 2 => \A j \in Requests : OpenJob(j) => Has(y, "job", j, "X")
      BY <1>1, <1>3, <1>4, SMTT(30) DEF PlanPlace, Gains, OpenGood, Found
    <2>6. ASSUME \/ q.kind \in Erasing /\ y.at > 3
                 \/ q.kind = "bulk" /\ y.at > 2
                 \/ q.kind = "bulkType" /\ y.at > 4
          PROVE  \A p \in y.x : There(p) => HasPerson(y, p)
      <3>1. CASE Op(r) = "rows"
        BY <3>1 DEF Gains
      <3>2. CASE Op(r) # "rows"
        <4>1. \/ q.kind \in Erasing /\ q.at > 3
              \/ q.kind = "bulk" /\ q.at > 2
              \/ q.kind = "bulkType" /\ q.at > 4
          BY <1>1, <1>3, <2>6, <3>2 DEF PlanPlace
        <4> QED BY <1>1, <1>5, <4>1 DEF OpenGood, Found, Same
      <3> QED BY <3>1, <3>2
    <2> QED BY <2>1, <2>2, <2>3, <2>4, <2>5, <2>6 DEF Found, Same
  <1>9. Typed(y)
    <2>1. CASE q.checked
      BY <1>1, <1>3, <1>4, <2>1 DEF OpenGood, Typed, Same
    <2>2. CASE Op(r) \in {"check", "fresh"} /\ y.key \in Makers /\ types[y.key] # "none"
      <3>1. q.kind \in Typing /\ (q.kind = "import" => y.at > 8)
        BY <1>1, <1>3, <2>2 DEF PlanPlace, Typing
      <3>2. Has(y, "types", 0, "X")
        BY <1>1, <1>4, <2>2 DEF OpenGood, Locked
      <3> QED BY <2>2, <3>1, <3>2 DEF Typed, Same
    <2> QED BY <2>1, <2>2 DEF Typed
  <1>10. Writing(y)
    <2>3. q.kind = "import" /\ y.at > 9 => \A p \in y.left : There(p) => ~person[p].erased
      BY <1>1, <1>3, SMTT(30) DEF PlanPlace, Gains, OpenGood, Writing, Same
    <2>1. CASE y.wrote = q.wrote
      <3>1. q.wrote # {} => /\ q.kind \in Writers /\ Plan[q.kind][y.at] = "commit"
                            /\ q.kind = "import" => y.at > 9
        BY <1>1, <1>2, <1>3 DEF OpenGood, Writing, PlanStep
      <3>2. \A p \in q.wrote : There(p) /\ HasPerson(y, p)
        BY <1>1, <1>5 DEF OpenGood, Writing
      <3> QED BY <1>1, <2>1, <2>3, <3>1, <3>2 DEF OpenGood, Writing, Same
    <2>2. CASE Op(r) \in {"update", "set"} /\ y.wrote # q.wrote
      <3>1. q.kind \in Writers /\ Plan[q.kind][y.at] \in {"results", "commit"} /\ q.kind # "import"
        BY <1>1, <1>2, <1>3, <2>2 DEF PlanPlace, PlanStep, Writers, Erasing
      <3> QED BY <2>2, <2>3, <3>1 DEF Writing, Writes, Same
    <2> QED BY <2>1, <2>2 DEF Writes
  <1> QED BY <1>6, <1>7, <1>8, <1>9, <1>10 DEF OpenGood

\* A lock more and nothing else.
LEMMA Waiting ==
  ASSUME TypeOK, IInv, NEW r \in Requests, Open(r), NEW y, Same(request[r], y),
         y.at = request[r].at, Writes(r, y), y.wrote = request[r].wrote \/ Op(r) = "file", y.checked <=> request[r].checked
  PROVE  OpenGood(r, y)
PROOF
  <1> DEFINE q == request[r]
  <1>1. OpenGood(r, q)
    BY OpenPlace
  <1>2. \A name, id, mode : Has(q, name, id, mode) => Has(y, name, id, mode)
    BY DEF Has, Same
  <1>3. \A p : HasPerson(q, p) => HasPerson(y, p)
    BY <1>2 DEF HasPerson
  <1>4. Placed(y) /\ Locked(r, y)
    BY <1>1, <1>2 DEF OpenGood, Placed, Locked, Same
  <1>5. Found(r, y)
    BY <1>1, <1>2, <1>3 DEF OpenGood, Found, Same
  <1>6. Typed(y)
    BY <1>1, <1>2 DEF OpenGood, Typed, Same
  <1>7. Writing(y)
    <2>1. CASE y.wrote = q.wrote
      <3>1. Writing(q) /\ y.kind = q.kind /\ y.at = q.at /\ y.left \subseteq q.left
        BY <1>1 DEF OpenGood, Same
      <3> QED BY <1>3, <2>1, <3>1 DEF Writing
    <2>2. CASE Op(r) = "file" /\ y.wrote # q.wrote
      <3>1. q.kind \in Writers /\ Plan[q.kind][q.at] = "file" /\ (q.kind = "import" => q.at > 9)
        BY <2>2, OpPlace, FilePlace DEF Writers
      <3> QED BY <1>1, <2>2, <3>1 DEF OpenGood, Writing, Writes, Same
    <2> QED BY <2>1, <2>2
  <1> QED BY <1>4, <1>5, <1>6, <1>7 DEF OpenGood

\* The request goes on with one lock more, or none.
LEMMA TakeIs ==
  ASSUME TypeOK, IInv, NEW r \in Requests, Open(r), NEW want \in Locks \X Modes, Usual(want)
  PROVE  LET q == request[r]
             y == [q EXCEPT !.at = q.at + 1, !.held = q.held \cup {want}]
             z == [q EXCEPT !.held = q.held \cup {want}]
         IN  /\ y \in RequestRecords /\ Same(q, y) /\ y.at = q.at + 1 /\ y.wrote = q.wrote
             /\ (y.checked <=> q.checked) /\ y.held = q.held \cup {want} /\ y.state = q.state
             /\ z \in RequestRecords /\ Same(q, z) /\ z.at = q.at /\ z.wrote = q.wrote
             /\ (z.checked <=> q.checked) /\ z.held = q.held \cup {want} /\ z.state = q.state
             /\ y.kind = q.kind /\ y.key = q.key
PROOF
  <1> DEFINE q == request[r]
             n == q.at + 1
             held == q.held \cup {want}
             y == [q EXCEPT !.at = n, !.held = held]
             z == [q EXCEPT !.held = held]
  <1>1. q \in RequestRecords /\ n \in Nat /\ Placed(q)
    BY OpenPlace DEF OpenGood
  <1>2. held \in SUBSET (Locks \X Modes)
    BY <1>1, RequestFields
  <1>3. n = q.at + 1 /\ held = q.held \cup {want}
    OBVIOUS
  <1> HIDE DEF n, held
  <1>4. /\ y \in RequestRecords /\ y.kind = q.kind /\ y.key = q.key /\ y.label = q.label /\ y.x = q.x
        /\ y.left = q.left /\ y.at = n /\ y.wrote = q.wrote /\ (y.checked <=> q.checked)
        /\ y.held = held /\ y.state = q.state
    BY <1>1, <1>2, Zenon DEF RequestRecords
  <1>5. /\ z \in RequestRecords /\ z.kind = q.kind /\ z.key = q.key /\ z.label = q.label /\ z.x = q.x
        /\ z.left = q.left /\ z.at = q.at /\ z.wrote = q.wrote /\ (z.checked <=> q.checked)
        /\ z.held = held /\ z.state = q.state
    BY <1>1, <1>2, Zenon DEF RequestRecords
  <1> HIDE DEF y, z
  <1>6. \A w \in held : Usual(w)
    BY <1>1, <1>3 DEF Placed
  <1>7. Same(q, y)
    BY <1>3, <1>4, <1>6 DEF Same
  <1>8. Same(q, z)
    BY <1>3, <1>5, <1>6 DEF Same
  <1> QED BY <1>3, <1>4, <1>5, <1>7, <1>8 DEF n, held, y, z

-----------------------------------------------------------------------------
(* The statements, one by one.                                             *)

\* A statement that takes no lock.
LEMMA GoOn ==
  ASSUME TypeOK, IInv, NEW r \in Requests, Open(r), RowsSame, NEW y \in RequestRecords,
         request' = [request EXCEPT ![r] = y], y.kind = request[r].kind, y.key = request[r].key,
         y.label = request[r].label, y.held = request[r].held, y.wrote = request[r].wrote,
         y.x \subseteq request[r].x, y.left \subseteq request[r].left, y.at = request[r].at + 1,
         Op(r) # "commit", Gains(r, y),
         y.checked => \/ request[r].checked
                      \/ Op(r) \in {"check", "fresh"} /\ y.key \in Makers /\ types[y.key] # "none"
  PROVE  TypeOK' /\ IInv'
PROOF
  <1>1. Same(request[r], y)
    BY OpenPlace DEF Same, OpenGood, Placed
  <1>2. OpenGood(r, y)
    BY <1>1, Onward DEF Writes
  <1> QED BY <1>2, LocalKeeps

LEMMA NextOn ==
  ASSUME TypeOK, IInv, NEW r \in Requests, Open(r), RowsSame, Next1(r), Op(r) # "commit",
         Gains(r, request[r])
  PROVE  TypeOK' /\ IInv'
PROOF
  <1> DEFINE q == request[r]
             n == q.at + 1
             y == [q EXCEPT !.at = n]
  <1>1. q \in RequestRecords /\ n \in Nat
    BY OpenPlace
  <1>2. request' = [request EXCEPT ![r] = y]
    BY DEF Next1
  <1>3. n = q.at + 1
    OBVIOUS
  <1> HIDE DEF n
  <1>4. /\ y \in RequestRecords /\ y.kind = q.kind /\ y.key = q.key /\ y.label = q.label
        /\ y.held = q.held /\ y.x = q.x /\ y.left = q.left /\ y.at = n /\ y.wrote = q.wrote
        /\ y.checked <=> q.checked
    BY <1>1, Zenon DEF RequestRecords
  <1> HIDE DEF y
  <1>5. Gains(r, y)
    BY <1>4 DEF Gains, Has, HasPerson
  <1> QED BY <1>2, <1>3, <1>4, <1>5, GoOn

\* A statement that waits for a lock and takes it.
LEMMA TakeKeeps ==
  ASSUME TypeOK, IInv, NEW r \in Requests, Open(r), RowsSame, NEW want \in Locks \X Modes,
         Free(r, want), Take(r, want),
         Op(r) \notin {"commit", "exists", "openJobs", "allJobs", "rows", "match"},
         Usual(want),
         Op(r) \in {"types", "scoped", "queue"} => want = <<<<Op(r), 0>>, "X">>,
         Op(r) = "queueShared" => want = <<<<"queue", 0>>, "S">>,
         Op(r) = "newJob" => want = <<<<"event", 0>>, "S">> /\ event,
         Op(r) = "event" => want = <<<<"event", 0>>, "X">>,
         Op(r) = "ownJob" => want = <<<<"job", r>>, "X">> /\ job[r] = "running",
         Op(r) = "types" /\ request[r].kind \in {"create", "restore"} => request[r].key \in Makers
  PROVE  TypeOK' /\ IInv'
PROOF
  <1> DEFINE q == request[r]
             y == [q EXCEPT !.at = q.at + 1, !.held = q.held \cup {want}]
  <1>1. request' = [request EXCEPT ![r] = y]
    BY DEF Take
  <1>2. /\ y \in RequestRecords /\ Same(q, y) /\ y.at = q.at + 1 /\ y.wrote = q.wrote
        /\ (y.checked <=> q.checked) /\ y.held = q.held \cup {want}
        /\ y.kind = q.kind /\ y.key = q.key
    BY TakeIs
  <1> HIDE DEF y
  <1>3. Gains(r, y)
    BY <1>2 DEF Gains, Has
  <1>4. OpenGood(r, y)
    BY <1>2, <1>3, Onward DEF Writes
  <1>5. \A w \in y.held : w \in q.held \/ Free(r, w)
    BY <1>2
  <1> QED BY <1>1, <1>2, <1>4, <1>5, LocalKeeps

\* A statement that takes one lock of several.
LEMMA HoldKeeps ==
  ASSUME TypeOK, IInv, NEW r \in Requests, Open(r), RowsSame, NEW want \in Locks \X Modes,
         Free(r, want), request' = [request EXCEPT ![r].held = @ \cup {want}],
         Usual(want)
  PROVE  TypeOK' /\ IInv'
PROOF
  <1> DEFINE q == request[r]
             z == [q EXCEPT !.held = q.held \cup {want}]
  <1>1. request' = [request EXCEPT ![r] = z]
    OBVIOUS
  <1>2. /\ z \in RequestRecords /\ Same(q, z) /\ z.at = q.at /\ z.wrote = q.wrote
        /\ (z.checked <=> q.checked) /\ z.held = q.held \cup {want}
    BY TakeIs
  <1> HIDE DEF z
  <1>3. OpenGood(r, z)
    BY <1>2, Waiting DEF Writes
  <1>4. \A w \in z.held : w \in q.held \/ Free(r, w)
    BY <1>2
  <1> QED BY <1>1, <1>2, <1>3, <1>4, LocalKeeps

LEMMA LockKinds ==
  /\ \A name \in Advisory \cup {"event"} : \A mode \in Modes : <<<<name, 0>>, mode>> \in Locks \X Modes
  /\ \A j \in Requests, mode \in Modes : <<<<"job", j>>, mode>> \in Locks \X Modes
  /\ \A p \in People, mode \in Modes : <<<<"person", p>>, mode>> \in Locks \X Modes
  /\ "S" \in Modes /\ "N" \in Modes /\ "X" \in Modes
PROOF
  <1>1. \A name \in Advisory \cup {"event"} : <<name, 0>> \in Locks
    BY DEF Locks
  <1>2. \A j \in Requests : <<"job", j>> \in Locks
    BY DEF Locks
  <1>3. \A p \in People : <<"person", p>> \in Locks
    BY DEF Locks
  <1> QED BY <1>1, <1>2, <1>3 DEF Modes

LEMMA LockKeeps ==
  ASSUME TypeOK, IInv, NEW r \in Requests, Open(r), Lock(r)
  PROVE  TypeOK' /\ IInv'
PROOF
  <1>1. PICK want \in Wants(r) : Free(r, want) /\ Take(r, want)
    BY DEF Lock
  <1>2. Op(r) \in Advisory \cup {"queueShared"} /\ ~Unneeded(r) /\ RowsSame
    BY DEF Lock
  <1>3. /\ Op(r) \in Advisory => want = <<<<Op(r), 0>>, "X">>
        /\ Op(r) = "queueShared" => want = <<<<"queue", 0>>, "S">>
    <2>1. CASE Op(r) \in Advisory
      BY <1>1, <2>1 DEF Wants, Advisory, EventMode
    <2>2. CASE Op(r) = "queueShared"
      BY <1>1, <2>2 DEF Wants, Advisory, EventMode
    <2> QED BY <1>2, <2>1, <2>2 DEF Advisory
  <1>4. want \in Locks \X Modes
    BY <1>2, <1>3, LockKinds DEF Advisory
  <1>5. Usual(want)
    BY <1>2, <1>3 DEF Advisory, Usual
  <1>6. Op(r) = "types" /\ request[r].kind \in {"create", "restore"} => request[r].key \in Makers
    BY <1>2, OpenPlace, RequestFields DEF Unneeded
  <1> QED BY <1>1, <1>2, <1>3, <1>4, <1>5, <1>6, TakeKeeps DEF Advisory

LEMMA LockJobsKeeps ==
  ASSUME TypeOK, IInv, NEW r \in Requests, Open(r), LockJobs(r)
  PROVE  TypeOK' /\ IInv'
PROOF
  <1>1. Op(r) \in {"openJobs", "allJobs", "results"} /\ RowsSame
    BY DEF LockJobs
  <1>2. CASE JobsWanted(r) = {}
    <2>1. Next1(r)
      BY <1>2 DEF LockJobs
    <2>2. \A j \in Requests : /\ Op(r) = "openJobs" /\ OpenJob(j) => Holds(r, <<"job", j>>)
                              /\ Op(r) = "allJobs" /\ job[j] # "none" => Holds(r, <<"job", j>>)
      BY <1>2 DEF JobsWanted, OpenJob
    <2>3. \A j \in Requests : Holds(r, <<"job", j>>) => Has(request[r], "job", j, "X")
      BY OpenPlace DEF Holds, Has, OpenGood, Placed, Usual
    <2>4. Gains(r, request[r])
      BY <1>1, <2>2, <2>3 DEF Gains
    <2> QED BY <1>1, <2>1, <2>4, NextOn
  <1>3. CASE JobsWanted(r) # {}
    <2>1. PICK want \in Wants(r) :
            Free(r, want) /\ request' = [request EXCEPT ![r].held = @ \cup {want}]
      BY <1>3 DEF LockJobs
    <2>2. PICK j \in JobsWanted(r) : want = <<<<"job", j>>, "X">>
      BY <1>1, <2>1 DEF Wants, Advisory, EventMode
    <2>3. want \in Locks \X Modes /\ Usual(want)
      BY <2>2, LockKinds DEF JobsWanted, Usual
    <2> QED BY <1>1, <2>1, <2>3, HoldKeeps
  <1> QED BY <1>2, <1>3

LEMMA NeedEventKeeps ==
  ASSUME TypeOK, IInv, NEW r \in Requests, Open(r), NeedEvent(r)
  PROVE  TypeOK' /\ IInv'
PROOF
  <1>1. Op(r) \in {"newJob", "insert", "add", "resize", "event"} /\ RowsSame
    BY DEF NeedEvent, EventMode
  <1>2. CASE Op(r) = "insert" /\ request[r].new = 0
    <2>1. Next1(r)
      BY <1>2 DEF NeedEvent
    <2>2. Gains(r, request[r])
      BY <1>2 DEF Gains
    <2> QED BY <1>1, <2>1, <2>2, NextOn
  <1>3. CASE ~(Op(r) = "insert" /\ request[r].new = 0)
    <2>1. PICK want \in Wants(r) : Free(r, want) /\ (IF event THEN Take(r, want) ELSE Refuse(r))
      BY <1>3 DEF NeedEvent
    <2>2. want = <<<<"event", 0>>, EventMode[Op(r)]>>
      BY <1>1, <2>1 DEF Wants, Advisory, EventMode
    <2>3. want \in Locks \X Modes /\ Usual(want)
      BY <1>1, <2>2, LockKinds DEF EventMode, Usual
    <2>4. CASE event
      <3>1. /\ Op(r) = "newJob" => want = <<<<"event", 0>>, "S">>
            /\ Op(r) = "event" => want = <<<<"event", 0>>, "X">>
        BY <2>2 DEF EventMode
      <3> QED BY <1>1, <2>1, <2>3, <2>4, <3>1, TakeKeeps
    <2>5. CASE ~event
      BY <1>1, <2>1, <2>5, RefuseKeeps
    <2> QED BY <2>4, <2>5
  <1> QED BY <1>2, <1>3

LEMMA OwnJobKeeps ==
  ASSUME TypeOK, IInv, NEW r \in Requests, Open(r), OwnJob(r)
  PROVE  TypeOK' /\ IInv'
PROOF
  <1>1. Op(r) = "ownJob" /\ RowsSame
    BY DEF OwnJob
  <1>2. PICK want \in Wants(r) :
          Free(r, want) /\ (IF job[r] = "running" THEN Take(r, want) ELSE Refuse(r))
    BY DEF OwnJob
  <1>3. want = <<<<"job", r>>, "X">>
    BY <1>1, <1>2 DEF Wants, Advisory, EventMode, JobsWanted
  <1>4. want \in Locks \X Modes /\ Usual(want)
    BY <1>3, LockKinds DEF Usual
  <1>5. CASE job[r] = "running"
    BY <1>1, <1>2, <1>3, <1>4, <1>5, TakeKeeps
  <1>6. CASE job[r] # "running"
    BY <1>1, <1>2, <1>6, RefuseKeeps
  <1> QED BY <1>5, <1>6

\* Going on with other data than before: what the next step of a request is made of.
LEMMA CheckKeeps ==
  ASSUME TypeOK, IInv, NEW r \in Requests, Open(r), Check(r)
  PROVE  TypeOK' /\ IInv'
PROOF
  <1> DEFINE q == request[r]
             n == q.at + 1
             y == [q EXCEPT !.at = n, !.checked = TRUE]
  <1>1. Op(r) = "check" /\ RowsSame /\ q \in RequestRecords /\ n \in Nat
    BY OpenPlace DEF Check
  <1>2. CASE types[q.key] = "none"
    <2>1. Refuse(r)
      BY <1>2 DEF Check
    <2> QED BY <1>1, <2>1, RefuseKeeps
  <1>3. CASE types[q.key] # "none"
    <2>1. request' = [request EXCEPT ![r] = y]
      BY <1>3 DEF Check
    <2>2. n = q.at + 1
      OBVIOUS
    <2>3. q.key \in Makers
      BY <1>1, OpenPlace DEF PlanPlace, OpenGood, Placed
    <2> HIDE DEF n
    <2>4. /\ y \in RequestRecords /\ y.kind = q.kind /\ y.key = q.key /\ y.label = q.label
          /\ y.held = q.held /\ y.x = q.x /\ y.left = q.left /\ y.at = n /\ y.wrote = q.wrote
      BY <1>1, Zenon DEF RequestRecords
    <2> HIDE DEF y
    <2>5. Gains(r, y)
      BY <1>1 DEF Gains
    <2> QED BY <1>1, <1>3, <2>1, <2>2, <2>3, <2>4, <2>5, GoOn
  <1> QED BY <1>2, <1>3

LEMMA FreshKeeps ==
  ASSUME TypeOK, IInv, NEW r \in Requests, Open(r), Fresh(r)
  PROVE  TypeOK' /\ IInv'
PROOF
  <1> DEFINE q == request[r]
             n == q.at + 1
             found == q.key # "none" /\ types[q.key] # "none"
             y == [q EXCEPT !.at = n, !.checked = found]
  <1>1. Op(r) = "fresh" /\ RowsSame /\ q \in RequestRecords /\ n \in Nat /\ found \in BOOLEAN
    BY OpenPlace DEF Fresh
  <1>2. request' = [request EXCEPT ![r] = y]
    BY DEF Fresh
  <1>3. n = q.at + 1 /\ (found => q.key \in Makers /\ types[q.key] # "none")
    BY <1>1, RequestFields
  <1> HIDE DEF n, found
  <1>4. /\ y \in RequestRecords /\ y.kind = q.kind /\ y.key = q.key /\ y.label = q.label
        /\ y.held = q.held /\ y.x = q.x /\ y.left = q.left /\ y.at = n /\ y.wrote = q.wrote
        /\ y.checked = found
    BY <1>1, Zenon DEF RequestRecords
  <1> HIDE DEF y
  <1>5. Gains(r, y)
    BY <1>1 DEF Gains
  <1> QED BY <1>1, <1>2, <1>3, <1>4, <1>5, GoOn

LEMMA MatchKeeps ==
  ASSUME TypeOK, IInv, NEW r \in Requests, Open(r), Match(r)
  PROVE  TypeOK' /\ IInv'
PROOF
  <1> DEFINE q == request[r]
             known == {p \in q.left : Live(p)}
             n == q.at + 1
             left == IF q.key = "none" \/ q.checked THEN known ELSE {}
             new == IF q.key = "none" \/ q.checked THEN q.new + Cardinality(q.left \ known) ELSE 0
             y == [q EXCEPT !.at = n, !.left = left, !.new = new]
  <1>1. Op(r) = "match" /\ RowsSame /\ q \in RequestRecords /\ n \in Nat
    <2>1. Op(r) = "match" /\ RowsSame
      BY Zenon DEF Match
    <2> QED BY <2>1, OpenPlace
  <1>2. request' = [request EXCEPT ![r] = y]
    BY DEF Match
  <1>3. q.left \subseteq People /\ q.new \in Nat
    BY <1>1, RequestFields
  <1>4. Cardinality(q.left \ known) \in Nat
    <2>1. IsFiniteSet(q.left \ known)
      BY <1>3, NameFacts, FS_Subset
    <2> QED BY <2>1, FS_CardinalityType
  <1>5. n = q.at + 1 /\ left \subseteq q.left /\ left \in SUBSET People /\ new \in Nat
        /\ \A p \in left : Live(p)
    BY <1>3, <1>4
  <1> HIDE DEF n, left, new
  <1>6. /\ y \in RequestRecords /\ y.kind = q.kind /\ y.key = q.key /\ y.label = q.label
        /\ y.held = q.held /\ y.x = q.x /\ y.left = left /\ y.at = n /\ y.wrote = q.wrote
        /\ y.checked = q.checked
    BY <1>1, <1>5, Zenon DEF RequestRecords
  <1> HIDE DEF y
  <1>7. Gains(r, y)
    BY <1>1, <1>5, <1>6 DEF Gains, Live
  <1> QED BY <1>1, <1>2, <1>5, <1>6, <1>7, GoOn

LEMMA ReadKeeps ==
  ASSUME TypeOK, IInv, NEW r \in Requests, Open(r), Read(r)
  PROVE  TypeOK' /\ IInv'
PROOF
  <1> DEFINE q == request[r]
             n == q.at + 1
             new == IF \E p \in q.x : person[p].takes THEN 0 ELSE q.new
             y == [q EXCEPT !.at = n, !.seen = person, !.new = new]
  <1>1. Op(r) = "read" /\ RowsSame /\ q \in RequestRecords /\ n \in Nat
    BY OpenPlace DEF Read
  <1>2. CASE \A p \in q.x : Live(p)
    <2>1. request' = [request EXCEPT ![r] = y]
      BY <1>2 DEF Read
    <2>2. n = q.at + 1 /\ new \in Nat /\ person \in [People -> PersonRow]
      BY <1>1, RequestFields, TypeParts
    <2> HIDE DEF n, new
    <2>3. /\ y \in RequestRecords /\ y.kind = q.kind /\ y.key = q.key /\ y.label = q.label
          /\ y.held = q.held /\ y.x = q.x /\ y.left = q.left /\ y.at = n /\ y.wrote = q.wrote
          /\ y.checked = q.checked
      BY <1>1, <2>2, Zenon DEF RequestRecords
    <2> HIDE DEF y
    <2>4. Gains(r, y)
      BY <1>1 DEF Gains
    <2> QED BY <1>1, <2>1, <2>2, <2>3, <2>4, GoOn
  <1>3. CASE ~\A p \in q.x : Live(p)
    <2>1. Refuse(r)
      BY <1>3 DEF Read
    <2> QED BY <1>1, <2>1, RefuseKeeps
  <1> QED BY <1>2, <1>3

LEMMA LimitKeeps ==
  ASSUME TypeOK, IInv, NEW r \in Requests, Open(r), Limit(r)
  PROVE  TypeOK' /\ IInv'
PROOF
  <1> DEFINE q == request[r]
             n == q.at + 1
             y == [q EXCEPT !.at = n, !.limit = capacity]
  <1>1. Op(r) = "limit" /\ RowsSame /\ q \in RequestRecords /\ n \in Nat
    BY OpenPlace DEF Limit
  <1>2. CASE event
    <2>1. request' = [request EXCEPT ![r] = y]
      BY <1>2 DEF Limit
    <2>2. n = q.at + 1 /\ capacity \in 0..MaxCapacity
      BY TypeParts
    <2> HIDE DEF n
    <2>3. /\ y \in RequestRecords /\ y.kind = q.kind /\ y.key = q.key /\ y.label = q.label
          /\ y.held = q.held /\ y.x = q.x /\ y.left = q.left /\ y.at = n /\ y.wrote = q.wrote
          /\ y.checked = q.checked
      BY <1>1, <2>2, Zenon DEF RequestRecords
    <2> HIDE DEF y
    <2>4. Gains(r, y)
      BY <1>1 DEF Gains
    <2> QED BY <1>1, <2>1, <2>2, <2>3, <2>4, GoOn
  <1>3. CASE ~event
    <2>1. Refuse(r)
      BY <1>3 DEF Limit
    <2> QED BY <1>1, <2>1, RefuseKeeps
  <1> QED BY <1>2, <1>3

LEMMA CountKeeps ==
  ASSUME TypeOK, IInv, NEW r \in Requests, Open(r), Count(r)
  PROVE  TypeOK' /\ IInv'
PROOF
  <1> DEFINE q == request[r]
             n == q.at + 1
             y == [q EXCEPT !.at = n, !.counted = TRUE]
  <1>1. Op(r) = "count" /\ RowsSame /\ q \in RequestRecords /\ n \in Nat
    BY OpenPlace DEF Count
  <1>2. CASE Next1(r)
    <2>1. Gains(r, q)
      BY <1>1 DEF Gains
    <2> QED BY <1>1, <1>2, <2>1, NextOn
  <1>3. CASE Refuse(r)
    BY <1>1, <1>3, RefuseKeeps
  <1>4. CASE request' = [request EXCEPT ![r] = y]
    <2>1. n = q.at + 1
      OBVIOUS
    <2> HIDE DEF n
    <2>2. /\ y \in RequestRecords /\ y.kind = q.kind /\ y.key = q.key /\ y.label = q.label
          /\ y.held = q.held /\ y.x = q.x /\ y.left = q.left /\ y.at = n /\ y.wrote = q.wrote
          /\ y.checked = q.checked
      BY <1>1, Zenon DEF RequestRecords
    <2>3. request' = [request EXCEPT ![r] = y]
      BY <1>4
    <2> HIDE DEF y
    <2>4. Gains(r, y)
      BY <1>1 DEF Gains
    <2> QED BY <1>1, <2>1, <2>2, <2>3, <2>4, GoOn
  <1> QED BY <1>2, <1>3, <1>4 DEF Count

LEMMA OwnedKeeps ==
  ASSUME TypeOK, IInv, NEW r \in Requests, Open(r), Owned(r)
  PROVE  TypeOK' /\ IInv'
PROOF
  <1> DEFINE q == request[r]
             n == q.at + 1
             x == {p \in q.x : Live(p) /\ (q.kind = "bulkType" => person[p].type # q.key)}
             y == [q EXCEPT !.at = n, !.seen = person, !.x = x]
  <1>1. Op(r) = "owned" /\ RowsSame /\ q \in RequestRecords /\ n \in Nat
    BY OpenPlace DEF Owned
  <1>2. request' = [request EXCEPT ![r] = y]
    BY DEF Owned
  <1>3. n = q.at + 1 /\ x \subseteq q.x /\ x \in SUBSET People /\ person \in [People -> PersonRow]
    BY <1>1, RequestFields, TypeParts
  <1> HIDE DEF n, x
  <1>4. /\ y \in RequestRecords /\ y.kind = q.kind /\ y.key = q.key /\ y.label = q.label
        /\ y.held = q.held /\ y.x = x /\ y.left = q.left /\ y.at = n /\ y.wrote = q.wrote
        /\ y.checked = q.checked
    BY <1>1, <1>3, Zenon DEF RequestRecords
  <1> HIDE DEF y
  <1>5. Gains(r, y)
    BY <1>1 DEF Gains
  <1> QED BY <1>1, <1>2, <1>3, <1>4, <1>5, GoOn

LEMMA LockRowsKeeps ==
  ASSUME TypeOK, IInv, NEW r \in Requests, Open(r), LockRows(r)
  PROVE  TypeOK' /\ IInv'
PROOF
  <1>1. Op(r) = "rows" /\ RowsSame /\ OpenGood(r, request[r]) /\ request[r].x \subseteq People
    BY OpenPlace, RequestFields DEF LockRows
  <1>2. CASE RowsWanted(r) = {}
    <2>1. Next1(r)
      BY <1>2 DEF LockRows
    <2>2. \A p \in request[r].x : There(p) => Holds(r, <<"person", p>>)
      BY <1>2 DEF RowsWanted
    <2>3. \A p : Holds(r, <<"person", p>>) => HasPerson(request[r], p)
      BY <1>1 DEF Holds, HasPerson, Has, OpenGood, Placed, Usual
    <2>4. Gains(r, request[r])
      BY <1>1, <2>2, <2>3 DEF Gains
    <2> QED BY <1>1, <2>1, <2>4, NextOn
  <1>3. CASE RowsWanted(r) # {}
    <2>1. PICK want \in Wants(r) :
            Free(r, want) /\ request' = [request EXCEPT ![r].held = @ \cup {want}]
      BY <1>3 DEF LockRows
    <2>2. PICK p \in NextRow(r) : want = <<<<"person", p>>, "X">>
      BY <1>1, <2>1 DEF Wants, Advisory, EventMode
    <2>3. want \in Locks \X Modes /\ Usual(want)
      BY <1>1, <2>2, LockKinds DEF NextRow, RowsWanted, Usual
    <2> QED BY <1>1, <2>1, <2>3, HoldKeeps
  <1> QED BY <1>2, <1>3

LEMMA FileKeeps ==
  ASSUME TypeOK, IInv, NEW r \in Requests, Open(r), FromFile(r)
  PROVE  TypeOK' /\ IInv'
PROOF
  <1> DEFINE q == request[r]
  <1>1. Op(r) = "file" /\ RowsSame /\ q \in RequestRecords /\ OpenGood(r, q)
    BY OpenPlace DEF FromFile
  <1>2. CASE q.left = {}
    <2>1. Next1(r)
      BY <1>2 DEF FromFile
    <2>2. Gains(r, q)
      BY <1>1 DEF Gains
    <2> QED BY <1>1, <2>1, <2>2, NextOn
  <1>3. CASE q.left # {}
    <2> DEFINE want(p) == <<<<"person", p>>, "N">>
               left(p) == q.left \ {p}
               wrote(p) == q.wrote \cup {p}
               held(p) == q.held \cup {want(p)}
               y(p) == [q EXCEPT !.left = left(p), !.wrote = wrote(p), !.held = held(p)]
    <2>1. PICK p \in NextInFile(r) :
            Free(r, want(p)) /\ (IF There(p) THEN request' = [request EXCEPT ![r] = y(p)] ELSE Refuse(r))
      BY <1>3 DEF FromFile
    <2>2. CASE ~There(p)
      BY <1>1, <2>1, <2>2, RefuseKeeps
    <2>3. CASE There(p)
      <3>1. p \in q.left /\ p \in People /\ request' = [request EXCEPT ![r] = y(p)]
        BY <1>1, <2>1, <2>3, RequestFields DEF NextInFile
      <3>2. want(p) \in Locks \X Modes /\ Usual(want(p))
        BY <3>1, LockKinds DEF Usual
      <3>3. /\ left(p) \in SUBSET People /\ wrote(p) \in SUBSET People
            /\ held(p) \in SUBSET (Locks \X Modes)
        BY <1>1, <3>1, <3>2, RequestFields
      <3> DEFINE l == left(p)
                 w == wrote(p)
                 h == held(p)
                 z == [q EXCEPT !.left = l, !.wrote = w, !.held = h]
      <3>4. z = y(p) /\ l = q.left \ {p} /\ w = q.wrote \cup {p} /\ h = q.held \cup {want(p)}
        OBVIOUS
      <3>5. l \in SUBSET People /\ w \in SUBSET People /\ h \in SUBSET (Locks \X Modes)
        BY <3>3
      <3> HIDE DEF y, l, w, h
      <3>6. /\ z \in RequestRecords /\ z.kind = q.kind /\ z.key = q.key /\ z.label = q.label
            /\ z.held = h /\ z.x = q.x /\ z.left = l /\ z.at = q.at /\ z.wrote = w
            /\ z.checked = q.checked
        BY <1>1, <3>5, Zenon DEF RequestRecords
      <3> HIDE DEF z
      <3>7. Same(q, z)
        <4>1. \A pair \in q.held : Usual(pair)
          BY <1>1 DEF OpenGood, Placed
        <4>2. \A pair \in z.held : Usual(pair)
          BY <3>2, <3>4, <3>6, <4>1
        <4> QED BY <3>4, <3>6, <4>2 DEF Same
      <3>8. \A x : HasPerson(q, x) => HasPerson(z, x)
        BY <3>4, <3>6 DEF HasPerson, Has
      <3>9. HasPerson(z, p)
        BY <3>4, <3>6 DEF HasPerson, Has
      <3>10. q.kind \in {"import", "cli"} /\ (q.kind = "import" => q.at > 9)
        BY <1>1, OpPlace, FilePlace
      <3>11. Writes(r, z)
        <4>1. \A x \in q.wrote : There(x) /\ HasPerson(z, x)
          BY <1>1, <3>8 DEF OpenGood, Writing
        <4>2. q.kind = "import" => ~person[p].erased /\ \A x \in q.wrote : ~person[x].erased
          BY <1>1, <2>3, <3>1, <3>10 DEF OpenGood, Writing
        <4> QED BY <1>1, <2>3, <3>4, <3>6, <3>9, <3>10, <4>1, <4>2 DEF Writes
      <3>12. OpenGood(r, z)
        BY <1>1, <3>6, <3>7, <3>11, Waiting
      <3>13. \A x \in z.held : x \in q.held \/ Free(r, x)
        BY <2>1, <3>4, <3>6
      <3> QED BY <1>1, <3>1, <3>4, <3>6, <3>12, <3>13, LocalKeeps
    <2> QED BY <2>2, <2>3
  <1> QED BY <1>2, <1>3

LEMMA UpdateKeeps ==
  ASSUME TypeOK, IInv, NEW r \in Requests, Open(r), Update(r)
  PROVE  TypeOK' /\ IInv'
PROOF
  <1> DEFINE q == request[r]
             want(p) == <<<<"person", p>>, "N">>
             n == q.at + 1
             held(p) == q.held \cup {want(p)}
             y(p) == [q EXCEPT !.at = n, !.held = held(p), !.wrote = {p}]
  <1>1. Op(r) = "update" /\ RowsSame /\ q \in RequestRecords /\ OpenGood(r, q) /\ n \in Nat
    BY OpenPlace DEF Update
  <1>2. PICK p \in q.x :
          /\ Free(r, want(p))
          /\ IF Live(p) /\ person[p].by = q.seen[p].by
             THEN request' = [request EXCEPT ![r] = y(p)] ELSE Refuse(r)
    BY DEF Update
  <1>3. CASE ~(Live(p) /\ person[p].by = q.seen[p].by)
    BY <1>1, <1>2, <1>3, RefuseKeeps
  <1>4. CASE Live(p) /\ person[p].by = q.seen[p].by
    <2>1. p \in People /\ request' = [request EXCEPT ![r] = y(p)]
      BY <1>1, <1>2, <1>4, RequestFields
    <2>2. want(p) \in Locks \X Modes /\ Usual(want(p))
      BY <2>1, LockKinds DEF Usual
    <2>3. {p} \in SUBSET People /\ held(p) \in SUBSET (Locks \X Modes)
      BY <1>1, <2>1, <2>2, RequestFields
    <2> DEFINE w == {p}
               h == held(p)
               z == [q EXCEPT !.at = n, !.held = h, !.wrote = w]
    <2>4. z = y(p) /\ w = {p} /\ h = q.held \cup {want(p)} /\ n = q.at + 1
      OBVIOUS
    <2>5. w \in SUBSET People /\ h \in SUBSET (Locks \X Modes)
      BY <2>3
    <2> HIDE DEF y, w, h, n
    <2>6. /\ z \in RequestRecords /\ z.kind = q.kind /\ z.key = q.key /\ z.label = q.label
          /\ z.held = h /\ z.x = q.x /\ z.left = q.left /\ z.at = n /\ z.wrote = w
          /\ z.checked = q.checked
      BY <1>1, <2>5, Zenon DEF RequestRecords
    <2> HIDE DEF z
    <2>7. Same(q, z)
      BY <1>1, <2>2, <2>4, <2>6 DEF Same, OpenGood, Placed
    <2>8. Writes(r, z)
      BY <1>1, <1>4, <2>4, <2>6 DEF Writes, HasPerson, Has, Live
    <2>9. Gains(r, z)
      BY <1>1 DEF Gains
    <2>10. OpenGood(r, z)
      BY <1>1, <2>4, <2>6, <2>7, <2>8, <2>9, Onward
    <2>11. \A x \in z.held : x \in q.held \/ Free(r, x)
      BY <1>2, <2>4, <2>6
    <2> QED BY <1>1, <2>1, <2>4, <2>6, <2>10, <2>11, LocalKeeps
  <1> QED BY <1>3, <1>4

\* Statements left out: nothing has been written yet.
LEMMA Jumping ==
  ASSUME TypeOK, IInv, NEW r \in Requests, Open(r), NEW y, Same(request[r], y), y.wrote = {},
         y.checked => request[r].checked, y.at \in 1..Len(Plan[request[r].kind]),
         \/ request[r].kind = "create" /\ y.at = 3
         \/ request[r].kind = "restore" /\ y.at \in {4, 7}
         \/ request[r].kind \in Erasing /\ request[r].at = 4 /\ y.at = 6
  PROVE  OpenGood(r, y)
PROOF
  <1> DEFINE q == request[r]
  <1>1. OpenGood(r, q) /\ q.kind \in DOMAIN Plan /\ q.kind \in Kinds
    BY OpenPlace
  <1>2. \A name, id, mode : Has(q, name, id, mode) => Has(y, name, id, mode)
    BY DEF Has, Same
  <1>3. \A p : HasPerson(q, p) => HasPerson(y, p)
    BY <1>2 DEF HasPerson
  <1>4. PlanPlace(q.kind, y.at)
    BY <1>1, PlanPlaces
  <1>5. Placed(y)
    BY <1>1 DEF OpenGood, Placed, Same, Erasing
  <1>6. Locked(r, y)
    <2>1. Plan[q.kind][y.at] \notin {"check", "fresh"}
      BY <1>4 DEF PlanPlace, Erasing
    <2> QED BY <1>1, <1>2, <2>1 DEF OpenGood, Locked, Same, Erasing
  <1>7. Found(r, y)
    BY <1>1, <1>2, <1>3 DEF OpenGood, Found, Same, Erasing
  <1>8. Typed(y)
    BY <1>1, <1>2 DEF OpenGood, Typed, Same, Erasing
  <1>9. Writing(y)
    BY <1>1 DEF OpenGood, Writing, Same, Erasing
  <1> QED BY <1>5, <1>6, <1>7, <1>8, <1>9 DEF OpenGood

LEMMA SkipKeeps ==
  ASSUME TypeOK, IInv, NEW r \in Requests, Open(r), Skip(r)
  PROVE  TypeOK' /\ IInv'
PROOF
  <1> DEFINE q == request[r]
             n == q.at + (IF Op(r) = "types" THEN 2 ELSE 3)
             y == [q EXCEPT !.at = n]
  <1>1. RowsSame /\ Unneeded(r) /\ request' = [request EXCEPT ![r] = y]
    BY DEF Skip
  <1>2. /\ q \in RequestRecords /\ n \in Nat /\ OpenGood(r, q) /\ q.at \in Nat
        /\ Op(r) = Plan[q.kind][q.at] /\ PlanPlace(q.kind, q.at) /\ PlanJump(q.kind, q.at)
        /\ Len(Plan[q.kind]) \in 1..14
    BY OpenPlace
  <1>3. /\ \/ q.kind = "create" /\ n = 3
           \/ q.kind = "restore" /\ n \in {4, 7}
        /\ n <= Len(Plan[q.kind])
    <2>1. \/ Op(r) = "types" /\ q.kind \in {"create", "restore"} /\ n = q.at + 2
          \/ Op(r) = "capacity" /\ q.kind = "restore" /\ n = q.at + 3
      BY <1>1 DEF Unneeded
    <2> HIDE DEF n
    <2>2. CASE Op(r) = "types"
      BY <1>2, <2>1, <2>2 DEF PlanJump
    <2>3. CASE Op(r) = "capacity"
      BY <1>2, <2>1, <2>3 DEF PlanJump
    <2> QED BY <2>1, <2>2, <2>3
  <1>4. n \in 1..Len(Plan[q.kind])
    BY <1>2, <1>3
  <1>5. q.wrote = {}
    BY <1>1, <1>2 DEF OpenGood, Writing, Unneeded
  <1> HIDE DEF n
  <1>6. /\ y \in RequestRecords /\ y.kind = q.kind /\ y.key = q.key /\ y.label = q.label
        /\ y.held = q.held /\ y.x = q.x /\ y.left = q.left /\ y.at = n /\ y.wrote = q.wrote
        /\ y.checked = q.checked
    BY <1>2, Zenon DEF RequestRecords
  <1> HIDE DEF y
  <1>7. Same(q, y)
    BY <1>2, <1>6 DEF Same, OpenGood, Placed
  <1>8. OpenGood(r, y)
    BY <1>3, <1>4, <1>5, <1>6, <1>7, Jumping
  <1> QED BY <1>1, <1>6, <1>8, LocalKeeps

LEMMA SetKeeps ==
  ASSUME TypeOK, IInv, NEW r \in Requests, Open(r), Set(r)
  PROVE  TypeOK' /\ IInv'
PROOF
  <1> DEFINE q == request[r]
             may(p) == CASE q.kind = "bulkType" -> Live(p) /\ person[p].type = q.seen[p].type
                         [] q.kind \in {"bulk", "erase"} -> Live(p)
                         [] q.kind = "remove" -> There(p)
             w == {p \in q.x : may(p)}
             n == IF w = {} THEN Len(Plan[q.kind]) ELSE q.at + 1
             y == [q EXCEPT !.wrote = w, !.at = n]
  <1>1. Op(r) = "set" /\ RowsSame
    BY Zenon DEF Set
  <1>2. request' = [request EXCEPT ![r] = y]
    BY DEF Set
  <1>3. /\ q \in RequestRecords /\ OpenGood(r, q) /\ q.at \in Nat /\ Len(Plan[q.kind]) \in 1..14
        /\ Op(r) = Plan[q.kind][q.at] /\ PlanPlace(q.kind, q.at)
    BY OpenPlace
  <1>4. q.kind \in {"bulk", "bulkType", "erase", "remove"}
    BY <1>1, <1>3 DEF PlanPlace, Erasing
  <1>5. /\ w \in SUBSET People /\ w \subseteq q.x
        /\ \A p \in w : There(p) /\ (q.kind # "remove" => ~person[p].erased)
    <2>1. q.x \subseteq People
      BY <1>3, RequestFields
    <2>2. ASSUME NEW p \in w
          PROVE  There(p) /\ (q.kind # "remove" => ~person[p].erased)
      <3>1. CASE q.kind = "bulkType"
        BY <3>1 DEF Live
      <3>2. CASE q.kind \in {"bulk", "erase"}
        BY <3>2 DEF Live
      <3>3. CASE q.kind = "remove"
        BY <3>3
      <3> QED BY <1>4, <3>1, <3>2, <3>3
    <2> QED BY <2>1, <2>2
  <1>6. n \in Nat /\ n \in 1..Len(Plan[q.kind])
    <2>1. \A m \in 1..14, k \in Nat : k < m => k + 1 \in 1..m /\ k + 1 \in Nat /\ m \in 1..m /\ m \in Nat
      OBVIOUS
    <2>2. q.at < Len(Plan[q.kind])
      BY <1>1, <1>3 DEF PlanPlace
    <2> QED BY <1>3, <2>1, <2>2
  <1>7. (n = q.at + 1) \/ (q.kind \in Erasing /\ q.at = 4 /\ n = 6 /\ w = {})
    <2>1. /\ q.kind = "bulk" => q.at = 3 /\ Len(Plan[q.kind]) = 4
          /\ q.kind = "bulkType" => q.at = 5 /\ Len(Plan[q.kind]) = 6
          /\ q.kind \in Erasing => q.at = 4 /\ Len(Plan[q.kind]) = 6
      BY <1>1, <1>3 DEF PlanPlace
    <2> HIDE DEF w
    <2>2. CASE w = {}
      <3>1. n = Len(Plan[q.kind])
        BY <2>2
      <3> HIDE DEF n
      <3>2. CASE q.kind = "bulk"
        <4>1. q.at = 3 /\ n = 4
          BY <2>1, <3>1, <3>2
        <4>2. n = q.at + 1
          BY <4>1
        <4> QED BY <4>2
      <3>3. CASE q.kind = "bulkType"
        <4>1. q.at = 5 /\ n = 6
          BY <2>1, <3>1, <3>3
        <4>2. n = q.at + 1
          BY <4>1
        <4> QED BY <4>2
      <3>4. CASE q.kind \in Erasing
        BY <2>1, <2>2, <3>1, <3>4
      <3> QED BY <1>4, <3>2, <3>3, <3>4 DEF Erasing
    <2>3. CASE w # {}
      BY <2>3
    <2> QED BY <2>2, <2>3
  <1> HIDE DEF n, w
  <1>8. /\ y \in RequestRecords /\ y.kind = q.kind /\ y.key = q.key /\ y.label = q.label
        /\ y.held = q.held /\ y.x = q.x /\ y.left = q.left /\ y.at = n /\ y.wrote = w
        /\ y.checked = q.checked
    BY <1>3, <1>5, <1>6, Zenon DEF RequestRecords
  <1> HIDE DEF y
  <1>9. Same(q, y)
    <2>1. \A want \in q.held : Usual(want)
      BY <1>3 DEF OpenGood, Placed
    <2> QED BY <1>8, <2>1 DEF Same
  <1>10. OpenGood(r, y)
    <2>1. CASE n = q.at + 1
      <3>1. \A p \in q.x : There(p) => HasPerson(q, p)
        <4>1. /\ q.kind = "bulk" => q.at = 3
              /\ q.kind = "bulkType" => q.at = 5
              /\ q.kind \in Erasing => q.at = 4
          BY <1>1, <1>3 DEF PlanPlace
        <4>2. Found(r, q)
          BY <1>3 DEF OpenGood
        <4> QED BY <1>4, <4>1, <4>2 DEF Found, Erasing
      <3>2. \A p \in w : There(p) /\ HasPerson(y, p)
        BY <1>5, <1>8, <3>1 DEF HasPerson, Has
      <3>3. Writes(r, y)
        BY <1>1, <1>5, <1>8, <3>2 DEF Writes
      <3>4. Gains(r, y)
        BY <1>1 DEF Gains
      <3> QED BY <1>1, <1>8, <1>9, <2>1, <3>3, <3>4, Onward
    <2>2. CASE q.kind \in Erasing /\ q.at = 4 /\ n = 6 /\ w = {}
      BY <1>6, <1>8, <1>9, <2>2, Jumping
    <2> QED BY <1>7, <2>1, <2>2
  <1> QED BY <1>2, <1>8, <1>10, LocalKeeps, <1>1

\* Statements that only look: they let the request go on or refuse it.
LEMMA LookKeeps ==
  ASSUME TypeOK, IInv, NEW r \in Requests, Open(r), Label(r) \/ Unused(r) \/ Exists(r) \/ Empty(r)
  PROVE  TypeOK' /\ IInv'
PROOF
  <1>1. RowsSame /\ Op(r) \in {"label", "unused", "exists", "empty"}
    BY DEF Label, Unused, Exists, Empty
  <1>2. Refuse(r) \/ (Next1(r) /\ (Op(r) = "exists" => event))
    BY DEF Label, Unused, Exists, Empty
  <1>3. CASE Refuse(r)
    BY <1>1, <1>3, RefuseKeeps
  <1>4. CASE Next1(r) /\ (Op(r) = "exists" => event)
    <2>1. Gains(r, request[r])
      BY <1>1, <1>4 DEF Gains
    <2> QED BY <1>1, <1>4, <2>1, NextOn
  <1> QED BY <1>2, <1>3, <1>4

LEMMA RetryKeeps ==
  ASSUME TypeOK, IInv, NEW r \in Requests, Retry(r)
  PROVE  TypeOK' /\ IInv'
PROOF
  <1> DEFINE q == request[r]
             begin == Seated[q.kind].begin
             none == {}
             y == [q EXCEPT !.at = begin, !.held = none, !.checked = FALSE]
  <1>1. /\ Open(r) /\ q.kind \in DOMAIN Seated /\ q.at \in (begin + 1)..Seated[q.kind].work
        /\ RowsSame /\ request' = [request EXCEPT ![r] = y]
    BY DEF Retry
  <1>2. /\ q \in RequestRecords /\ OpenGood(r, q) /\ PlanJump(q.kind, q.at)
        /\ Op(r) = Plan[q.kind][q.at] /\ Len(Plan[q.kind]) \in 1..14
    BY <1>1, OpenPlace
  <1>3. /\ begin \in 1..Len(Plan[q.kind]) /\ Plan[q.kind][begin] \in {"types", "ownJob"}
        /\ q.kind = "import" => begin = 5
        /\ q.kind = "create" => begin = 1
        /\ q.kind = "restore" => begin = 2
        /\ Plan[q.kind][q.at] \notin {"file", "results", "commit"}
    BY <1>1, <1>2 DEF PlanJump
  <1>4. q.kind \in {"create", "restore", "import", "cli"} /\ begin \in Nat
    BY <1>1, <1>2, <1>3 DEF Seated
  <1>5. q.wrote = {} /\ none = {} /\ none \in SUBSET (Locks \X Modes)
    BY <1>2, <1>3 DEF OpenGood, Writing
  <1> HIDE DEF begin, none
  <1>6. /\ y \in RequestRecords /\ y.kind = q.kind /\ y.key = q.key /\ y.label = q.label
        /\ y.held = none /\ y.x = q.x /\ y.left = q.left /\ y.at = begin /\ y.wrote = q.wrote
        /\ y.checked = FALSE
    BY <1>2, <1>4, <1>5, Zenon DEF RequestRecords
  <1> HIDE DEF y
  <1>7. Placed(y)
    BY <1>2, <1>3, <1>4, <1>5, <1>6 DEF OpenGood, Placed
  <1>8. Locked(r, y) /\ Found(r, y)
    BY <1>3, <1>4, <1>6 DEF Locked, Found, Erasing
  <1>9. Typed(y) /\ Writing(y)
    BY <1>3, <1>4, <1>5, <1>6 DEF Typed, Writing
  <1>10. OpenGood(r, y) /\ y.held = {}
    BY <1>5, <1>6, <1>7, <1>8, <1>9 DEF OpenGood
  <1> QED BY <1>1, <1>6, <1>10, LocalKeeps

LEMMA BeginKeeps ==
  ASSUME TypeOK, IInv, NEW r \in Requests, Begin(r)
  PROVE  TypeOK' /\ IInv'
PROOF
  <1> DEFINE y(kind, x, key, flag, label, limit, file, left, new) ==
               [NoRequest EXCEPT !.kind = kind, !.at = 1, !.x = x, !.key = key, !.label = label,
                  !.flag = flag, !.limit = limit, !.file = file, !.left = left,
                  !.new = new, !.state = "open"]
  <1>1. RowsSame
    BY DEF Begin
  <1>2. PICK kind \in Kinds :
     \E x \in Names(kind), key \in Keys(kind),
        flag \in (IF kind \in {"create", "restore", "import", "erase"} THEN BOOLEAN ELSE {FALSE}),
        label \in (IF kind \in {"createType", "renameType"} THEN Labels ELSE {"none"}),
        limit \in (IF kind = "resize" THEN 0..MaxCapacity ELSE {0}),
        file \in (IF kind \in {"import", "cli"} THEN FileOrders ELSE {<<>>}) :
       request' = [request EXCEPT ![r] = y(kind, x, key, flag, label, limit, file, DOMAIN file,
                     IF kind \in DOMAIN Seated THEN 1 ELSE 0)]
    BY Zenon DEF Begin
  <1>3. PICK x \in Names(kind), key \in Keys(kind),
        flag \in (IF kind \in {"create", "restore", "import", "erase"} THEN BOOLEAN ELSE {FALSE}),
        label \in (IF kind \in {"createType", "renameType"} THEN Labels ELSE {"none"}),
        limit \in (IF kind = "resize" THEN 0..MaxCapacity ELSE {0}),
        file \in (IF kind \in {"import", "cli"} THEN FileOrders ELSE {<<>>}) :
       request' = [request EXCEPT ![r] = y(kind, x, key, flag, label, limit, file, DOMAIN file,
                     IF kind \in DOMAIN Seated THEN 1 ELSE 0)]
    BY <1>2
  <1> DEFINE left == DOMAIN file
             new == IF kind \in DOMAIN Seated THEN 1 ELSE 0
             z == [NoRequest EXCEPT !.kind = kind, !.at = 1, !.x = x, !.key = key, !.label = label,
                     !.flag = flag, !.limit = limit, !.file = file, !.left = left,
                     !.new = new, !.state = "open"]
  <1>4. request' = [request EXCEPT ![r] = z]
    BY <1>3
  <1>5. kind \in DOMAIN Plan /\ kind \in DOMAIN Plan \cup {"none"} /\ 1 \in Nat /\ "open" \in States
    BY KindsAssumption DEF States
  <1>6. x \in SUBSET People
    BY DEF Names
  <1>7. key \in Makers \cup {"none"} /\ (kind \in {"edit", "bulkType"} => key \in Makers)
    BY DEF Keys
  <1>8. /\ label \in Labels \cup {"none"} /\ (kind \in {"createType", "renameType"} => label \in Labels)
        /\ flag \in BOOLEAN /\ limit \in 0..MaxCapacity
    BY NameFacts
  <1>9. file \in FileOrders \cup {<<>>} /\ left \in SUBSET People
    <2>1. CASE file \in FileOrders
      BY <2>1, EventAssumption
    <2>2. CASE file = <<>>
      BY <2>2
    <2> QED BY <2>1, <2>2
  <1>10. new \in Nat
    OBVIOUS
  <1> HIDE DEF left, new
  <1>11. /\ z \in RequestRecords /\ z.kind = kind /\ z.key = key /\ z.label = label
         /\ z.held = NoRequest.held /\ z.x = x /\ z.left = left /\ z.at = 1
         /\ z.wrote = NoRequest.wrote /\ z.checked = NoRequest.checked
    BY <1>5, <1>6, <1>7, <1>8, <1>9, <1>10, NoRequestIs, ZenonT(120) DEF RequestRecords
  <1> HIDE DEF z
  <1>12. z.held = {} /\ z.wrote = {} /\ z.checked = FALSE
    BY <1>11, NoRequestIs
  <1>13. 1 \in 1..Len(Plan[kind]) /\ PlanPlace(kind, 1)
    <2>1. Len(Plan[kind]) \in 1..14
      BY <1>5, PlanLengths
    <2>2. \A m \in 1..14 : 1 \in Nat /\ 1 >= 1 /\ 1 <= m /\ 1 \in 1..m
      OBVIOUS
    <2>3. 1 \in 1..Len(Plan[kind]) /\ 1 <= Len(Plan[kind])
      BY <2>1, <2>2
    <2> QED BY <1>5, <2>1, <2>2, <2>3, PlanPlaces
  <1>14. Placed(z)
    BY <1>7, <1>8, <1>11, <1>12, <1>13 DEF Placed
  <1>15. Locked(r, z)
    BY <1>11, <1>13 DEF Locked, PlanPlace
  <1>16. Found(r, z) /\ Typed(z) /\ Writing(z)
    BY <1>11, <1>12 DEF Found, Typed, Writing
  <1> QED BY <1>1, <1>4, <1>11, <1>12, <1>14, <1>15, <1>16, LocalKeeps DEF OpenGood

-----------------------------------------------------------------------------
(* Commits, and the claim of a job: what the others know stays so.         *)

LEMMA ClaimKeeps ==
  ASSUME TypeOK, IInv, NEW r \in Requests, Open(r), Claim(r)
  PROVE  TypeOK' /\ IInv'
PROOF
  <1>1. /\ Op(r) = "claim" /\ UNCHANGED <<event, capacity, settings, types, person, newcomers>>
        /\ IF job[r] = "pending" THEN Next1(r) /\ job' = [job EXCEPT ![r] = "running"]
           ELSE Refuse(r) /\ UNCHANGED job
    BY DEF Claim
  <1>2. CASE job[r] # "pending"
    <2>1. RowsSame
      BY <1>1, <1>2 DEF RowsSame
    <2> QED BY <1>1, <1>2, <2>1, RefuseKeeps
  <1>3. CASE job[r] = "pending"
    <2> DEFINE q == request[r]
               n == q.at + 1
               y == [q EXCEPT !.at = n]
    <2>1. /\ q \in RequestRecords /\ OpenGood(r, q) /\ q.kind = "import" /\ q.at = 4 /\ n = 5
          /\ Len(Plan[q.kind]) = 14 /\ q.kind \in Kinds /\ q.kind \in DOMAIN Plan
      <3>1. /\ q \in RequestRecords /\ OpenGood(r, q) /\ q.kind \in Kinds /\ q.kind \in DOMAIN Plan
            /\ PlanPlace(q.kind, q.at) /\ Op(r) = Plan[q.kind][q.at]
        BY OpenPlace
      <3>2. q.kind = "import" /\ q.at = 4 /\ Len(Plan[q.kind]) = 14
        BY <1>1, <3>1 DEF PlanPlace
      <3> QED BY <3>1, <3>2
    <2>2. request' = [request EXCEPT ![r] = y]
      BY <1>1, <1>3 DEF Next1
    <2> HIDE DEF n
    <2>3. /\ y \in RequestRecords /\ y.kind = q.kind /\ y.key = q.key /\ y.label = q.label
          /\ y.held = q.held /\ y.x = q.x /\ y.left = q.left /\ y.at = n /\ y.wrote = q.wrote
          /\ y.checked = q.checked /\ y.state = q.state
      <3>1. n \in Nat
        BY <2>1
      <3> QED BY <2>1, <3>1, Zenon DEF RequestRecords
    <2> HIDE DEF y
    <2>4. /\ \A j \in Requests \ {r} : job'[j] = job[j]
          /\ job'[r] = "running" /\ job' \in [Requests -> JobStates]
      BY <1>1, <1>3, TypeParts DEF JobStates
    <2>5. /\ request'[r] = y /\ \A x \in Requests \ {r} : request'[x] = request[x]
          /\ request' \in [Requests -> RequestRecords]
      BY <2>2, <2>3, TypeParts
    <2>6. TypeOK'
      BY <1>1, <2>4, <2>5, TypeParts
    <2>7. PICK d : d = y
      OBVIOUS
    <2>11. OpenGood(r, d)'
      <3>1. q.wrote = {} /\ ~q.checked
        BY <1>1, <2>1, OpenPlace DEF OpenGood, Writing, Typed
      <3>2. Placed(d)
        <4>1. n \in 1..14
          BY <2>1
        <4> QED BY <2>1, <2>3, <2>7, <4>1 DEF OpenGood, Placed
      <3>3. Plan[q.kind][n] = "ownJob"
        <4>1. n \in Nat /\ n >= 1 /\ n <= Len(Plan[q.kind])
          BY <2>1
        <4>2. PlanPlace(q.kind, n)
          BY <2>1, <4>1, PlanPlaces
        <4> QED BY <2>1, <4>2 DEF PlanPlace
      <3>4. Locked(r, d)
        BY <2>1, <2>3, <2>7, <3>3 DEF Locked, Erasing
      <3>5. Placed(d)' /\ Locked(r, d)'
        BY <3>2, <3>4 DEF Placed, Locked, Has
      <3>6. Found(r, d)'
        BY <2>1, <2>3, <2>7 DEF Found, Erasing
      <3>7. Typed(d)' /\ Writing(d)'
        BY <2>1, <2>3, <2>7, <3>1 DEF Typed, Writing
      <3> QED BY <3>5, <3>6, <3>7 DEF OpenGood
    <2>8. OpenAreGood'
      <3>1. ASSUME NEW x \in Requests, Open(x)'
            PROVE  OpenGood(x, request[x])'
        <4>1. PICK c : c = request'[x]
          OBVIOUS
        <4>2. CASE x = r
          <5>1. c = d
            BY <2>5, <2>7, <4>1, <4>2
          <5>2. OpenGood(x, d)' /\ d = request'[x]
            BY <2>11, <4>1, <4>2, <5>1
          <5> QED BY <5>2, ByName
        <4>3. CASE x # r
          <5>1. OpenGood(x, c)
            BY <2>5, <3>1, <4>1, <4>3 DEF Open, IInv, OpenAreGood
          <5>2. Placed(c)' /\ Locked(x, c)'
            BY <5>1 DEF OpenGood, Placed, Locked, Has
          <5>3. Found(x, c)'
            BY <1>1, <1>3, <2>4, <4>3, <5>1 DEF OpenGood, Found, OpenJob, There, HasPerson, Has
          <5>4. Typed(c)' /\ Writing(c)'
            BY <1>1, <5>1 DEF OpenGood, Typed, Writing, There, HasPerson, Has
          <5>5. OpenGood(x, c)'
            BY <5>2, <5>3, <5>4 DEF OpenGood
          <5> QED BY <4>1, <5>5, ByName
        <4> QED BY <4>2, <4>3
      <3> QED BY <3>1 DEF OpenAreGood
    <2>9. Apart'
      BY <2>2, <2>3, ApartStays
    <2>10. NothingOrphaned'
      BY <1>1, <1>3, <2>4 DEF IInv, NothingOrphaned
    <2> QED BY <2>6, <2>8, <2>9, <2>10 DEF IInv
  <1> QED BY <1>2, <1>3

\* Where a request that commits is, and what it holds.
LEMMA CommitPlace ==
  ASSUME TypeOK, IInv, NEW r \in Requests, Open(r), Commit(r)
  PROVE  LET c == request[r] IN
         /\ c \in RequestRecords /\ OpenGood(r, c) /\ c.kind \in DOMAIN Plan
         /\ c.at = Len(Plan[c.kind]) \/ (c.kind = "import" /\ c.at = 3)
         /\ c.at \in Nat
         /\ c.kind = "delete" => /\ c.at = 7 /\ Has(c, "scoped", 0, "X") /\ Has(c, "event", 0, "X")
                                 /\ \A j \in Requests : job[j] # "none" => Has(c, "job", j, "X")
         /\ c.kind = "settings" => event
         /\ c.kind = "deleteType" => Has(c, "types", 0, "X")
         /\ c.kind = "import" /\ c.at = 3 => /\ Has(c, "queue", 0, "S") /\ Has(c, "event", 0, "S")
                                             /\ event /\ c.wrote = {} /\ ~c.checked
         /\ c.kind = "import" /\ c.at # 3 => Has(c, "job", r, "X") /\ job[r] = "running"
         /\ c.kind \in Erasing => \A j \in Requests : OpenJob(j) => Has(c, "job", j, "X")
         /\ c.kind \in {"createType", "renameType"} => c.label \in Labels
         /\ c.kind = "import" => Len(Plan[c.kind]) = 14
PROOF
  <1> DEFINE c == request[r]
  <1>1. Op(r) = "commit"
    BY Zenon DEF Commit
  <1>2. /\ c \in RequestRecords /\ OpenGood(r, c) /\ c.kind \in DOMAIN Plan /\ c.at \in Nat
        /\ PlanPlace(c.kind, c.at) /\ Plan[c.kind][c.at] = "commit"
    BY <1>1, OpenPlace
  <1>3. /\ c.at = Len(Plan[c.kind]) \/ (c.kind = "import" /\ c.at = 3)
        /\ c.kind = "import" => Len(Plan[c.kind]) = 14
    BY <1>2 DEF PlanPlace
  <1>10. /\ c.kind = "delete" => c.at = 7
         /\ c.kind = "settings" => c.at > 2
         /\ c.kind = "deleteType" => c.at > 1
         /\ c.kind \in Erasing => c.at > 2
         /\ c.kind = "import" /\ c.at # 3 => c.at > 5
    <2> DEFINE len == Len(Plan[c.kind])
    <2>1. /\ c.kind = "delete" => len = 7
          /\ c.kind = "settings" => len = 3
          /\ c.kind = "deleteType" => len = 3
          /\ c.kind \in Erasing => len = 6
          /\ c.kind = "import" => len = 14
          /\ c.at = len \/ (c.kind = "import" /\ c.at = 3)
      BY <1>2, <1>3 DEF PlanPlace
    <2> HIDE DEF len
    <2>2. c.kind = "delete" => c.at = 7
      BY <2>1
    <2>3. c.kind = "settings" => c.at > 2
      BY <2>1
    <2>4. c.kind = "deleteType" => c.at > 1
      BY <2>1
    <2>5. c.kind \in Erasing => c.at > 2
      BY <2>1 DEF Erasing
    <2>6. c.kind = "import" /\ c.at # 3 => c.at > 5
      BY <2>1
    <2> QED BY <2>2, <2>3, <2>4, <2>5, <2>6
  <1>4. c.kind = "delete" => /\ c.at = 7 /\ Has(c, "scoped", 0, "X") /\ Has(c, "event", 0, "X")
                             /\ \A j \in Requests : job[j] # "none" => Has(c, "job", j, "X")
    BY <1>2, <1>10 DEF OpenGood, Locked, Found
  <1>5. /\ c.kind = "settings" => event
        /\ c.kind = "deleteType" => Has(c, "types", 0, "X")
    BY <1>2, <1>10 DEF OpenGood, Locked, Found
  <1>6. c.kind = "import" /\ c.at = 3 => /\ Has(c, "queue", 0, "S") /\ Has(c, "event", 0, "S")
                                         /\ event /\ c.wrote = {} /\ ~c.checked
    BY <1>2, <1>3 DEF OpenGood, Locked, Found, Writing, Typed
  <1>7. c.kind = "import" /\ c.at # 3 => Has(c, "job", r, "X") /\ job[r] = "running"
    BY <1>2, <1>10 DEF OpenGood, Locked, Found
  <1>8. c.kind \in Erasing => \A j \in Requests : OpenJob(j) => Has(c, "job", j, "X")
    BY <1>2, <1>10 DEF OpenGood, Found
  <1>9. c.kind \in {"createType", "renameType"} => c.label \in Labels
    BY <1>2 DEF OpenGood, Placed
  <1> QED BY <1>2, <1>3, <1>4, <1>5, <1>6, <1>7, <1>8, <1>9

\* What is made of a row.
LEMMA RowAfterIs ==
  ASSUME TypeOK, IInv, NEW r \in Requests, Open(r), NEW p \in request[r].wrote
  PROVE  LET z == RowAfter(r, p) IN
         /\ z \in PersonRow /\ p \in People
         /\ z.there = TRUE => There(p)
         /\ z = NoPerson \/ z.by = r
         /\ request[r].kind # "restore" /\ z.takes = TRUE => person[p].takes
         /\ request[r].kind \notin Erasing => z.erased = person[p].erased
         /\ request[r].kind = "remove" => z = NoPerson
PROOF
  <1> DEFINE c == request[r]
             row == person[p]
             z == RowAfter(r, p)
  <1>1. c \in RequestRecords /\ OpenGood(r, c)
    BY OpenPlace
  <1>2. /\ c.kind \in Writers /\ There(p) /\ c.key \in Makers \cup {"none"} /\ c.flag \in BOOLEAN
        /\ p \in People /\ row \in PersonRow /\ r \in Makers
        /\ c.kind \in {"edit", "bulkType"} => c.key \in Makers
    BY <1>1, RequestFields, TypeParts, NameFacts DEF OpenGood, Writing, Placed
  <1>3. CASE c.kind = "remove"
    <2>1. z = NoPerson
      BY <1>3 DEF RowAfter
    <2> QED BY <1>2, <1>3, <2>1, NoPersonIs DEF Erasing, NoPerson
  <1>4. CASE c.kind = "erase"
    <2> DEFINE takes == row.takes /\ c.flag
               w == [row EXCEPT !.erased = TRUE, !.named = FALSE, !.takes = takes, !.by = r]
    <2>1. z = w
      BY <1>4 DEF RowAfter
    <2>2. takes \in BOOLEAN
      OBVIOUS
    <2> HIDE DEF takes
    <2>3. w \in PersonRow
      BY <1>2, <2>2, Zenon DEF PersonRow
    <2>4. w.takes = takes /\ w.by = r
      BY <1>2, Zenon DEF PersonRow
    <2> QED BY <1>2, <1>4, <2>1, <2>3, <2>4 DEF Erasing, takes
  <1>5. CASE c.kind = "restore"
    <2> DEFINE type == IF c.key = "none" THEN row.type ELSE c.key
               w == [row EXCEPT !.takes = TRUE, !.by = r, !.type = type]
    <2>1. z = w
      BY <1>5 DEF RowAfter
    <2>2. type \in Makers \cup {"none"}
      BY <1>2, PersonFields
    <2> HIDE DEF type
    <2>3. w \in PersonRow /\ w.erased = row.erased /\ w.by = r
      BY <1>2, <2>2, Zenon DEF PersonRow
    <2> QED BY <1>2, <1>5, <2>1, <2>3 DEF Erasing
  <1>6. CASE c.kind = "revoke"
    <2> DEFINE w == [row EXCEPT !.takes = FALSE, !.by = r]
    <2>1. z = w
      BY <1>6 DEF RowAfter
    <2>2. w \in PersonRow /\ w.erased = row.erased /\ w.by = r /\ w.takes = FALSE
      BY <1>2, Zenon DEF PersonRow
    <2> QED BY <1>2, <1>6, <2>1, <2>2 DEF Erasing
  <1>7. CASE c.kind \in {"edit", "bulkType"}
    <2> DEFINE type == c.key
               w == [row EXCEPT !.type = type, !.by = r]
    <2>1. z = w
      BY <1>7 DEF RowAfter
    <2>2. type \in Makers \cup {"none"}
      BY <1>2
    <2> HIDE DEF type
    <2>3. w \in PersonRow /\ w.erased = row.erased /\ w.by = r /\ w.takes = row.takes
      BY <1>2, <2>2, Zenon DEF PersonRow
    <2> QED BY <1>2, <1>7, <2>1, <2>3 DEF Erasing
  <1>8. CASE c.kind \in {"import", "cli"}
    <2> DEFINE type == IF c.key = "none" THEN row.type ELSE c.key
               w == [row EXCEPT !.named = TRUE, !.by = r, !.type = type]
    <2>1. z = w
      BY <1>8 DEF RowAfter
    <2>2. type \in Makers \cup {"none"}
      BY <1>2, PersonFields
    <2> HIDE DEF type
    <2>3. w \in PersonRow /\ w.erased = row.erased /\ w.by = r /\ w.takes = row.takes
      BY <1>2, <2>2, Zenon DEF PersonRow
    <2> QED BY <1>2, <1>8, <2>1, <2>3 DEF Erasing
  <1>9. CASE c.kind = "bulk"
    <2> DEFINE w == [row EXCEPT !.by = r]
    <2>1. z = w
      BY <1>9 DEF RowAfter
    <2>2. w \in PersonRow /\ w.erased = row.erased /\ w.by = r /\ w.takes = row.takes
      BY <1>2, Zenon DEF PersonRow
    <2> QED BY <1>2, <1>9, <2>1, <2>2 DEF Erasing
  <1> QED BY <1>2, <1>3, <1>4, <1>5, <1>6, <1>7, <1>8, <1>9 DEF Writers

\* What one request holds no other can.
LEMMA Clash ==
  ASSUME IInv, NEW r \in Requests, NEW x \in Requests, r # x, Open(r), Open(x)
  PROVE  LET c == request[r]
             q == request[x]
         IN /\ \A name \in Advisory \cup {"event"} :
                 /\ ~(Has(c, name, 0, "X") /\ (Has(q, name, 0, "S") \/ Has(q, name, 0, "X")))
                 /\ ~(Has(q, name, 0, "X") /\ Has(c, name, 0, "S"))
            /\ \A j \in Requests : ~(Has(c, "job", j, "X") /\ Has(q, "job", j, "X"))
            /\ \A p \in People : ~(HasPerson(c, p) /\ HasPerson(q, p))
PROOF
  <1> DEFINE c == request[r]
             q == request[x]
  <1>1. ASSUME NEW lock \in Locks, NEW m1 \in Modes, NEW m2 \in Modes,
               <<lock, m1>> \in c.held, <<lock, m2>> \in q.held
        PROVE  ~Conflict(m1, m2)
    BY <1>1 DEF IInv, Apart
  <1>2. /\ \A name \in Advisory \cup {"event"} : <<name, 0>> \in Locks
        /\ \A j \in Requests : <<"job", j>> \in Locks
        /\ \A p \in People : <<"person", p>> \in Locks
    BY DEF Locks
  <1>3. /\ "S" \in Modes /\ "N" \in Modes /\ "X" \in Modes
        /\ \A m \in Modes : Conflict("X", m) /\ Conflict(m, "X")
        /\ Conflict("N", "N")
    BY DEF Modes, Conflict
  <1>4. \A name \in Advisory \cup {"event"} :
          /\ ~(Has(c, name, 0, "X") /\ (Has(q, name, 0, "S") \/ Has(q, name, 0, "X")))
          /\ ~(Has(q, name, 0, "X") /\ Has(c, name, 0, "S"))
    BY <1>1, <1>2, <1>3 DEF Has
  <1>5. \A j \in Requests : ~(Has(c, "job", j, "X") /\ Has(q, "job", j, "X"))
    BY <1>1, <1>2, <1>3 DEF Has
  <1>6. \A p \in People : ~(HasPerson(c, p) /\ HasPerson(q, p))
    BY <1>1, <1>2, <1>3 DEF Has, HasPerson
  <1> QED BY <1>4, <1>5, <1>6

\* The parts of a commit, and their types.
LEMMA CommitParts ==
  ASSUME TypeOK, IInv, NEW r \in Requests, Open(r), Commit(r)
  PROVE  LET c == request[r] IN
         /\ person' \in [People -> PersonRow]
         /\ \A p \in People : /\ p \notin c.wrote => person'[p] = person[p]
                              /\ person'[p].there => There(p)
                              /\ p \in c.wrote => person'[p] = NoPerson \/ person'[p].by = r
                              /\ c.kind # "restore" /\ person'[p].takes => person[p].takes
                              /\ c.kind \notin Erasing => person'[p].erased = person[p].erased
                              /\ p \in c.wrote /\ c.kind = "remove" => person'[p] = NoPerson
         /\ types' \in [Makers -> Labels \cup {"none"}]
         /\ \A t \in Makers : types[t] # "none" => \/ types'[t] # "none"
                                                   \/ c.kind = "deleteType" \/ c.kind = "delete"
         /\ job' \in [Requests -> JobStates]
         /\ \A j \in Requests : job'[j] = JobAfter(r, j)
         /\ newcomers' \in [Requests -> Newcomers]
         /\ capacity' \in 0..MaxCapacity
         /\ settings' \in BOOLEAN /\ event' \in BOOLEAN
PROOF
  <1> DEFINE c == request[r]
  <1>1. /\ person' = [p \in People |-> IF p \in c.wrote THEN RowAfter(r, p) ELSE person[p]]
        /\ newcomers' = [newcomers EXCEPT ![r] =
             IF Creates(r) THEN [n |-> c.new, type |-> c.key] ELSE newcomers[r]]
        /\ types' = [t \in Makers |-> TypeAfter(r, t)]
        /\ job' = [j \in Requests |-> JobAfter(r, j)]
        /\ capacity' = IF c.kind = "resize" THEN c.limit ELSE capacity
        /\ settings' = IF c.kind \in {"settings", "delete"} THEN c.kind = "settings" ELSE settings
        /\ event' = (event /\ c.kind # "delete")
    BY DEF Commit
  <1>2. c \in RequestRecords /\ (c.kind \in {"createType", "renameType"} => c.label \in Labels)
    BY CommitPlace
  <1>3. c.new \in Nat /\ c.key \in Makers \cup {"none"} /\ c.limit \in 0..MaxCapacity
    BY <1>2, RequestFields
  <1>4. /\ event \in BOOLEAN /\ settings \in BOOLEAN /\ capacity \in 0..MaxCapacity
        /\ types \in [Makers -> Labels \cup {"none"}] /\ person \in [People -> PersonRow]
        /\ newcomers \in [Requests -> Newcomers] /\ job \in [Requests -> JobStates]
    BY TypeParts
  <1>5. ASSUME NEW p \in People
        PROVE  /\ person'[p] \in PersonRow
               /\ p \notin c.wrote => person'[p] = person[p]
               /\ person'[p].there => There(p)
               /\ p \in c.wrote => person'[p] = NoPerson \/ person'[p].by = r
               /\ c.kind # "restore" /\ person'[p].takes => person[p].takes
               /\ c.kind \notin Erasing => person'[p].erased = person[p].erased
               /\ p \in c.wrote /\ c.kind = "remove" => person'[p] = NoPerson
    <2>1. CASE p \notin c.wrote
      BY <1>1, <1>4, <2>1 DEF There
    <2>2. CASE p \in c.wrote
      <3>1. person'[p] = RowAfter(r, p)
        BY <1>1, <2>2
      <3>2. RowAfter(r, p).there \in BOOLEAN /\ RowAfter(r, p).takes \in BOOLEAN
        BY <2>2, RowAfterIs, PersonFields
      <3> QED BY <2>2, <3>1, <3>2, RowAfterIs
    <2> QED BY <2>1, <2>2
  <1>6. person' \in [People -> PersonRow]
    BY <1>1, <1>5
  <1>7. ASSUME NEW t \in Makers
        PROVE  /\ types'[t] \in Labels \cup {"none"}
               /\ types[t] # "none" => \/ types'[t] # "none"
                                       \/ c.kind = "deleteType" \/ c.kind = "delete"
    <2>1. types'[t] = TypeAfter(r, t)
      BY <1>1
    <2> QED BY <1>2, <1>4, <2>1, NameFacts DEF TypeAfter
  <1>8. types' \in [Makers -> Labels \cup {"none"}]
    BY <1>1, <1>7
  <1>9. ASSUME NEW j \in Requests
        PROVE  JobAfter(r, j) \in JobStates
    BY <1>4 DEF JobAfter, JobStates
  <1>10. newcomers' \in [Requests -> Newcomers]
    BY <1>1, <1>3, <1>4 DEF Newcomers
  <1> QED BY <1>1, <1>3, <1>4, <1>5, <1>6, <1>7, <1>8, <1>9, <1>10

LEMMA OthersStay ==
  ASSUME TypeOK, IInv, NEW r \in Requests, Open(r), Commit(r),
         NEW x \in Requests \ {r}, Open(x), NEW q, q = request[x]
  PROVE  OpenGood(x, q)'
PROOF
  <1>1. PICK c : c = request[r]
    OBVIOUS
  <1>2. /\ OpenGood(x, q) /\ q.wrote \subseteq People /\ q.x \subseteq People /\ q.left \subseteq People
    BY OpenPlace, RequestFields
  <1>3. Placed(q)' /\ Locked(x, q)'
    BY <1>2 DEF OpenGood, Placed, Locked, Has
  <1>4. /\ \A name \in Advisory \cup {"event"} :
             /\ ~(Has(c, name, 0, "X") /\ (Has(q, name, 0, "S") \/ Has(q, name, 0, "X")))
             /\ ~(Has(q, name, 0, "X") /\ Has(c, name, 0, "S"))
        /\ \A j \in Requests : ~(Has(c, "job", j, "X") /\ Has(q, "job", j, "X"))
        /\ \A p \in People : ~(HasPerson(c, p) /\ HasPerson(q, p))
    BY <1>1, Clash
  <1>5. /\ c.kind = "delete" => /\ Has(c, "scoped", 0, "X") /\ Has(c, "event", 0, "X")
                                /\ \A j \in Requests : job[j] # "none" => Has(c, "job", j, "X")
        /\ c.kind = "deleteType" => Has(c, "types", 0, "X")
        /\ c.kind = "import" /\ c.at = 3 => /\ Has(c, "queue", 0, "S") /\ Has(c, "event", 0, "S")
        /\ c.kind = "import" /\ c.at # 3 => Has(c, "job", r, "X") /\ job[r] = "running"
        /\ c.kind \in Erasing => \A j \in Requests : OpenJob(j) => Has(c, "job", j, "X")
        /\ OpenGood(r, c)
    BY <1>1, CommitPlace
  <1>6. /\ event' = (event /\ c.kind # "delete")
        /\ \A j \in Requests : job'[j] = JobAfter(r, j)
        /\ \A p \in People : /\ p \notin c.wrote => person'[p] = person[p]
                             /\ person'[p].there => There(p)
                             /\ c.kind \notin Erasing => person'[p].erased = person[p].erased
        /\ \A t \in Makers : types[t] # "none" => \/ types'[t] # "none"
                                                  \/ c.kind = "deleteType" \/ c.kind = "delete"
    BY <1>1, CommitParts DEF Commit
  <1>7. /\ "scoped" \in Advisory \cup {"event"} /\ "event" \in Advisory \cup {"event"}
        /\ "queue" \in Advisory \cup {"event"} /\ "types" \in Advisory \cup {"event"}
    BY DEF Advisory
  <1>8. Found(x, q)'
    <2>1. q.kind = "settings" /\ q.at > 2 => event'
      <3>1. q.kind = "settings" /\ q.at > 2 => event /\ Has(q, "scoped", 0, "X")
        BY <1>2 DEF OpenGood, Found, Locked, Placed
      <3> QED BY <1>4, <1>5, <1>6, <1>7, <3>1
    <2>2. q.kind = "import" /\ q.at = 3 => event'
      <3>1. q.kind = "import" /\ q.at = 3 => event /\ Has(q, "event", 0, "S")
        BY <1>2 DEF OpenGood, Found, Locked
      <3> QED BY <1>4, <1>5, <1>6, <1>7, <3>1
    <2>3. ASSUME q.kind = "delete", q.at > 6, NEW j \in Requests, job'[j] # "none"
          PROVE  Has(q, "job", j, "X")
      <3>1. Has(q, "event", 0, "X") /\ (job[j] # "none" => Has(q, "job", j, "X"))
        BY <1>2, <2>3 DEF OpenGood, Found, Locked, Placed
      <3>2. ~(c.kind = "import" /\ c.at = 3)
        BY <1>4, <1>5, <1>7, <3>1
      <3>3. job[j] # "none"
        BY <1>1, <1>5, <1>6, <2>3, <3>2 DEF JobAfter
      <3> QED BY <3>1, <3>3
    <2>4. ASSUME q.kind = "import", q.at > 5
          PROVE  job'[x] = "running"
      <3>1. job[x] = "running" /\ Has(q, "job", x, "X") /\ OpenJob(x)
        BY <1>2, <2>4 DEF OpenGood, Found, Locked, OpenJob
      <3>2. c.kind \notin Erasing /\ c.kind # "delete"
        BY <1>4, <1>5, <3>1
      <3> QED BY <1>1, <1>6, <3>1, <3>2 DEF JobAfter, Erasing
    <2>5. ASSUME q.kind \in Erasing, q.at > 2, NEW j \in Requests, job'[j] \in {"pending", "running"}
          PROVE  Has(q, "job", j, "X")
      <3>1. Has(q, "queue", 0, "X") /\ (OpenJob(j) => Has(q, "job", j, "X"))
        BY <1>2, <2>5 DEF OpenGood, Found, Locked, Placed
      <3>2. ~(c.kind = "import" /\ c.at = 3)
        BY <1>4, <1>5, <1>7, <3>1
      <3>3. OpenJob(j)
        BY <1>1, <1>6, <2>5, <3>2 DEF JobAfter, OpenJob
      <3> QED BY <3>1, <3>3
    <2>6. ASSUME \/ q.kind \in Erasing /\ q.at > 3
                 \/ q.kind = "bulk" /\ q.at > 2
                 \/ q.kind = "bulkType" /\ q.at > 4,
                 NEW p \in q.x, person'[p].there
          PROVE  HasPerson(q, p)
      <3>1. There(p)
        BY <1>2, <1>6, <2>6
      <3> QED BY <1>2, <2>6, <3>1 DEF OpenGood, Found
    <2> QED BY <2>1, <2>2, <2>3, <2>4, <2>5, <2>6 DEF Found, OpenJob, There, HasPerson, Has
  <1>9. Typed(q)'
    <2>1. ASSUME q.checked, event'
          PROVE  types'[q.key] # "none"
      <3>1. event /\ q.key \in Makers /\ types[q.key] # "none" /\ Has(q, "types", 0, "X")
        BY <1>2, <1>6, <2>1 DEF OpenGood, Typed
      <3>2. c.kind # "deleteType" /\ c.kind # "delete"
        BY <1>4, <1>5, <1>6, <1>7, <2>1, <3>1
      <3> QED BY <1>6, <3>1, <3>2
    <2> QED BY <1>2, <2>1 DEF OpenGood, Typed, Has
  <1>10. Writing(q)'
    <2>1. \A p \in q.wrote : person'[p] = person[p]
      <3>1. \A p \in c.wrote : HasPerson(c, p)
        BY <1>5 DEF OpenGood, Writing
      <3>2. \A p \in q.wrote : HasPerson(q, p)
        BY <1>2 DEF OpenGood, Writing
      <3> QED BY <1>2, <1>4, <1>6, <3>1, <3>2
    <2>2. ASSUME q.kind = "import", q.at > 9, NEW p \in q.left, person'[p].there
          PROVE  ~person'[p].erased
      <3>1. There(p) /\ ~person[p].erased
        BY <1>2, <1>6, <2>2 DEF OpenGood, Writing
      <3>2. Has(q, "job", x, "X") /\ OpenJob(x)
        BY <1>2, <2>2 DEF OpenGood, Locked, Found, Placed, OpenJob
      <3>3. c.kind \notin Erasing
        BY <1>4, <1>5, <3>2
      <3> QED BY <1>2, <1>6, <3>1, <3>3
    <2> QED BY <1>2, <2>1, <2>2 DEF OpenGood, Writing, There, HasPerson, Has
  <1> QED BY <1>3, <1>8, <1>9, <1>10 DEF OpenGood

LEMMA CommitKeeps ==
  ASSUME TypeOK, IInv, NEW r \in Requests, Open(r), Commit(r)
  PROVE  TypeOK' /\ IInv'
PROOF
  <1> DEFINE c == request[r]
             n == c.at + 1
             none == {}
             ended == [NoRequest EXCEPT !.state = "ok"]
             on == [c EXCEPT !.at = n, !.held = none]
             y == IF c.at = Len(Plan[c.kind]) THEN ended ELSE on
  <1>1. request' = [request EXCEPT ![r] = y]
    BY DEF Commit
  <1>2. /\ c \in RequestRecords /\ OpenGood(r, c) /\ c.kind \in DOMAIN Plan /\ c.at \in Nat
        /\ c.at # Len(Plan[c.kind]) => /\ c.kind = "import" /\ c.at = 3 /\ c.wrote = {} /\ ~c.checked
        /\ c.kind = "import" => Len(Plan[c.kind]) = 14
    BY CommitPlace
  <1>3. ended \in RequestRecords /\ ended.state = "ok" /\ ended.held = {}
    BY DoneIs
  <1>4. n \in Nat /\ n = c.at + 1 /\ none = {} /\ none \in SUBSET (Locks \X Modes)
    BY <1>2
  <1> HIDE DEF n, none, ended
  <1>5. /\ on \in RequestRecords /\ on.kind = c.kind /\ on.key = c.key /\ on.label = c.label
        /\ on.held = none /\ on.x = c.x /\ on.left = c.left /\ on.at = n /\ on.wrote = c.wrote
        /\ on.checked = c.checked
    BY <1>2, <1>4, Zenon DEF RequestRecords
  <1> HIDE DEF on
  <1>6. y \in RequestRecords /\ y.held = {} /\ (y.state = "open" => y = on /\ c.at # Len(Plan[c.kind]))
    BY <1>3, <1>4, <1>5
  <1> HIDE DEF y
  <1>7. /\ request'[r] = y /\ \A x \in Requests \ {r} : request'[x] = request[x]
        /\ request' \in [Requests -> RequestRecords]
    BY <1>1, <1>6, TypeParts
  <1>8. TypeOK'
    BY <1>7, CommitParts, TypeParts
  <1>9. Apart'
    BY <1>1, <1>6, ApartStays
  <1>10. OpenAreGood'
    <2>1. ASSUME NEW x \in Requests, Open(x)'
          PROVE  OpenGood(x, request[x])'
      <3>1. PICK q : q = request'[x]
        OBVIOUS
      <3>2. CASE x # r
        <4>1. q = request[x] /\ Open(x)
          BY <1>7, <2>1, <3>1, <3>2 DEF Open
        <4>2. OpenGood(x, q)'
          BY <3>2, <4>1, OthersStay
        <4> QED BY <3>1, <4>2, ByName
      <3>3. CASE x = r
        <4>1. /\ q = on /\ q.kind = "import" /\ q.at = 4 /\ q.held = {} /\ q.wrote = {} /\ ~q.checked
              /\ Len(Plan[q.kind]) = 14 /\ q.kind \in Kinds
          <5>1. q = on /\ c.at # Len(Plan[c.kind])
            BY <1>6, <1>7, <2>1, <3>1, <3>3 DEF Open
          <5> QED BY <1>2, <1>4, <1>5, <5>1 DEF OpenGood, Placed
        <4>2. Plan[q.kind][4] = "claim"
          BY <4>1 DEF Plan, Import
        <4>3. Placed(q)' /\ Locked(r, q)'
          BY <4>1, <4>2 DEF Placed, Locked, Erasing
        <4>4. Found(r, q)' /\ Typed(q)' /\ Writing(q)'
          BY <4>1 DEF Found, Typed, Writing, Erasing
        <4>5. OpenGood(x, q)'
          BY <3>3, <4>3, <4>4 DEF OpenGood
        <4> QED BY <3>1, <4>5, ByName
      <3> QED BY <3>2, <3>3
    <2> QED BY <2>1 DEF OpenAreGood
  <1>11. NothingOrphaned'
    <2>1. /\ settings' = IF c.kind \in {"settings", "delete"} THEN c.kind = "settings" ELSE settings
          /\ event' = (event /\ c.kind # "delete")
          /\ \A j \in Requests : job'[j] = JobAfter(r, j)
      BY CommitParts DEF Commit
    <2>2. /\ c.kind = "settings" => event
          /\ c.kind = "import" /\ c.at = 3 => event
          /\ c.kind = "import" /\ c.at # 3 => job[r] = "running"
      BY CommitPlace
    <2>3. ~event => ~settings /\ \A j \in Requests : job[j] = "none"
      BY DEF IInv, NothingOrphaned
    <2>4. ASSUME ~event'
          PROVE  ~settings'
      BY <2>1, <2>2, <2>3, <2>4
    <2>5. ASSUME ~event', NEW j \in Requests
          PROVE  job'[j] = "none"
      <3>1. CASE c.kind = "delete"
        BY <2>1, <3>1 DEF JobAfter
      <3>2. CASE c.kind # "delete"
        <4>1. job[j] = "none" /\ job[r] = "none" /\ ~event
          BY <2>1, <2>3, <2>5, <3>2
        <4>2. c.kind # "import"
          BY <2>2, <4>1
        <4> QED BY <2>1, <3>2, <4>1, <4>2 DEF JobAfter
      <3> QED BY <3>1, <3>2
    <2> QED BY <2>4, <2>5 DEF NothingOrphaned
  <1> QED BY <1>8, <1>9, <1>10, <1>11 DEF IInv

-----------------------------------------------------------------------------
(* The theorems.                                                           *)

LEMMA InitGood == Init => TypeOK /\ IInv
PROOF
  <1> SUFFICES ASSUME Init
               PROVE  TypeOK /\ IInv
    OBVIOUS
  <1>1. types \in [Makers -> Labels \cup {"none"}]
    BY NameFacts DEF Init
  <1>2. person \in [People -> PersonRow]
    <2>1. ASSUME NEW b \in BOOLEAN
          PROVE  [NoPerson EXCEPT !.there = TRUE, !.named = TRUE, !.takes = b] \in PersonRow
      BY <2>1, NoPersonIs, Zenon DEF PersonRow
    <2>2. {NoPerson} \cup {[NoPerson EXCEPT !.there = TRUE, !.named = TRUE, !.takes = b] : b \in BOOLEAN}
            \subseteq PersonRow
      BY <2>1, NoPersonIs
    <2> QED BY <2>2 DEF Init
  <1>3. newcomers \in [Requests -> Newcomers] /\ job \in [Requests -> JobStates]
    BY DEF Init, Newcomers, JobStates
  <1>4. request \in [Requests -> RequestRecords] /\ \A r \in Requests : ~Open(r)
    BY NoRequestIs DEF Init, Open
  <1>5. event = TRUE /\ settings = FALSE /\ capacity \in 0..MaxCapacity
    BY DEF Init
  <1>6. TypeOK
    BY <1>1, <1>2, <1>3, <1>4, <1>5, TypeParts
  <1> QED BY <1>4, <1>5, <1>6 DEF IInv, OpenAreGood, Apart, NothingOrphaned

LEMMA StepsKeep == TypeOK /\ IInv /\ [Next]_vars => TypeOK' /\ IInv'
PROOF
  <1> SUFFICES ASSUME TypeOK, IInv, [Next]_vars
               PROVE  TypeOK' /\ IInv'
    OBVIOUS
  <1>1. CASE UNCHANGED vars
    <2>1. TypeOK'
      BY <1>1, TypeParts DEF vars
    <2>2. OpenAreGood'
      <3>1. ASSUME NEW x \in Requests, Open(x)'
            PROVE  OpenGood(x, request[x])'
        <4>1. PICK q : q = request'[x]
          OBVIOUS
        <4>2. OpenGood(x, q) /\ RowsSame
          BY <1>1, <3>1, <4>1 DEF vars, RowsSame, Open, IInv, OpenAreGood
        <4>3. OpenGood(x, q)'
          BY <4>2, GoodStays
        <4> QED BY <4>1, <4>3, ByName
      <3> QED BY <3>1 DEF OpenAreGood
    <2>3. Apart' /\ NothingOrphaned'
      BY <1>1 DEF vars, IInv, Apart, NothingOrphaned, Open
    <2> QED BY <2>1, <2>2, <2>3 DEF IInv
  <1>2. ASSUME NEW r \in Requests, Open(r), Step(r)
        PROVE  TypeOK' /\ IInv'
    <2>1. CASE Lock(r) \/ Skip(r) \/ LockJobs(r) \/ NeedEvent(r) \/ Claim(r) \/ OwnJob(r) \/ Check(r)
      BY <1>2, <2>1, LockKeeps, SkipKeeps, LockJobsKeeps, NeedEventKeeps, ClaimKeeps, OwnJobKeeps, CheckKeeps
    <2>2. CASE Fresh(r) \/ Match(r) \/ Read(r) \/ Limit(r) \/ Count(r) \/ Update(r) \/ Owned(r)
      BY <1>2, <2>2, FreshKeeps, MatchKeeps, ReadKeeps, LimitKeeps, CountKeeps, UpdateKeeps, OwnedKeeps
    <2>3. CASE \/ LockRows(r) \/ Set(r) \/ FromFile(r) \/ Label(r) \/ Unused(r) \/ Exists(r) \/ Empty(r)
               \/ Commit(r)
      BY <1>2, <2>3, LockRowsKeeps, SetKeeps, FileKeeps, LookKeeps, CommitKeeps
    <2> QED BY <1>2, <2>1, <2>2, <2>3 DEF Step
  <1>3. ASSUME NEW r \in Requests, Begin(r) \/ Step(r) \/ Retry(r) \/ Abort(r)
        PROVE  TypeOK' /\ IInv'
    <2>1. CASE Begin(r)
      BY <2>1, BeginKeeps
    <2>2. CASE Step(r)
      BY <1>2, <2>2 DEF Step
    <2>3. CASE Retry(r)
      BY <2>3, RetryKeeps
    <2>4. CASE Abort(r)
      BY <2>4, RefuseKeeps DEF Abort
    <2> QED BY <1>3, <2>1, <2>2, <2>3, <2>4
  <1> QED BY <1>1, <1>3 DEF Next

LEMMA Invariant == Spec => [](TypeOK /\ IInv)
PROOF BY InitGood, StepsKeep, PTL DEF Spec

\* Every variable has its type (the schema of event-capacity.ts, ticket-types.ts and
\* import-jobs.ts, and the locals of the requests).
THEOREM TypeCorrect == Spec => []TypeOK
PROOF BY Invariant, PTL

\* A ticket type found in the catalog under acquireEventTicketTypesLock is there until the
\* request that found it commits, for any number of requests and types.
THEOREM CheckedTypesStay == Spec => []CheckedTypeStays
PROOF
  <1>1. IInv => CheckedTypeStays
    BY DEF IInv, OpenAreGood, OpenGood, Typed, CheckedTypeStays
  <1> QED BY <1>1, Invariant, PTL

\* A deleted event leaves no mail settings and no job behind (event-deletion.ts), whoever
\* saves settings, adds or runs an import at the same time.
THEOREM NothingLeftBehind == Spec => []NothingOrphaned
PROOF
  <1>1. IInv => NothingOrphaned
    BY DEF IInv
  <1> QED BY <1>1, Invariant, PTL

LEMMA OnlyRemoved ==
  ASSUME TypeOK, IInv, NEW r \in Requests, Open(r), Commit(r), "cli" \notin Kinds,
         NEW p \in People, There(p), person[p].erased
  PROVE  person'[p] \in {person[p], NoPerson}
PROOF
  <1>1. OpenGood(r, request[r])
    BY OpenPlace
  <1>2. p \in request[r].wrote => request[r].kind = "remove"
    BY <1>1 DEF OpenGood, Placed, Writing
  <1> QED BY <1>2, CommitParts

\* Without an import from the command line nothing writes into the row of an erased
\* attendee (erase-attendee.ts, attendee-write.ts): an erasure and a page import exclude
\* each other by the import's job, the others find the row live and keep it locked.
THEOREM NobodyErasedWritten ==
  ASSUME "cli" \notin Kinds
  PROVE  Spec => ErasedUntouched
PROOF
  <1>1. TypeOK /\ IInv /\ [Next]_vars =>
          [\A p \in People : There(p) /\ person[p].erased => person'[p] \in {person[p], NoPerson}]_vars
    <2> SUFFICES ASSUME TypeOK, IInv, Next, NEW p \in People, There(p), person[p].erased
                 PROVE  person'[p] \in {person[p], NoPerson}
      OBVIOUS
    <2>1. CASE person' = person
      BY <2>1
    <2>2. CASE person' # person
      <3>1. PICK r \in Requests : Begin(r) \/ Step(r) \/ Retry(r) \/ Abort(r)
        BY DEF Next
      <3>2. ~Begin(r) /\ ~Retry(r) /\ ~Abort(r)
        BY <2>2 DEF Begin, Retry, Abort, RowsSame
      <3>3. ~Lock(r) /\ ~Skip(r) /\ ~LockJobs(r) /\ ~NeedEvent(r) /\ ~Claim(r) /\ ~OwnJob(r) /\ ~Check(r)
        BY <2>2 DEF Lock, Skip, LockJobs, NeedEvent, Claim, OwnJob, Check, RowsSame
      <3>4. ~Fresh(r) /\ ~Match(r) /\ ~Read(r) /\ ~Limit(r) /\ ~Count(r) /\ ~Update(r) /\ ~Owned(r)
        BY <2>2 DEF Fresh, Match, Read, Limit, Count, Update, Owned, RowsSame
      <3>5. /\ ~LockRows(r) /\ ~Set(r) /\ ~FromFile(r) /\ ~Label(r) /\ ~Unused(r) /\ ~Exists(r)
            /\ ~Empty(r)
        BY <2>2 DEF LockRows, Set, FromFile, Label, Unused, Exists, Empty, RowsSame
      <3>6. Open(r) /\ Commit(r)
        BY <3>1, <3>2, <3>3, <3>4, <3>5 DEF Step
      <3> QED BY <3>6, OnlyRemoved
    <2> QED BY <2>1, <2>2
  <1> QED BY <1>1, Invariant, PTL DEF Spec, ErasedUntouched

-----------------------------------------------------------------------------
(* Seats: the invariant behind NoOverfill.                                 *)

\* Under the capacity lock: where no seat is wanted, or the count has been skipped, it is not.
Seating(q) ==
  /\ q.kind \in {"create", "cli"} /\ q.at > 3 => Has(q, "capacity", 0, "X")
  /\ q.kind = "import" /\ q.at > 7 => Has(q, "capacity", 0, "X")
  /\ q.kind = "restore" /\ (q.at \in {5, 6} \/ (q.at > 6 /\ q.new # 0)) => Has(q, "capacity", 0, "X")

\* Its seats were counted, and are there.
Counted(q) ==
  q.counted => /\ Has(q, "capacity", 0, "X")
               /\ \/ q.kind = "create" /\ q.at > 5
                  \/ q.kind = "restore" /\ q.at > 6
                  \/ q.kind = "import" /\ q.at > 11
                  \/ q.kind = "cli" /\ q.at > 6
               /\ Cardinality(Taken) + Cardinality(Created) + q.new <= q.limit

\* A restore that takes no seat read that its attendee has one, and has it still when it writes.
Reading(q) ==
  q.kind = "restore" =>
    /\ \E p \in People : q.x = {p}
    /\ q.at = 1 => q.new # 0
    /\ q.at > 1 => \A p \in q.x :
         /\ q.new = 0 => q.seen[p].takes
         /\ There(p) /\ person[p].by = q.seen[p].by => person[p].takes = q.seen[p].takes
    /\ q.wrote # {} /\ q.new = 0 => \A p \in q.wrote : person[p].takes

SeatOk(q) == Seating(q) /\ Counted(q) /\ Reading(q)
SeatsGood == \A r \in Requests : Open(r) => SeatOk(request[r])

\* A request that has not ended has written nothing that anybody has seen.
Unseen ==
  \A r \in Requests, p \in People : request[r].state \in {"idle", "open"} =>
    person[p].by # r /\ \A x \in Requests : request[x].seen[p].by # r

SInv == SeatsGood /\ Unseen

\* Where the statements are that seats depend on.
PlanSeats(kind, at) ==
  /\ kind \in {"create", "cli"} /\ at = 3 => Plan[kind][at] = "capacity"
  /\ kind = "import" /\ at = 7 => Plan[kind][at] = "capacity"
  /\ kind = "restore" /\ at = 4 => Plan[kind][at] = "capacity"
  /\ kind = "restore" /\ at = 1 => Plan[kind][at] = "read"
  /\ Plan[kind][at] = "count" => \/ kind = "create" /\ at = 5
                                 \/ kind = "restore" /\ at = 6
                                 \/ kind = "import" /\ at = 11
                                 \/ kind = "cli" /\ at = 6
  /\ Plan[kind][at] = "limit" => \/ kind = "create" /\ at = 4
                                 \/ kind = "restore" /\ at = 5
                                 \/ kind = "import" /\ at = 10
                                 \/ kind = "cli" /\ at = 5
  /\ Plan[kind][at] = "match" => \/ kind = "import" /\ at = 9
                                 \/ kind = "cli" /\ at = 4
  /\ Plan[kind][at] = "update" /\ kind = "restore" => at = 7
  /\ Plan[kind][at] = "read" => kind \in {"restore", "edit", "revoke"} /\ at = 1
  /\ Plan[kind][at] = "owned" => kind \in {"bulk", "bulkType"}

LEMMA PlanSeated ==
  ASSUME NEW kind \in DOMAIN Plan, NEW at \in Nat, at >= 1, at <= Len(Plan[kind])
  PROVE  PlanSeats(kind, at)
PROOF
  <1>1. CASE kind = "create"
    <2>1. Plan[kind] = Create /\ Len(Create) = 7
      BY <1>1 DEF Plan, Create
    <2> QED BY <2>1, <1>1 DEF Create, PlanSeats
  <1>2. CASE kind = "restore"
    <2>1. Plan[kind] = Restore /\ Len(Restore) = 8
      BY <1>2 DEF Plan, Restore
    <2> QED BY <2>1, <1>2 DEF Restore, PlanSeats
  <1>3. CASE kind = "edit"
    <2>1. Plan[kind] = Edit /\ Len(Edit) = 5
      BY <1>3 DEF Plan, Edit
    <2> QED BY <2>1, <1>3 DEF Edit, PlanSeats
  <1>4. CASE kind = "revoke"
    <2>1. Plan[kind] = Revoke /\ Len(Revoke) = 3
      BY <1>4 DEF Plan, Revoke
    <2> QED BY <2>1, <1>4 DEF Revoke, PlanSeats
  <1>5. CASE kind = "bulk"
    <2>1. Plan[kind] = Bulk /\ Len(Bulk) = 4
      BY <1>5 DEF Plan, Bulk
    <2> QED BY <2>1, <1>5 DEF Bulk, PlanSeats
  <1>6. CASE kind = "bulkType"
    <2>1. Plan[kind] = BulkType /\ Len(BulkType) = 6
      BY <1>6 DEF Plan, BulkType
    <2> QED BY <2>1, <1>6 DEF BulkType, PlanSeats
  <1>7. CASE kind = "import"
    <2>1. Plan[kind] = Import /\ Len(Import) = 14
      BY <1>7 DEF Plan, Import
    <2> QED BY <2>1, <1>7 DEF Import, PlanSeats
  <1>8. CASE kind = "cli"
    <2>1. Plan[kind] = Importer /\ Len(Importer) = 9
      BY <1>8 DEF Plan, Importer
    <2> QED BY <2>1, <1>8 DEF Importer, PlanSeats
  <1>9. CASE kind = "erase"
    <2>1. Plan[kind] = Erase /\ Len(Erase) = 6
      BY <1>9 DEF Plan, Erase
    <2> QED BY <2>1, <1>9 DEF Erase, PlanSeats
  <1>10. CASE kind = "remove"
    <2>1. Plan[kind] = Erase /\ Len(Erase) = 6
      BY <1>10 DEF Plan, Erase
    <2> QED BY <2>1, <1>10 DEF Erase, PlanSeats
  <1>11. CASE kind = "createType"
    <2>1. Plan[kind] = CreateType /\ Len(CreateType) = 4
      BY <1>11 DEF Plan, CreateType
    <2> QED BY <2>1, <1>11 DEF CreateType, PlanSeats
  <1>12. CASE kind = "renameType"
    <2>1. Plan[kind] = RenameType /\ Len(RenameType) = 3
      BY <1>12 DEF Plan, RenameType
    <2> QED BY <2>1, <1>12 DEF RenameType, PlanSeats
  <1>13. CASE kind = "deleteType"
    <2>1. Plan[kind] = DeleteType /\ Len(DeleteType) = 3
      BY <1>13 DEF Plan, DeleteType
    <2> QED BY <2>1, <1>13 DEF DeleteType, PlanSeats
  <1>14. CASE kind = "resize"
    <2>1. Plan[kind] = Resize /\ Len(Resize) = 2
      BY <1>14 DEF Plan, Resize
    <2> QED BY <2>1, <1>14 DEF Resize, PlanSeats
  <1>15. CASE kind = "settings"
    <2>1. Plan[kind] = Settings /\ Len(Settings) = 3
      BY <1>15 DEF Plan, Settings
    <2> QED BY <2>1, <1>15 DEF Settings, PlanSeats
  <1>16. CASE kind = "delete"
    <2>1. Plan[kind] = Delete /\ Len(Delete) = 7
      BY <1>16 DEF Plan, Delete
    <2> QED BY <2>1, <1>16 DEF Delete, PlanSeats
  <1>17. kind \in {"create", "restore", "edit", "revoke", "bulk", "bulkType", "import", "cli", "erase",
                   "remove", "createType", "renameType", "deleteType", "resize", "settings", "delete"}
    BY DEF Plan
  <1> QED BY <1>1, <1>2, <1>3, <1>4, <1>5, <1>6, <1>7, <1>8, <1>9, <1>10, <1>11, <1>12, <1>13, <1>14,
             <1>15, <1>16, <1>17

LEMMA SeatPlace ==
  ASSUME TypeOK, IInv, SInv, NEW r \in Requests, Open(r)
  PROVE  LET q == request[r] IN
         /\ q \in RequestRecords /\ SeatOk(q) /\ q.kind \in DOMAIN Plan
         /\ q.at \in Nat /\ q.at >= 1 /\ q.at <= Len(Plan[q.kind]) /\ Len(Plan[q.kind]) \in 1..14
         /\ PlanSeats(q.kind, q.at) /\ Op(r) = Plan[q.kind][q.at]
PROOF
  <1> DEFINE q == request[r]
  <1>1. /\ q \in RequestRecords /\ q.kind \in DOMAIN Plan /\ Len(Plan[q.kind]) \in 1..14
        /\ q.at \in Nat /\ q.at >= 1 /\ q.at <= Len(Plan[q.kind]) /\ Op(r) = Plan[q.kind][q.at]
    BY OpenPlace
  <1>2. SeatOk(q)
    BY DEF SInv, SeatsGood
  <1>3. PlanSeats(q.kind, q.at)
    BY <1>1, PlanSeated
  <1> QED BY <1>1, <1>2, <1>3

LEMMA SeatByName ==
  ASSUME NEW x, NEW q, q = request'[x], SeatOk(q)'
  PROVE  SeatOk(request[x])'
PROOF
  <1>1. Seating(q) /\ Seating(request'[x])
    BY DEF SeatOk, Seating, Has
  <1>2. Seating(request[x])'
    BY <1>1 DEF Seating, Has
  <1>3. Counted(request[x])'
    BY DEF SeatOk, Counted, Has
  <1>4. Reading(request[x])'
    BY DEF SeatOk, Reading, There
  <1> QED BY <1>2, <1>3, <1>4 DEF SeatOk

LEMMA SeatStays ==
  ASSUME person' = person, newcomers' = newcomers, NEW q, SeatOk(q)
  PROVE  SeatOk(q)'
PROOF
  <1>1. Seating(q)'
    BY DEF SeatOk, Seating, Has
  <1>2. Taken' = Taken /\ Created' = Created
    BY DEF Taken, Created, There
  <1>3. Counted(q)'
    BY <1>2 DEF SeatOk, Counted, Has
  <1>4. Reading(q)'
    BY DEF SeatOk, Reading, There
  <1> QED BY <1>1, <1>3, <1>4 DEF SeatOk

\* A step of request r that changes no row and nobody created, or only its own end.
LEMMA SeatsLocal ==
  ASSUME TypeOK, TypeOK', SInv, NEW r \in Requests, person' = person, newcomers' = newcomers,
         NEW y, y = request'[r], \A x \in Requests \ {r} : request'[x] = request[x],
         y.state = "open" => SeatOk(y),
         y.state \in {"idle", "open"} => request[r].state \in {"idle", "open"},
         y.seen = request[r].seen \/ y.seen = person \/ y.seen = NoRequest.seen
  PROVE  SInv'
PROOF
  <1>1. SeatsGood'
    <2>1. ASSUME NEW x \in Requests, Open(x)'
          PROVE  SeatOk(request[x])'
      <3>1. PICK q : q = request'[x]
        OBVIOUS
      <3>2. SeatOk(q)
        BY <2>1, <3>1 DEF Open, SInv, SeatsGood
      <3>3. SeatOk(q)'
        BY <3>2, SeatStays
      <3> QED BY <3>1, <3>3, SeatByName
    <2> QED BY <2>1 DEF SeatsGood
  <1>2. Unseen'
    <2>1. ASSUME NEW x \in Requests, NEW p \in People, request'[x].state \in {"idle", "open"},
                 NEW z \in Requests
          PROVE  person'[p].by # x /\ request'[z].seen[p].by # x
      <3>1. request[x].state \in {"idle", "open"}
        BY <2>1
      <3>2. person[p].by # x /\ \A c \in Requests : request[c].seen[p].by # x
        BY <2>1, <3>1 DEF SInv, Unseen
      <3>3. NoRequest.seen[p].by # x
        BY NameFacts DEF NoRequest, NoPerson
      <3> QED BY <3>2, <3>3
    <2> QED BY <2>1 DEF Unseen
  <1> QED BY <1>1, <1>2 DEF SInv

\* What most statements leave alone.
Untouched(q, y) ==
  /\ y.kind = q.kind /\ y.new = q.new /\ y.limit = q.limit /\ (y.counted <=> q.counted)
  /\ y.seen = q.seen /\ y.x = q.x /\ y.state = q.state

\* A statement that has nothing to do with seats, but for the lock it may take.
Plain(r, y) ==
  LET q == request[r] IN
  /\ Untouched(q, y) /\ q.held \subseteq y.held
  /\ y.at = q.at \/ (y.at = q.at + 1 /\ Op(r) \notin {"read", "commit"})
  /\ y.wrote = q.wrote \/ q.kind # "restore"
  /\ y.at # q.at /\ Op(r) = "capacity" => Has(y, "capacity", 0, "X")

LEMMA PlainOk ==
  ASSUME TypeOK, IInv, SInv, NEW r \in Requests, Open(r), NEW y, Plain(r, y)
  PROVE  SeatOk(y)
PROOF
  <1> DEFINE q == request[r]
  <1>1. /\ q \in RequestRecords /\ SeatOk(q) /\ q.at \in Nat /\ q.at >= 1
        /\ PlanSeats(q.kind, q.at) /\ Op(r) = Plan[q.kind][q.at]
    BY SeatPlace
  <1>2. Has(q, "capacity", 0, "X") => Has(y, "capacity", 0, "X")
    BY DEF Plain, Has
  <1>3. /\ Untouched(q, y) /\ (y.at = q.at \/ y.at = q.at + 1)
        /\ y.at # q.at => Op(r) # "read" /\ (Op(r) = "capacity" => Has(y, "capacity", 0, "X"))
        /\ y.wrote = q.wrote \/ q.kind # "restore"
    BY DEF Plain
  <1>4. Seating(y)
    <2>1. CASE y.at = q.at
      BY <1>1, <1>2, <1>3, <2>1 DEF SeatOk, Seating, Untouched
    <2>2. CASE y.at = q.at + 1
      <3>1. y.at # q.at
        BY <1>1, <2>2
      <3>2. q.kind \in {"create", "cli"} /\ y.at > 3 => Has(y, "capacity", 0, "X")
        BY <1>1, <1>2, <1>3, <2>2, <3>1 DEF SeatOk, Seating, PlanSeats
      <3>3. q.kind = "import" /\ y.at > 7 => Has(y, "capacity", 0, "X")
        BY <1>1, <1>2, <1>3, <2>2, <3>1 DEF SeatOk, Seating, PlanSeats
      <3>4. q.kind = "restore" /\ (y.at \in {5, 6} \/ (y.at > 6 /\ q.new # 0)) => Has(y, "capacity", 0, "X")
        BY <1>1, <1>2, <1>3, <2>2, <3>1 DEF SeatOk, Seating, PlanSeats
      <3> QED BY <1>3, <3>2, <3>3, <3>4 DEF Seating, Untouched
    <2> QED BY <1>3, <2>1, <2>2
  <1>5. Counted(y)
    BY <1>1, <1>2, <1>3 DEF SeatOk, Counted, Untouched
  <1>6. Reading(y)
    BY <1>1, <1>3 DEF SeatOk, Reading, Untouched, PlanSeats
  <1> QED BY <1>4, <1>5, <1>6 DEF SeatOk

\* Requests of the other kinds want no seat.
LEMMA OffOk ==
  ASSUME TypeOK, IInv, SInv, NEW r \in Requests, Open(r), NEW y, y.kind = request[r].kind,
         y.counted <=> request[r].counted, y.kind \notin {"create", "restore", "import", "cli"}
  PROVE  SeatOk(y)
PROOF BY SeatPlace DEF SeatOk, Seating, Counted, Reading

LEMMA PlainKeeps ==
  ASSUME TypeOK, IInv, SInv, TypeOK', NEW r \in Requests, Open(r), person' = person,
         newcomers' = newcomers, NEW y, request' = [request EXCEPT ![r] = y], Plain(r, y)
  PROVE  SInv'
PROOF
  <1>1. request'[r] = y /\ \A x \in Requests \ {r} : request'[x] = request[x]
    BY TypeParts
  <1>2. SeatOk(y)
    BY PlainOk
  <1>3. y.seen = request[r].seen /\ request[r].state \in {"idle", "open"}
    BY DEF Plain, Untouched, Open
  <1> QED BY <1>1, <1>2, <1>3, SeatsLocal

LEMMA RefuseSeats ==
  ASSUME TypeOK, IInv, SInv, TypeOK', NEW r \in Requests, person' = person,
         newcomers' = newcomers, Refuse(r)
  PROVE  SInv'
PROOF
  <1> DEFINE y == [NoRequest EXCEPT !.state = "refused"]
  <1>1. request'[r] = y /\ \A x \in Requests \ {r} : request'[x] = request[x]
    BY TypeParts DEF Refuse
  <1>2. y.state = "refused" /\ y.seen = NoRequest.seen
    BY NoRequestIs, Zenon DEF RequestRecords
  <1> HIDE DEF y
  <1> QED BY <1>1, <1>2, SeatsLocal

LEMMA NextSeats ==
  ASSUME TypeOK, IInv, SInv, TypeOK', NEW r \in Requests, Open(r), person' = person,
         newcomers' = newcomers, Next1(r), Op(r) \notin {"read", "commit", "capacity"}
  PROVE  SInv'
PROOF
  <1> DEFINE q == request[r]
             n == q.at + 1
             y == [q EXCEPT !.at = n]
  <1>1. request' = [request EXCEPT ![r] = y]
    BY DEF Next1
  <1>5. q \in RequestRecords /\ n = q.at + 1
    BY SeatPlace
  <1> HIDE DEF n
  <1>2. Untouched(q, y) /\ y.at = n /\ y.held = q.held /\ y.wrote = q.wrote
    BY <1>5, Zenon DEF RequestRecords, Untouched
  <1> HIDE DEF y
  <1>3. Plain(r, y)
    BY <1>2, <1>5 DEF Plain
  <1> QED BY <1>1, <1>3, PlainKeeps

LEMMA TakeSeats ==
  ASSUME TypeOK, IInv, SInv, TypeOK', NEW r \in Requests, Open(r), person' = person,
         newcomers' = newcomers, NEW want, Take(r, want), Op(r) \notin {"read", "commit"},
         Op(r) = "capacity" => want = <<<<"capacity", 0>>, "X">>
  PROVE  SInv'
PROOF
  <1> DEFINE q == request[r]
             n == q.at + 1
             h == q.held \cup {want}
             y == [q EXCEPT !.at = n, !.held = h]
  <1>1. request' = [request EXCEPT ![r] = y]
    BY DEF Take
  <1>5. q \in RequestRecords /\ n = q.at + 1 /\ h = q.held \cup {want}
    BY SeatPlace
  <1> HIDE DEF n, h
  <1>2. Untouched(q, y) /\ y.at = n /\ y.held = h /\ y.wrote = q.wrote
    BY <1>5, Zenon DEF RequestRecords, Untouched
  <1> HIDE DEF y
  <1>3. Plain(r, y)
    BY <1>2, <1>5 DEF Plain, Has
  <1> QED BY <1>1, <1>3, PlainKeeps

LEMMA HoldSeats ==
  ASSUME TypeOK, IInv, SInv, TypeOK', NEW r \in Requests, Open(r), person' = person,
         newcomers' = newcomers, NEW want, request' = [request EXCEPT ![r].held = @ \cup {want}]
  PROVE  SInv'
PROOF
  <1> DEFINE q == request[r]
             h == q.held \cup {want}
             y == [q EXCEPT !.held = h]
  <1>1. request' = [request EXCEPT ![r] = y]
    OBVIOUS
  <1>5. q \in RequestRecords /\ h = q.held \cup {want}
    BY SeatPlace
  <1> HIDE DEF h
  <1>2. Untouched(q, y) /\ y.at = q.at /\ y.held = h /\ y.wrote = q.wrote
    BY <1>5, Zenon DEF RequestRecords, Untouched
  <1> HIDE DEF y
  <1>3. Plain(r, y)
    BY <1>2, <1>5 DEF Plain
  <1> QED BY <1>1, <1>3, PlainKeeps

LEMMA LockSeats ==
  ASSUME TypeOK, IInv, SInv, TypeOK', NEW r \in Requests, Open(r), Lock(r) \/ LockJobs(r) \/ LockRows(r)
  PROVE  SInv'
PROOF
  <1>1. person' = person /\ newcomers' = newcomers
    BY DEF Lock, LockJobs, LockRows, RowsSame
  <1>2. CASE Lock(r)
    <2>1. Op(r) \in Advisory \cup {"queueShared"} /\ \E want \in Wants(r) : Take(r, want)
      BY <1>2 DEF Lock
    <2>2. PICK want \in Wants(r) : Take(r, want)
      BY <2>1
    <2>3. Op(r) = "capacity" => want = <<<<"capacity", 0>>, "X">>
      BY <2>1, <2>2 DEF Wants, Advisory, EventMode
    <2> QED BY <1>1, <2>1, <2>2, <2>3, TakeSeats DEF Advisory
  <1>3. CASE LockJobs(r)
    <2>1. /\ Op(r) \in {"openJobs", "allJobs", "results"}
          /\ Next1(r) \/ \E want : request' = [request EXCEPT ![r].held = @ \cup {want}]
      BY <1>3 DEF LockJobs
    <2> QED BY <1>1, <2>1, NextSeats, HoldSeats
  <1>4. CASE LockRows(r)
    <2>1. /\ Op(r) = "rows"
          /\ Next1(r) \/ \E want : request' = [request EXCEPT ![r].held = @ \cup {want}]
      BY <1>4 DEF LockRows
    <2> QED BY <1>1, <2>1, NextSeats, HoldSeats
  <1> QED BY <1>2, <1>3, <1>4

LEMMA AskSeats ==
  ASSUME TypeOK, IInv, SInv, TypeOK', NEW r \in Requests, Open(r),
         NeedEvent(r) \/ Claim(r) \/ OwnJob(r) \/ Label(r) \/ Unused(r) \/ Exists(r) \/ Empty(r)
  PROVE  SInv'
PROOF
  <1>1. person' = person /\ newcomers' = newcomers
    BY DEF NeedEvent, Claim, OwnJob, Label, Unused, Exists, Empty, RowsSame
  <1>2. CASE NeedEvent(r)
    <2>1. /\ Op(r) \in {"newJob", "insert", "add", "resize", "event"}
          /\ Next1(r) \/ Refuse(r) \/ \E want : Take(r, want)
      BY <1>2 DEF NeedEvent, EventMode
    <2> QED BY <1>1, <2>1, NextSeats, RefuseSeats, TakeSeats
  <1>3. CASE OwnJob(r)
    <2>1. Op(r) = "ownJob" /\ (Refuse(r) \/ \E want : Take(r, want))
      BY <1>3 DEF OwnJob
    <2> QED BY <1>1, <2>1, RefuseSeats, TakeSeats
  <1>4. CASE Claim(r) \/ Label(r) \/ Unused(r) \/ Exists(r) \/ Empty(r)
    <2>1. Op(r) \in {"claim", "label", "unused", "exists", "empty"} /\ (Next1(r) \/ Refuse(r))
      BY <1>4 DEF Claim, Label, Unused, Exists, Empty
    <2> QED BY <1>1, <2>1, NextSeats, RefuseSeats
  <1> QED BY <1>2, <1>3, <1>4

LEMMA TurnSeats ==
  ASSUME TypeOK, IInv, SInv, TypeOK', NEW r \in Requests, Open(r), RowsSame,
         NEW y, request' = [request EXCEPT ![r] = y], SeatOk(y),
         y.seen = request[r].seen \/ y.seen = person
  PROVE  SInv'
PROOF
  <1>1. request'[r] = y /\ \A x \in Requests \ {r} : request'[x] = request[x]
    BY TypeParts
  <1>2. request[r].state \in {"idle", "open"} /\ person' = person /\ newcomers' = newcomers
    BY DEF Open, RowsSame
  <1> QED BY <1>1, <1>2, SeatsLocal

LEMMA SkipSeats ==
  ASSUME TypeOK, IInv, SInv, TypeOK', NEW r \in Requests, Open(r), Skip(r)
  PROVE  SInv'
PROOF
  <1> DEFINE q == request[r]
             n == q.at + (IF Op(r) = "types" THEN 2 ELSE 3)
             y == [q EXCEPT !.at = n]
  <1>1. RowsSame /\ Unneeded(r) /\ request' = [request EXCEPT ![r] = y]
    BY DEF Skip
  <1>2. /\ q \in RequestRecords /\ SeatOk(q) /\ q.at \in Nat /\ q.wrote = {}
        /\ \/ q.kind = "create" /\ q.at = 1 /\ n = 3
           \/ q.kind = "restore" /\ q.at = 2 /\ n = 4
           \/ q.kind = "restore" /\ q.at = 4 /\ n = 7 /\ q.new = 0
    <2>1. /\ q \in RequestRecords /\ SeatOk(q) /\ q.at \in Nat /\ PlanJump(q.kind, q.at)
          /\ Op(r) = Plan[q.kind][q.at] /\ Writing(q)
      BY OpenPlace, SeatPlace DEF OpenGood
    <2>2. \/ Op(r) = "types" /\ q.kind \in {"create", "restore"}
          \/ Op(r) = "capacity" /\ q.kind = "restore" /\ q.new = 0
      BY <1>1 DEF Unneeded
    <2>3. q.wrote = {}
      BY <2>1, <2>2 DEF Writing
    <2>4. /\ Op(r) = "types" /\ q.kind = "create" => q.at = 1
          /\ Op(r) = "types" /\ q.kind = "restore" => q.at = 2
          /\ Op(r) = "capacity" /\ q.kind = "restore" => q.at = 4
      BY <2>1 DEF PlanJump
    <2> QED BY <2>1, <2>2, <2>3, <2>4
  <1> HIDE DEF n
  <1>3. Untouched(q, y) /\ y.at = n /\ y.held = q.held /\ y.wrote = q.wrote
    BY <1>2, Zenon DEF RequestRecords, Untouched
  <1> HIDE DEF y
  <1>4. Seating(y) /\ Counted(y)
    BY <1>2, <1>3 DEF SeatOk, Seating, Counted, Untouched
  <1>5. Reading(y)
    BY <1>2, <1>3 DEF SeatOk, Reading, Untouched
  <1> QED BY <1>1, <1>3, <1>4, <1>5, TurnSeats DEF SeatOk, Untouched

LEMMA TypesSeats ==
  ASSUME TypeOK, IInv, SInv, TypeOK', NEW r \in Requests, Open(r), Check(r) \/ Fresh(r)
  PROVE  SInv'
PROOF
  <1> DEFINE q == request[r]
             n == q.at + 1
  <1>1. /\ RowsSame /\ Op(r) \in {"check", "fresh"}
        /\ Refuse(r) \/ \E b : request' = [request EXCEPT ![r] = [q EXCEPT !.at = n, !.checked = b]]
    BY DEF Check, Fresh
  <1>2. q \in RequestRecords /\ n = q.at + 1 /\ person' = person /\ newcomers' = newcomers
    BY <1>1, SeatPlace DEF RowsSame
  <1> HIDE DEF n
  <1>3. ASSUME NEW b, request' = [request EXCEPT ![r] = [q EXCEPT !.at = n, !.checked = b]]
        PROVE  SInv'
    <2> DEFINE y == [q EXCEPT !.at = n, !.checked = b]
    <2>1. Untouched(q, y) /\ y.at = n /\ y.held = q.held /\ y.wrote = q.wrote
      BY <1>2, Zenon DEF RequestRecords, Untouched
    <2>2. request' = [request EXCEPT ![r] = y]
      BY <1>3
    <2> HIDE DEF y
    <2>3. Plain(r, y)
      BY <1>1, <1>2, <2>1 DEF Plain
    <2> QED BY <1>2, <2>2, <2>3, PlainKeeps
  <1> QED BY <1>1, <1>2, <1>3, RefuseSeats

LEMMA FileSeats ==
  ASSUME TypeOK, IInv, SInv, TypeOK', NEW r \in Requests, Open(r), FromFile(r)
  PROVE  SInv'
PROOF
  <1> DEFINE q == request[r]
  <1>1. RowsSame /\ Op(r) = "file"
    BY DEF FromFile
  <1>2. q \in RequestRecords /\ q.kind # "restore" /\ person' = person /\ newcomers' = newcomers
    BY <1>1, OpPlace DEF RowsSame, PlanPlace
  <1>3. ASSUME NEW p, NEW h, q.held \subseteq h,
               request' = [request EXCEPT ![r] = [q EXCEPT !.left = q.left \ {p},
                             !.wrote = q.wrote \cup {p}, !.held = h]]
        PROVE  SInv'
    <2> DEFINE l == q.left \ {p}
               w == q.wrote \cup {p}
               y == [q EXCEPT !.left = l, !.wrote = w, !.held = h]
    <2>1. request' = [request EXCEPT ![r] = y]
      BY <1>3
    <2> HIDE DEF l, w
    <2>2. Untouched(q, y) /\ y.at = q.at /\ y.held = h
      BY <1>2, Zenon DEF RequestRecords, Untouched
    <2> HIDE DEF y
    <2>3. Plain(r, y)
      BY <1>2, <1>3, <2>2 DEF Plain
    <2> QED BY <1>2, <2>1, <2>3, PlainKeeps
  <1>4. CASE q.left = {}
    <2>1. Next1(r)
      BY <1>4 DEF FromFile
    <2> QED BY <1>1, <1>2, <2>1, NextSeats
  <1>5. CASE q.left # {}
    <2>1. PICK p \in NextInFile(r) :
            IF There(p) THEN request' = [request EXCEPT ![r] = [q EXCEPT !.left = q.left \ {p},
                               !.wrote = q.wrote \cup {p}, !.held = q.held \cup {<<<<"person", p>>, "N">>}]]
            ELSE Refuse(r)
      BY <1>5 DEF FromFile
    <2>2. q.held \subseteq q.held \cup {<<<<"person", p>>, "N">>}
      OBVIOUS
    <2> QED BY <1>2, <1>3, <2>1, <2>2, RefuseSeats
  <1> QED BY <1>4, <1>5

\* Before the count nothing was counted.
LEMMA NotCounted ==
  ASSUME TypeOK, IInv, SInv, NEW r \in Requests, Open(r), Op(r) \in {"match", "limit", "count"}
  PROVE  LET q == request[r] IN
         /\ ~q.counted /\ Has(q, "capacity", 0, "X")
         /\ Op(r) = "match" => q.kind \in {"import", "cli"}
         /\ Op(r) = "count" => \/ q.kind = "create" /\ q.at = 5
                               \/ q.kind = "restore" /\ q.at = 6
                               \/ q.kind = "import" /\ q.at = 11
                               \/ q.kind = "cli" /\ q.at = 6
PROOF
  <1> DEFINE q == request[r]
  <1>1. SeatOk(q) /\ PlanSeats(q.kind, q.at) /\ Op(r) = Plan[q.kind][q.at] /\ q.counted \in BOOLEAN
    BY SeatPlace, RequestFields
  <1>2. CASE Op(r) = "match"
    <2>1. \/ q.kind = "import" /\ q.at = 9
          \/ q.kind = "cli" /\ q.at = 4
      BY <1>1, <1>2 DEF PlanSeats
    <2> QED BY <1>1, <1>2, <2>1 DEF SeatOk, Counted, Seating
  <1>3. CASE Op(r) = "limit"
    <2>1. \/ q.kind = "create" /\ q.at = 4
          \/ q.kind = "restore" /\ q.at = 5
          \/ q.kind = "import" /\ q.at = 10
          \/ q.kind = "cli" /\ q.at = 5
      BY <1>1, <1>3 DEF PlanSeats
    <2> QED BY <1>1, <1>3, <2>1 DEF SeatOk, Counted, Seating
  <1>4. CASE Op(r) = "count"
    <2>1. \/ q.kind = "create" /\ q.at = 5
          \/ q.kind = "restore" /\ q.at = 6
          \/ q.kind = "import" /\ q.at = 11
          \/ q.kind = "cli" /\ q.at = 6
      BY <1>1, <1>4 DEF PlanSeats
    <2> QED BY <1>1, <1>4, <2>1 DEF SeatOk, Counted, Seating
  <1> QED BY <1>2, <1>3, <1>4

\* Seats can be counted.
LEMMA SeatNumbers ==
  ASSUME TypeOK
  PROVE  /\ IsFiniteSet(Taken) /\ IsFiniteSet(Created)
         /\ Cardinality(Taken) \in Nat /\ Cardinality(Created) \in Nat
PROOF
  <1>1. IsFiniteSet(Taken)
    BY NameFacts, FS_Subset DEF Taken
  <1>2. IsFiniteSet(Created)
    <2> DEFINE m == Cardinality(People) + 1
    <2>1. m \in Nat
      BY NameFacts, FS_CardinalityType
    <2>2. IsFiniteSet(1..m)
      BY <2>1, FS_Interval
    <2>3. IsFiniteSet(Requests \X (1..m))
      BY <2>2, EventAssumption, FS_Product
    <2> QED BY <2>3, FS_Subset DEF Created
  <1> QED BY <1>1, <1>2, FS_CardinalityType

\* Under the lock it does not matter where the request is.
LEMMA SeatingUnder ==
  ASSUME NEW q, NEW y, y.held = q.held, Has(q, "capacity", 0, "X")
  PROVE  Seating(y)
PROOF BY DEF Seating, Has

LEMMA MatchSeats ==
  ASSUME TypeOK, IInv, SInv, TypeOK', NEW r \in Requests, Open(r), Match(r)
  PROVE  SInv'
PROOF
  <1> DEFINE q == request[r]
             known == {p \in q.left : Live(p)}
             n == q.at + 1
             left == IF q.key = "none" \/ q.checked THEN known ELSE {}
             new == IF q.key = "none" \/ q.checked THEN q.new + Cardinality(q.left \ known) ELSE 0
             y == [q EXCEPT !.at = n, !.left = left, !.new = new]
  <1>1. Op(r) = "match" /\ RowsSame
    BY Zenon DEF Match
  <1>2. request' = [request EXCEPT ![r] = y]
    BY DEF Match
  <1>3. q \in RequestRecords /\ ~q.counted /\ Has(q, "capacity", 0, "X") /\ q.kind \in {"import", "cli"}
    BY <1>1, SeatPlace, NotCounted
  <1> HIDE DEF n, left, new
  <1>4. y.kind = q.kind /\ y.held = q.held /\ y.counted = q.counted /\ y.seen = q.seen
    BY <1>3, Zenon DEF RequestRecords
  <1> HIDE DEF y
  <1>5. SeatOk(y)
    BY <1>3, <1>4, SeatingUnder DEF SeatOk, Counted, Reading
  <1> QED BY <1>1, <1>2, <1>4, <1>5, TurnSeats

LEMMA ReadSeats ==
  ASSUME TypeOK, IInv, SInv, TypeOK', NEW r \in Requests, Open(r), Read(r)
  PROVE  SInv'
PROOF
  <1> DEFINE q == request[r]
             n == q.at + 1
             new == IF \E p \in q.x : person[p].takes THEN 0 ELSE q.new
             y == [q EXCEPT !.at = n, !.seen = person, !.new = new]
  <1>1. Op(r) = "read" /\ RowsSame /\ person' = person /\ newcomers' = newcomers
    BY DEF Read, RowsSame
  <1>2. CASE ~\A p \in q.x : Live(p)
    <2>1. Refuse(r)
      BY <1>2 DEF Read
    <2> QED BY <1>1, <2>1, RefuseSeats
  <1>3. CASE \A p \in q.x : Live(p)
    <2>1. request' = [request EXCEPT ![r] = y]
      BY <1>3 DEF Read
    <2>2. /\ q \in RequestRecords /\ SeatOk(q) /\ q.at = 1 /\ q.kind \in {"restore", "edit", "revoke"}
          /\ q.counted \in BOOLEAN /\ q.wrote = {} /\ q.x \subseteq People /\ q.new \in Nat
      BY <1>1, SeatPlace, OpenPlace, RequestFields DEF PlanSeats, OpenGood, Writing
    <2>3. n = 2 /\ (new = 0 => (\E p \in q.x : person[p].takes) \/ q.new = 0)
      BY <2>2
    <2> HIDE DEF n, new
    <2>4. /\ y.kind = q.kind /\ y.at = n /\ y.held = q.held /\ y.counted = q.counted /\ y.seen = person
          /\ y.x = q.x /\ y.wrote = q.wrote /\ y.new = new
      BY <2>2, Zenon DEF RequestRecords
    <2> HIDE DEF y
    <2>5. Seating(y) /\ Counted(y)
      BY <2>2, <2>3, <2>4 DEF SeatOk, Seating, Counted
    <2>6. Reading(y)
      BY <2>2, <2>3, <2>4 DEF SeatOk, Reading
    <2> QED BY <1>1, <2>1, <2>4, <2>5, <2>6, TurnSeats DEF SeatOk
  <1> QED BY <1>2, <1>3

LEMMA LimitSeats ==
  ASSUME TypeOK, IInv, SInv, TypeOK', NEW r \in Requests, Open(r), Limit(r)
  PROVE  SInv'
PROOF
  <1> DEFINE q == request[r]
             n == q.at + 1
             y == [q EXCEPT !.at = n, !.limit = capacity]
  <1>1. Op(r) = "limit" /\ RowsSame /\ person' = person /\ newcomers' = newcomers
    BY DEF Limit, RowsSame
  <1>2. CASE ~event
    <2>1. Refuse(r)
      BY <1>2 DEF Limit
    <2> QED BY <1>1, <2>1, RefuseSeats
  <1>3. CASE event
    <2>1. request' = [request EXCEPT ![r] = y]
      BY <1>3 DEF Limit
    <2>2. /\ q \in RequestRecords /\ SeatOk(q) /\ ~q.counted /\ Has(q, "capacity", 0, "X")
          /\ q.at \in Nat /\ n = q.at + 1 /\ q.at >= 1
          /\ PlanSeats(q.kind, q.at) /\ Op(r) = Plan[q.kind][q.at]
      BY <1>1, SeatPlace, NotCounted
    <2>3. q.kind = "restore" => q.at > 1
      BY <1>1, <2>2 DEF PlanSeats
    <2> HIDE DEF n
    <2>4. /\ y.kind = q.kind /\ y.at = n /\ y.held = q.held /\ y.counted = q.counted /\ y.seen = q.seen
          /\ y.x = q.x /\ y.wrote = q.wrote /\ y.new = q.new
      BY <2>2, Zenon DEF RequestRecords
    <2> HIDE DEF y
    <2>5. Seating(y) /\ Counted(y)
      BY <2>2, <2>4, SeatingUnder DEF Counted
    <2>6. Reading(y)
      BY <2>2, <2>3, <2>4 DEF SeatOk, Reading
    <2> QED BY <1>1, <2>1, <2>4, <2>5, <2>6, TurnSeats DEF SeatOk
  <1> QED BY <1>2, <1>3

\* The count: there are as many seats as are wanted.
LEMMA CountSeats ==
  ASSUME TypeOK, IInv, SInv, TypeOK', NEW r \in Requests, Open(r), Count(r)
  PROVE  SInv'
PROOF
  <1> DEFINE q == request[r]
             n == q.at + 1
             taken == Cardinality(Taken) + Cardinality(Created)
             y == [q EXCEPT !.at = n, !.counted = TRUE]
  <1>1. Op(r) = "count" /\ RowsSame /\ person' = person /\ newcomers' = newcomers
    BY DEF Count, RowsSame
  <1>2. CASE Next1(r) \/ Refuse(r)
    BY <1>1, <1>2, NextSeats, RefuseSeats
  <1>3. CASE request' = [request EXCEPT ![r] = y] /\ ~(taken + q.new > q.limit)
    <2>1. /\ q \in RequestRecords /\ SeatOk(q) /\ Has(q, "capacity", 0, "X")
          /\ q.at \in Nat /\ n = q.at + 1
          /\ \/ q.kind = "create" /\ q.at = 5
             \/ q.kind = "restore" /\ q.at = 6
             \/ q.kind = "import" /\ q.at = 11
             \/ q.kind = "cli" /\ q.at = 6
          /\ taken \in Nat /\ q.new \in Nat /\ q.limit \in Nat
      <3>1. /\ q \in RequestRecords /\ SeatOk(q) /\ Has(q, "capacity", 0, "X") /\ q.at \in Nat
            /\ \/ q.kind = "create" /\ q.at = 5
               \/ q.kind = "restore" /\ q.at = 6
               \/ q.kind = "import" /\ q.at = 11
               \/ q.kind = "cli" /\ q.at = 6
        BY <1>1, SeatPlace, NotCounted
      <3>2. q.new \in Nat /\ q.limit \in Nat
        BY <3>1, RequestFields, EventAssumption
      <3> QED BY <3>1, <3>2, SeatNumbers
    <2>2. taken + q.new <= q.limit
      BY <1>3, <2>1
    <2> HIDE DEF n, taken
    <2>3. /\ y.kind = q.kind /\ y.at = n /\ y.held = q.held /\ y.counted = TRUE /\ y.seen = q.seen
          /\ y.x = q.x /\ y.wrote = q.wrote /\ y.new = q.new /\ y.limit = q.limit
      BY <2>1, Zenon DEF RequestRecords
    <2>4. request' = [request EXCEPT ![r] = y]
      BY <1>3
    <2> HIDE DEF y
    <2>5. Counted(y)
      <3>1. Has(y, "capacity", 0, "X")
        BY <2>1, <2>3 DEF Has
      <3>2. \/ y.kind = "create" /\ y.at > 5
            \/ y.kind = "restore" /\ y.at > 6
            \/ y.kind = "import" /\ y.at > 11
            \/ y.kind = "cli" /\ y.at > 6
        BY <2>1, <2>3
      <3> QED BY <2>2, <2>3, <3>1, <3>2 DEF Counted, taken
    <2>6. Seating(y)
      BY <2>1, <2>3, SeatingUnder
    <2>7. Reading(y)
      BY <2>1, <2>3 DEF SeatOk, Reading
    <2> QED BY <1>1, <2>3, <2>4, <2>5, <2>6, <2>7, TurnSeats DEF SeatOk
  <1> QED BY <1>2, <1>3 DEF Count

LEMMA OwnedSeats ==
  ASSUME TypeOK, IInv, SInv, TypeOK', NEW r \in Requests, Open(r), Owned(r)
  PROVE  SInv'
PROOF
  <1> DEFINE q == request[r]
             n == q.at + 1
             x == {p \in q.x : Live(p) /\ (q.kind = "bulkType" => person[p].type # q.key)}
             y == [q EXCEPT !.at = n, !.seen = person, !.x = x]
  <1>1. Op(r) = "owned" /\ RowsSame
    BY DEF Owned
  <1>2. request' = [request EXCEPT ![r] = y]
    BY DEF Owned
  <1>3. q \in RequestRecords /\ q.kind \in {"bulk", "bulkType"}
    BY <1>1, SeatPlace DEF PlanSeats
  <1> HIDE DEF n, x
  <1>4. y.kind = q.kind /\ y.counted = q.counted /\ y.seen = person
    BY <1>3, Zenon DEF RequestRecords
  <1> HIDE DEF y
  <1>5. SeatOk(y)
    BY <1>3, <1>4, OffOk
  <1> QED BY <1>1, <1>2, <1>4, <1>5, TurnSeats

LEMMA SetSeats ==
  ASSUME TypeOK, IInv, SInv, TypeOK', NEW r \in Requests, Open(r), Set(r)
  PROVE  SInv'
PROOF
  <1> DEFINE q == request[r]
             may(p) == CASE q.kind = "bulkType" -> Live(p) /\ person[p].type = q.seen[p].type
                         [] q.kind \in {"bulk", "erase"} -> Live(p)
                         [] q.kind = "remove" -> There(p)
             w == {p \in q.x : may(p)}
             n == IF w = {} THEN Len(Plan[q.kind]) ELSE q.at + 1
             y == [q EXCEPT !.wrote = w, !.at = n]
  <1>1. Op(r) = "set" /\ RowsSame
    BY Zenon DEF Set
  <1>2. request' = [request EXCEPT ![r] = y]
    BY DEF Set
  <1>3. q \in RequestRecords /\ q.kind \in {"bulk", "bulkType", "erase", "remove"}
    BY <1>1, OpPlace DEF PlanPlace, Erasing
  <1> HIDE DEF n, w
  <1>4. y.kind = q.kind /\ y.counted = q.counted /\ y.seen = q.seen
    BY <1>3, Zenon DEF RequestRecords
  <1> HIDE DEF y
  <1>5. SeatOk(y)
    BY <1>3, <1>4, OffOk
  <1> QED BY <1>1, <1>2, <1>4, <1>5, TurnSeats

\* A restored attendee whose row is as it was read has the seat that was read.
LEMMA UpdateSeats ==
  ASSUME TypeOK, IInv, SInv, TypeOK', NEW r \in Requests, Open(r), Update(r)
  PROVE  SInv'
PROOF
  <1> DEFINE q == request[r]
             want(p) == <<<<"person", p>>, "N">>
             n == q.at + 1
             y(p) == [q EXCEPT !.at = n, !.held = q.held \cup {want(p)}, !.wrote = {p}]
  <1>1. Op(r) = "update" /\ RowsSame /\ person' = person /\ newcomers' = newcomers
    BY DEF Update, RowsSame
  <1>2. PICK p \in q.x :
          IF Live(p) /\ person[p].by = q.seen[p].by
          THEN request' = [request EXCEPT ![r] = y(p)] ELSE Refuse(r)
    BY DEF Update
  <1>3. CASE ~(Live(p) /\ person[p].by = q.seen[p].by)
    BY <1>1, <1>2, <1>3, RefuseSeats
  <1>4. CASE Live(p) /\ person[p].by = q.seen[p].by
    <2> DEFINE w == {p}
               h == q.held \cup {want(p)}
               z == [q EXCEPT !.at = n, !.held = h, !.wrote = w]
    <2>1. request' = [request EXCEPT ![r] = z] /\ w = {p} /\ q.held \subseteq h
      BY <1>2, <1>4
    <2>2. /\ q \in RequestRecords /\ SeatOk(q) /\ q.at \in Nat /\ n = q.at + 1
          /\ q.kind = "restore" => q.at = 7
          /\ q.kind \in {"restore", "edit", "revoke"}
      <3>1. /\ q \in RequestRecords /\ SeatOk(q) /\ q.at \in Nat /\ PlanPlace(q.kind, q.at)
            /\ PlanSeats(q.kind, q.at) /\ Op(r) = Plan[q.kind][q.at]
        BY SeatPlace, OpenPlace
      <3>2. q.kind \in {"restore", "edit", "revoke"}
        BY <1>1, <3>1 DEF PlanPlace
      <3>3. q.kind = "restore" => q.at = 7
        BY <1>1, <3>1 DEF PlanSeats
      <3> QED BY <3>1, <3>2, <3>3
    <2> HIDE DEF n, w, h
    <2>3. Untouched(q, z) /\ z.at = n /\ z.held = h /\ z.wrote = w
      BY <2>2, Zenon DEF RequestRecords, Untouched
    <2> HIDE DEF z
    <2>4. Seating(z) /\ Counted(z)
      BY <2>1, <2>2, <2>3 DEF SeatOk, Seating, Counted, Untouched, Has
    <2>5. q.kind = "restore" /\ q.new = 0 => person[p].takes
      BY <1>2, <1>4, <2>2 DEF SeatOk, Reading, Live
    <2>6. Reading(z)
      BY <2>1, <2>2, <2>3, <2>5 DEF SeatOk, Reading, Untouched
    <2> QED BY <1>1, <2>1, <2>3, <2>4, <2>6, TurnSeats DEF SeatOk, Untouched
  <1> QED BY <1>3, <1>4

LEMMA RetrySeats ==
  ASSUME TypeOK, IInv, SInv, TypeOK', NEW r \in Requests, Retry(r)
  PROVE  SInv'
PROOF
  <1> DEFINE q == request[r]
             begin == Seated[q.kind].begin
             none == {}
             y == [q EXCEPT !.at = begin, !.held = none, !.checked = FALSE]
  <1>1. /\ Open(r) /\ q.kind \in DOMAIN Seated /\ q.at \in (begin + 1)..Seated[q.kind].work
        /\ RowsSame /\ request' = [request EXCEPT ![r] = y]
    BY DEF Retry
  <1>2. q \in RequestRecords /\ SeatOk(q) /\ q.counted \in BOOLEAN
    BY <1>1, SeatPlace, RequestFields
  <1>3. \/ q.kind = "create" /\ begin = 1 /\ q.at <= 4
        \/ q.kind = "restore" /\ begin = 2 /\ q.at <= 5 /\ q.at > 1
        \/ q.kind = "import" /\ begin = 5 /\ q.at <= 8
        \/ q.kind = "cli" /\ begin = 1 /\ q.at <= 4
    BY <1>1 DEF Seated
  <1> HIDE DEF begin, none
  <1>4. ~q.counted
    <2>1. q.at \in Nat
      BY <1>1, SeatPlace
    <2> QED BY <1>2, <1>3, <2>1 DEF SeatOk, Counted
  <1>5. Untouched(q, y) /\ y.at = begin /\ y.held = none /\ y.wrote = q.wrote
    BY <1>2, Zenon DEF RequestRecords, Untouched
  <1> HIDE DEF y
  <1>6. Seating(y) /\ Counted(y)
    BY <1>3, <1>4, <1>5 DEF Seating, Counted, Untouched
  <1>7. Reading(y)
    BY <1>2, <1>3, <1>5 DEF SeatOk, Reading, Untouched
  <1> QED BY <1>1, <1>5, <1>6, <1>7, TurnSeats DEF SeatOk, Untouched

LEMMA BeginSeats ==
  ASSUME TypeOK, IInv, SInv, TypeOK', NEW r \in Requests, Begin(r)
  PROVE  SInv'
PROOF
  <1> DEFINE z(kind, x, key, flag, label, limit, file, left, new) ==
               [NoRequest EXCEPT !.kind = kind, !.at = 1, !.x = x, !.key = key, !.label = label,
                  !.flag = flag, !.limit = limit, !.file = file, !.left = left,
                  !.new = new, !.state = "open"]
  <1>1. request[r].state = "idle" /\ person' = person /\ newcomers' = newcomers
    BY DEF Begin, RowsSame
  <1>2. PICK kind \in Kinds :
     \E x \in Names(kind), key \in Keys(kind),
        flag \in (IF kind \in {"create", "restore", "import", "erase"} THEN BOOLEAN ELSE {FALSE}),
        label \in (IF kind \in {"createType", "renameType"} THEN Labels ELSE {"none"}),
        limit \in (IF kind = "resize" THEN 0..MaxCapacity ELSE {0}),
        file \in (IF kind \in {"import", "cli"} THEN FileOrders ELSE {<<>>}) :
       request' = [request EXCEPT ![r] = z(kind, x, key, flag, label, limit, file, DOMAIN file,
                     IF kind \in DOMAIN Seated THEN 1 ELSE 0)]
    BY Zenon DEF Begin
  <1>2a. PICK x \in Names(kind), key \in Keys(kind),
        flag \in (IF kind \in {"create", "restore", "import", "erase"} THEN BOOLEAN ELSE {FALSE}),
        label \in (IF kind \in {"createType", "renameType"} THEN Labels ELSE {"none"}),
        limit \in (IF kind = "resize" THEN 0..MaxCapacity ELSE {0}),
        file \in (IF kind \in {"import", "cli"} THEN FileOrders ELSE {<<>>}) :
       request' = [request EXCEPT ![r] = z(kind, x, key, flag, label, limit, file, DOMAIN file,
                     IF kind \in DOMAIN Seated THEN 1 ELSE 0)]
    BY <1>2
  <1> DEFINE left == DOMAIN file
             new == IF kind \in DOMAIN Seated THEN 1 ELSE 0
             y == [NoRequest EXCEPT !.kind = kind, !.at = 1, !.x = x, !.key = key, !.label = label,
                     !.flag = flag, !.limit = limit, !.file = file, !.left = left,
                     !.new = new, !.state = "open"]
  <1>3. request' = [request EXCEPT ![r] = y]
    BY <1>2a
  <1>3a. kind = "restore" => new = 1
    BY DEF Seated
  <1> HIDE DEF left, new
  <1>4. /\ y.kind = kind /\ y.at = 1 /\ y.x = x /\ y.new = new /\ y.held = NoRequest.held
        /\ y.wrote = NoRequest.wrote /\ y.counted = NoRequest.counted /\ y.seen = NoRequest.seen
    BY NoRequestIs, Zenon DEF RequestRecords
  <1> HIDE DEF y
  <1>5. NoRequest.counted = FALSE /\ NoRequest.wrote = {}
    BY DEF NoRequest
  <1>6. Seating(y) /\ Counted(y)
    BY <1>4, <1>5 DEF Seating, Counted
  <1>7. Reading(y)
    BY <1>3a, <1>4, <1>5 DEF Reading, Names
  <1>8. request'[r] = y /\ \A q \in Requests \ {r} : request'[q] = request[q]
    BY <1>3, TypeParts
  <1> QED BY <1>1, <1>4, <1>6, <1>7, <1>8, SeatsLocal DEF SeatOk

\* A commit takes no seat from a request that has the capacity locked.
LEMMA NoSeatTaken ==
  ASSUME TypeOK, IInv, SInv, NEW r \in Requests, Open(r), Commit(r),
         ~Has(request[r], "capacity", 0, "X")
  PROVE  Taken' \subseteq Taken /\ newcomers' = newcomers
PROOF
  <1> DEFINE c == request[r]
  <1>1. /\ c \in RequestRecords /\ OpenGood(r, c) /\ SeatOk(c) /\ c.at \in Nat
        /\ c.kind \in DOMAIN Plan /\ Len(Plan[c.kind]) \in 1..14
    BY CommitPlace, SeatPlace
  <1>2. /\ c.kind \notin {"create", "import", "cli"} \/ c.at # Len(Plan[c.kind])
        /\ c.kind = "restore" => c.new = 0
    <2>1. /\ c.kind = "create" => Len(Plan[c.kind]) = 7
          /\ c.kind = "import" => Len(Plan[c.kind]) = 14
          /\ c.kind = "cli" => Len(Plan[c.kind]) = 9
          /\ c.kind = "restore" => Len(Plan[c.kind]) = 8
      BY DEF Plan, Create, Import, Importer, Restore
    <2>2. c.at = Len(Plan[c.kind]) \/ c.kind = "import"
      BY CommitPlace
    <2>3. c.kind = "restore" => c.at = 8
      BY <2>1, <2>2
    <2>4. c.kind = "restore" => c.new = 0
      BY <1>1, <2>3 DEF SeatOk, Seating
    <2>5. c.kind \in {"create", "import", "cli"} => c.at # Len(Plan[c.kind])
      <3>1. /\ c.kind \in {"create", "cli"} => ~(c.at > 3)
            /\ c.kind = "import" => ~(c.at > 7)
        BY <1>1 DEF SeatOk, Seating
      <3>2. c.kind = "create" => c.at # 7
        BY <3>1
      <3>3. c.kind = "import" => c.at # 14
        BY <3>1
      <3>4. c.kind = "cli" => c.at # 9
        BY <3>1
      <3> QED BY <2>1, <3>2, <3>3, <3>4
    <2> QED BY <2>4, <2>5
  <1>3. newcomers' = newcomers
    <2>1. newcomers' = [newcomers EXCEPT ![r] =
            IF Creates(r) THEN [n |-> c.new, type |-> c.key] ELSE newcomers[r]]
      BY DEF Commit
    <2>2. ~Creates(r)
      BY <1>2 DEF Creates
    <2> QED BY <2>1, <2>2, TypeParts
  <1>4. ASSUME NEW p \in People, person'[p].there, person'[p].takes
        PROVE  There(p) /\ person[p].takes
    <2>1. /\ There(p) /\ (p \notin c.wrote => person'[p] = person[p])
          /\ c.kind # "restore" => person[p].takes
      BY <1>4, CommitParts
    <2>2. CASE p \in c.wrote /\ c.kind = "restore"
      BY <1>1, <1>2, <2>1, <2>2 DEF SeatOk, Reading
    <2> QED BY <1>4, <2>1, <2>2
  <1> QED BY <1>3, <1>4 DEF Taken, There

LEMMA CommitSeats ==
  ASSUME TypeOK, IInv, SInv, TypeOK', IInv', NEW r \in Requests, Open(r), Commit(r)
  PROVE  SInv'
PROOF
  <1>1. PICK c : c = request[r]
    OBVIOUS
  <1>2. PICK y : y = request'[r]
    OBVIOUS
  <1>3. /\ c \in RequestRecords /\ OpenGood(r, c) /\ SeatOk(c) /\ c.state = "open"
        /\ c.at # Len(Plan[c.kind]) => c.kind = "import" /\ c.at = 3 /\ c.wrote = {}
    BY <1>1, CommitPlace, SeatPlace DEF Open
  <1>4. /\ \A x \in Requests \ {r} : request'[x] = request[x]
        /\ y = IF c.at = Len(Plan[c.kind]) THEN [NoRequest EXCEPT !.state = "ok"]
               ELSE [c EXCEPT !.at = c.at + 1, !.held = {}]
    BY <1>1, <1>2, TypeParts DEF Commit
  <1>5. /\ \/ y.state = "ok" /\ y.seen = NoRequest.seen
           \/ /\ y.state = "open" /\ y.seen = c.seen /\ y.kind = "import" /\ y.at = 4
              /\ y.counted = c.counted /\ c.at = 3 /\ c.kind = "import" /\ c.wrote = {}
    <2>1. CASE c.at = Len(Plan[c.kind])
      <3>1. y = [NoRequest EXCEPT !.state = "ok"]
        BY <1>4, <2>1
      <3>2. y.state = "ok" /\ y.seen = NoRequest.seen
        BY <3>1, NoRequestIs, Zenon DEF RequestRecords
      <3> QED BY <3>2
    <2>2. CASE c.at # Len(Plan[c.kind])
      <3> DEFINE n == c.at + 1
                 none == {}
      <3>1. y = [c EXCEPT !.at = n, !.held = none] /\ n = 4
        BY <1>3, <1>4, <2>2
      <3> HIDE DEF n, none
      <3>2. y.state = c.state /\ y.seen = c.seen /\ y.kind = c.kind /\ y.at = n /\ y.counted = c.counted
        BY <1>3, <3>1, Zenon DEF RequestRecords
      <3> QED BY <1>3, <2>2, <3>1, <3>2
    <2> QED BY <2>1, <2>2
  <1>6. \A p \in People : /\ p \notin c.wrote => person'[p] = person[p]
                          /\ person'[p].there => There(p)
                          /\ p \in c.wrote => person'[p] = NoPerson \/ person'[p].by = r
    BY <1>1, CommitParts
  <1>7. \A x \in Requests, p \in People : request[x].seen[p].by # r /\ person[p].by # r
    BY <1>1, <1>3 DEF SInv, Unseen
  <1>8. ASSUME NEW x \in Requests \ {r}, Open(x), NEW q, q = request[x]
        PROVE  SeatOk(q)'
    <2>1. /\ SeatOk(q) /\ q \in RequestRecords /\ OpenGood(x, q)
          /\ q.x \subseteq People /\ q.wrote \subseteq People /\ q.new \in Nat /\ q.limit \in Nat
          /\ q.counted \in BOOLEAN
      BY <1>8, SeatPlace, OpenPlace, RequestFields, EventAssumption
    <2>2. Seating(q)'
      BY <2>1 DEF SeatOk, Seating, Has
    <2>3. Counted(q)'
      <3>1. CASE ~q.counted
        BY <3>1 DEF Counted
      <3>2. CASE q.counted
        <4>1. /\ Has(q, "capacity", 0, "X")
              /\ Cardinality(Taken) + Cardinality(Created) + q.new <= q.limit
              /\ \/ q.kind = "create" /\ q.at > 5
                 \/ q.kind = "restore" /\ q.at > 6
                 \/ q.kind = "import" /\ q.at > 11
                 \/ q.kind = "cli" /\ q.at > 6
          BY <2>1, <3>2 DEF SeatOk, Counted
        <4>2. ~Has(c, "capacity", 0, "X")
          BY <1>1, <1>8, <4>1, Clash DEF Advisory
        <4>3. Taken' \subseteq Taken /\ Created' = Created
          BY <1>1, <4>2, NoSeatTaken DEF Created
        <4>4. /\ Cardinality(Taken)' <= Cardinality(Taken) /\ Cardinality(Taken)' \in Nat
              /\ Cardinality(Taken) \in Nat /\ Cardinality(Created) \in Nat
          <5>1. IsFiniteSet(Taken) /\ Cardinality(Taken) \in Nat /\ Cardinality(Created) \in Nat
            BY SeatNumbers
          <5>2. Cardinality(Taken') <= Cardinality(Taken) /\ IsFiniteSet(Taken')
            BY <4>3, <5>1, FS_Subset
          <5> QED BY <5>1, <5>2, FS_CardinalityType
        <4>5. Cardinality(Taken)' + Cardinality(Created)' + q.new <= q.limit
          BY <2>1, <4>1, <4>3, <4>4
        <4> QED BY <4>1, <4>5 DEF Counted, Has
      <3> QED BY <2>1, <3>1, <3>2
    <2>4. Reading(q)'
      <3>1. \A p \in q.wrote : person'[p] = person[p]
        <4>1. \A p \in c.wrote : HasPerson(c, p)
          BY <1>3 DEF OpenGood, Writing
        <4>2. \A p \in q.wrote : HasPerson(q, p)
          BY <2>1 DEF OpenGood, Writing
        <4>3. \A p \in People : ~(HasPerson(c, p) /\ HasPerson(q, p))
          BY <1>1, <1>8, Clash
        <4> QED BY <1>6, <2>1, <4>1, <4>2, <4>3
      <3>2. ASSUME q.kind = "restore", q.at > 1, NEW p \in q.x, person'[p].there,
                   person'[p].by = q.seen[p].by
            PROVE  person'[p].takes = q.seen[p].takes
        <4>1. p \in People /\ q.seen[p].by # r /\ There(p)
          BY <1>6, <1>7, <1>8, <2>1, <3>2
        <4>2. person'[p] = person[p]
          BY <1>6, <3>2, <4>1, NoPersonIs
        <4> QED BY <2>1, <3>2, <4>1, <4>2 DEF SeatOk, Reading
      <3> QED BY <2>1, <3>1, <3>2 DEF SeatOk, Reading, There
    <2> QED BY <2>2, <2>3, <2>4 DEF SeatOk
  <1>9. SeatsGood'
    <2>1. ASSUME NEW x \in Requests, Open(x)'
          PROVE  SeatOk(request[x])'
      <3>1. PICK q : q = request'[x]
        OBVIOUS
      <3>2. CASE x # r
        <4>1. q = request[x] /\ Open(x)
          BY <1>4, <2>1, <3>1, <3>2 DEF Open
        <4>2. SeatOk(q)'
          BY <1>8, <3>2, <4>1
        <4> QED BY <3>1, <4>2, SeatByName
      <3>3. CASE x = r
        <4>1. q = y /\ y.kind = "import" /\ y.at = 4 /\ y.counted = c.counted /\ c.at = 3 /\ c.kind = "import"
          BY <1>2, <1>5, <2>1, <3>1, <3>3 DEF Open
        <4>2. ~q.counted
          BY <1>3, <4>1 DEF SeatOk, Counted
        <4>3. SeatOk(q)'
          BY <4>1, <4>2 DEF SeatOk, Seating, Counted, Reading
        <4> QED BY <3>1, <4>3, SeatByName
      <3> QED BY <3>2, <3>3
    <2> QED BY <2>1 DEF SeatsGood
  <1>10. Unseen'
    <2>1. ASSUME NEW x \in Requests, NEW p \in People, request'[x].state \in {"idle", "open"},
                 NEW z \in Requests
          PROVE  person'[p].by # x /\ request'[z].seen[p].by # x
      <3>1. request[x].state \in {"idle", "open"} /\ (x = r => c.wrote = {})
        BY <1>1, <1>2, <1>3, <1>4, <1>5, <2>1
      <3>2. person[p].by # x /\ \A w \in Requests : request[w].seen[p].by # x
        BY <2>1, <3>1 DEF SInv, Unseen
      <3>3. NoRequest.seen[p].by # x /\ NoPerson.by # x
        BY NameFacts DEF NoRequest, NoPerson
      <3>4. person'[p].by # x
        BY <1>6, <3>1, <3>2, <3>3
      <3>5. request'[z].seen[p].by # x
        <4>1. CASE z = r
          <5>1. request'[z] = y /\ (y.seen = NoRequest.seen \/ y.seen = c.seen)
            BY <1>2, <1>5, <4>1
          <5>2. c.seen[p].by # x
            BY <1>1, <3>2
          <5> QED BY <3>3, <5>1, <5>2
        <4>2. CASE z # r
          <5>1. request'[z] = request[z]
            BY <1>4, <2>1, <4>2
          <5> QED BY <2>1, <3>2, <5>1
        <4> QED BY <4>1, <4>2
      <3> QED BY <3>4, <3>5
    <2> QED BY <2>1 DEF Unseen
  <1> QED BY <1>9, <1>10 DEF SInv

LEMMA SeatsInit == Init => SInv
PROOF
  <1> SUFFICES ASSUME Init
               PROVE  SInv
    OBVIOUS
  <1>1. \A r \in Requests : request[r] = NoRequest
    BY DEF Init
  <1>2. NoRequest.state = "idle" /\ \A p \in People : NoRequest.seen[p] = NoPerson /\ NoPerson.by = "before"
    BY DEF NoRequest, NoPerson
  <1>3. \A p \in People : person[p].by = "before"
    <2>1. SUFFICES ASSUME NEW p \in People  PROVE person[p].by = "before"
      OBVIOUS
    <2>2. NoPerson \in PersonRow /\ NoPerson.by = "before"
      BY NoPersonIs DEF NoPerson
    <2>3. person[p] = NoPerson
          \/ \E b \in BOOLEAN :
               person[p] = [NoPerson EXCEPT !.there = TRUE, !.named = TRUE, !.takes = b]
      BY DEF Init
    <2>4. ASSUME NEW b \in BOOLEAN
          PROVE  [NoPerson EXCEPT !.there = TRUE, !.named = TRUE, !.takes = b].by = "before"
      BY <2>2, Zenon DEF PersonRow
    <2> QED BY <2>2, <2>3, <2>4
  <1> QED BY <1>1, <1>2, <1>3, NameFacts DEF SInv, SeatsGood, Unseen, Open

LEMMA SeatsStep == TypeOK /\ IInv /\ SInv /\ TypeOK' /\ IInv' /\ [Next]_vars => SInv'
PROOF
  <1> SUFFICES ASSUME TypeOK, IInv, SInv, TypeOK', IInv', [Next]_vars
               PROVE  SInv'
    OBVIOUS
  <1>1. CASE UNCHANGED vars
    <2>1. SeatsGood'
      <3>1. ASSUME NEW x \in Requests, Open(x)'
            PROVE  SeatOk(request[x])'
        <4>1. PICK q : q = request'[x]
          OBVIOUS
        <4>2. SeatOk(q) /\ person' = person /\ newcomers' = newcomers
          BY <1>1, <3>1, <4>1 DEF vars, Open, SInv, SeatsGood
        <4>3. SeatOk(q)'
          BY <4>2, SeatStays
        <4> QED BY <4>1, <4>3, SeatByName
      <3> QED BY <3>1 DEF SeatsGood
    <2>2. Unseen'
      BY <1>1 DEF vars, SInv, Unseen
    <2> QED BY <2>1, <2>2 DEF SInv
  <1>2. ASSUME NEW r \in Requests, Open(r), Step(r)
        PROVE  SInv'
    <2>1. CASE Lock(r) \/ LockJobs(r) \/ LockRows(r)
      BY <1>2, <2>1, LockSeats
    <2>2. CASE NeedEvent(r) \/ Claim(r) \/ OwnJob(r) \/ Label(r) \/ Unused(r) \/ Exists(r) \/ Empty(r)
      BY <1>2, <2>2, AskSeats
    <2>3. CASE Skip(r) \/ Check(r) \/ Fresh(r) \/ FromFile(r) \/ Match(r) \/ Read(r)
      BY <1>2, <2>3, SkipSeats, TypesSeats, FileSeats, MatchSeats, ReadSeats
    <2>4. CASE Limit(r) \/ Count(r) \/ Owned(r) \/ Set(r) \/ Update(r) \/ Commit(r)
      BY <1>2, <2>4, LimitSeats, CountSeats, OwnedSeats, SetSeats, UpdateSeats, CommitSeats
    <2> QED BY <1>2, <2>1, <2>2, <2>3, <2>4 DEF Step
  <1>3. ASSUME NEW r \in Requests, Begin(r) \/ Step(r) \/ Retry(r) \/ Abort(r)
        PROVE  SInv'
    <2>1. CASE Begin(r)
      BY <2>1, BeginSeats
    <2>2. CASE Step(r)
      BY <1>2, <2>2 DEF Step
    <2>3. CASE Retry(r)
      BY <2>3, RetrySeats
    <2>4. CASE Abort(r)
      BY <2>4, RefuseSeats DEF Abort, RowsSame
    <2> QED BY <1>3, <2>1, <2>2, <2>3, <2>4
  <1> QED BY <1>1, <1>3 DEF Next

\* From the moment seats are counted until the request that counted them commits, nobody
\* else takes one (event-capacity.ts, acquireEventCapacityLock), for any capacity and any
\* number of requests and attendees.
THEOREM NeverOverfilled == Spec => []NoOverfill
PROOF
  <1>1. SInv => NoOverfill
    BY DEF SInv, SeatsGood, SeatOk, Counted, NoOverfill
  <1> QED BY <1>1, Invariant, SeatsInit, SeatsStep, PTL DEF Spec
-----------------------------------------------------------------------------
(* But for the order of files, everybody locks in one order: the inductive *)
(* invariant of OnlyFilesMakeCycles.                                       *)

\* The order: the settings of the event, its queue, jobs, types, the capacity, the
\* event's row, people.
Rank == [scoped |-> 1, queue |-> 2, job |-> 4, types |-> 5, capacity |-> 6, event |-> 7, person |-> 8]

\* The highest rank of a lock that may be held at each statement.
Reach == [create     |-> <<0, 5, 5, 6, 6, 6, 7>>,
          restore    |-> <<0, 0, 5, 5, 6, 6, 6, 8>>,
          edit       |-> <<0, 0, 5, 5, 8>>,
          revoke     |-> <<0, 0, 8>>,
          bulk       |-> <<0, 8, 8, 8>>,
          bulkType   |-> <<0, 5, 5, 8, 8, 8>>,
          import     |-> <<0, 2, 7, 0, 0, 4, 5, 6, 6, 6, 6, 6, 8, 8>>,
          cli        |-> <<0, 5, 5, 6, 6, 6, 6, 8, 8>>,
          erase      |-> <<0, 4, 8, 8, 8, 8>>,
          remove     |-> <<0, 4, 8, 8, 8, 8>>,
          createType |-> <<0, 5, 5, 7>>,
          renameType |-> <<0, 5, 5>>,
          deleteType |-> <<0, 5, 5>>,
          resize     |-> <<0, 7>>,
          settings   |-> <<0, 1, 1>>,
          delete     |-> <<0, 1, 4, 4, 7, 7, 7>>]

\* The locks of people come by id: those held before those still to take.
ById(q, wanted) == \A p \in People, c \in wanted : HasPerson(q, p) => p < c

\* What an open request holds is within its reach.  Jobs are locked by an erasure and by the
\* deletion of the event, which hold the queue, and by the import whose job it is.
Climbs(r, q) ==
  /\ \A want \in q.held :
       /\ Rank[want[1][1]] <= Reach[q.kind][q.at]
       /\ want[1][1] = "job" => \/ q.kind \in Erasing \cup {"delete"}
                                \/ q.kind = "import" /\ want[1][2] = r /\ q.at > 5
  /\ q.kind = "delete" /\ q.at > 2 => Has(q, "queue", 0, "X")
  /\ q.kind = "delete" /\ q.at > 3 => \A j \in Requests : job[j] # "none" => Has(q, "job", j, "X")
  /\ Plan[q.kind][q.at] = "rows" => ById(q, {p \in q.x : There(p) /\ ~HasPerson(q, p)})

Climbing == \A r \in Requests : Open(r) => Climbs(r, request[r])

\* How far up what a request waits for is; its own job, before it holds anything, is below
\* the jobs of others.
Level(r, want) ==
  CASE want[1][1] = "person" -> 8 + want[1][2]
    [] want[1][1] = "job" /\ Op(r) \in {"claim", "ownJob"} -> 3
    [] OTHER -> Rank[want[1][1]]


\* The statements that need the event.
EventOps == {"newJob", "insert", "add", "resize", "event"}

\* A statement waits for what is above all that is held.
PlanClimb(kind, at) ==
  LET s == Plan[kind][at]
      reach == Reach[kind][at]
  IN /\ reach \in 0..8
     /\ s \in Advisory => reach < Rank[s]
     /\ s = "queueShared" => reach < 2
     /\ s \in EventOps => reach < 7
     /\ s \in {"claim", "ownJob"} => reach = 0 /\ kind = "import"
     /\ s \in {"openJobs", "results"} => kind \in Erasing /\ at > 1 /\ 4 <= reach
     /\ s = "openJobs" => reach = 4
     /\ s = "allJobs" => kind = "delete" /\ 4 <= reach /\ (reach = 4 \/ at > 3)
     /\ s = "ownJob" => at = 5
     /\ s = "update" => reach < 8
     /\ s \in {"rows", "file"} => reach = 8
     /\ s = "rows" => kind \in {"bulk", "bulkType", "erase", "remove"}
     /\ s = "file" => kind \in {"import", "cli"}
     /\ kind = "delete" /\ at = 2 => s = "queue"
     /\ kind = "delete" /\ at = 3 => s = "allJobs"
     /\ kind \in Erasing /\ 4 <= reach => at > 1
     /\ kind = "delete" /\ 4 <= reach => at > 2
     /\ kind = "import" /\ 4 <= reach => s = "commit" \/ at > 5
     /\ s = "set" => Reach[kind][Len(Plan[kind])] = 8
     /\ s = "types" /\ kind \in {"create", "restore"} => reach = 0 /\ Reach[kind][at + 2] \in Nat
     /\ s = "capacity" /\ kind = "restore" => reach = 5 /\ Reach[kind][at + 3] = 6

\* What it takes is within the reach of the next one.
PlanClimbStep(kind, at) ==
  LET s == Plan[kind][at]
      next == Plan[kind][at + 1]
      reach == Reach[kind][at]
      above == Reach[kind][at + 1]
  IN /\ above \in Nat
     /\ s # "commit" => reach <= above
     /\ s \in Advisory => Rank[s] <= above
     /\ s = "queueShared" => 2 <= above
     /\ s \in EventOps => 7 <= above
     /\ s = "ownJob" => 4 <= above
     /\ s = "update" => 8 <= above
     /\ next = "rows" => reach < 8 /\ s # "update"
     /\ s = "commit" => above = 0 /\ next # "rows" /\ kind = "import"

LEMMA RankIs ==
  /\ Rank["scoped"] = 1 /\ Rank["queue"] = 2 /\ Rank["job"] = 4 /\ Rank["types"] = 5
  /\ Rank["capacity"] = 6 /\ Rank["event"] = 7 /\ Rank["person"] = 8
PROOF BY DEF Rank

\* So it is in every plan.
LEMMA PlanClimbs ==
  ASSUME NEW kind \in DOMAIN Plan, NEW at \in Nat, at >= 1, at <= Len(Plan[kind])
  PROVE  PlanClimb(kind, at) /\ (at < Len(Plan[kind]) => PlanClimbStep(kind, at))
PROOF
  <1> USE RankIs DEF Advisory, EventOps, Erasing
  <1>1. CASE kind = "create"
    <2>1. Plan[kind] = Create /\ Len(Create) = 7 /\ kind = "create"
      BY <1>1 DEF Plan, Create
    <2>2. PlanClimb(kind, at)
      BY <2>1 DEF Create, PlanClimb, Reach
    <2>3. at < Len(Plan[kind]) => PlanClimbStep(kind, at)
      BY <2>1 DEF Create, PlanClimbStep, Reach
    <2> QED BY <2>2, <2>3
  <1>2. CASE kind = "restore"
    <2>1. Plan[kind] = Restore /\ Len(Restore) = 8 /\ kind = "restore"
      BY <1>2 DEF Plan, Restore
    <2>2. PlanClimb(kind, at)
      BY <2>1 DEF Restore, PlanClimb, Reach
    <2>3. at < Len(Plan[kind]) => PlanClimbStep(kind, at)
      BY <2>1 DEF Restore, PlanClimbStep, Reach
    <2> QED BY <2>2, <2>3
  <1>3. CASE kind = "edit"
    <2>1. Plan[kind] = Edit /\ Len(Edit) = 5 /\ kind = "edit"
      BY <1>3 DEF Plan, Edit
    <2>2. PlanClimb(kind, at)
      BY <2>1 DEF Edit, PlanClimb, Reach
    <2>3. at < Len(Plan[kind]) => PlanClimbStep(kind, at)
      BY <2>1 DEF Edit, PlanClimbStep, Reach
    <2> QED BY <2>2, <2>3
  <1>4. CASE kind = "revoke"
    <2>1. Plan[kind] = Revoke /\ Len(Revoke) = 3 /\ kind = "revoke"
      BY <1>4 DEF Plan, Revoke
    <2>2. PlanClimb(kind, at)
      BY <2>1 DEF Revoke, PlanClimb, Reach
    <2>3. at < Len(Plan[kind]) => PlanClimbStep(kind, at)
      BY <2>1 DEF Revoke, PlanClimbStep, Reach
    <2> QED BY <2>2, <2>3
  <1>5. CASE kind = "bulk"
    <2>1. Plan[kind] = Bulk /\ Len(Bulk) = 4 /\ kind = "bulk"
      BY <1>5 DEF Plan, Bulk
    <2>2. PlanClimb(kind, at)
      BY <2>1 DEF Bulk, PlanClimb, Reach
    <2>3. at < Len(Plan[kind]) => PlanClimbStep(kind, at)
      BY <2>1 DEF Bulk, PlanClimbStep, Reach
    <2> QED BY <2>2, <2>3
  <1>6. CASE kind = "bulkType"
    <2>1. Plan[kind] = BulkType /\ Len(BulkType) = 6 /\ kind = "bulkType"
      BY <1>6 DEF Plan, BulkType
    <2>2. PlanClimb(kind, at)
      BY <2>1 DEF BulkType, PlanClimb, Reach
    <2>3. at < Len(Plan[kind]) => PlanClimbStep(kind, at)
      BY <2>1 DEF BulkType, PlanClimbStep, Reach
    <2> QED BY <2>2, <2>3
  <1>7. CASE kind = "import"
    <2>1. Plan[kind] = Import /\ Len(Import) = 14 /\ kind = "import"
      BY <1>7 DEF Plan, Import
    <2>2. PlanClimb(kind, at)
      BY <2>1 DEF Import, PlanClimb, Reach
    <2>3. at < Len(Plan[kind]) => PlanClimbStep(kind, at)
      BY <2>1 DEF Import, PlanClimbStep, Reach
    <2> QED BY <2>2, <2>3
  <1>8. CASE kind = "cli"
    <2>1. Plan[kind] = Importer /\ Len(Importer) = 9 /\ kind = "cli"
      BY <1>8 DEF Plan, Importer
    <2>2. PlanClimb(kind, at)
      BY <2>1 DEF Importer, PlanClimb, Reach
    <2>3. at < Len(Plan[kind]) => PlanClimbStep(kind, at)
      BY <2>1 DEF Importer, PlanClimbStep, Reach
    <2> QED BY <2>2, <2>3
  <1>9. CASE kind = "erase"
    <2>1. Plan[kind] = Erase /\ Len(Erase) = 6 /\ kind = "erase"
      BY <1>9 DEF Plan, Erase
    <2>2. PlanClimb(kind, at)
      BY <2>1 DEF Erase, PlanClimb, Reach
    <2>3. at < Len(Plan[kind]) => PlanClimbStep(kind, at)
      BY <2>1 DEF Erase, PlanClimbStep, Reach
    <2> QED BY <2>2, <2>3
  <1>10. CASE kind = "remove"
    <2>1. Plan[kind] = Erase /\ Len(Erase) = 6 /\ kind = "remove"
      BY <1>10 DEF Plan, Erase
    <2>2. PlanClimb(kind, at)
      BY <2>1 DEF Erase, PlanClimb, Reach
    <2>3. at < Len(Plan[kind]) => PlanClimbStep(kind, at)
      BY <2>1 DEF Erase, PlanClimbStep, Reach
    <2> QED BY <2>2, <2>3
  <1>11. CASE kind = "createType"
    <2>1. Plan[kind] = CreateType /\ Len(CreateType) = 4 /\ kind = "createType"
      BY <1>11 DEF Plan, CreateType
    <2>2. PlanClimb(kind, at)
      BY <2>1 DEF CreateType, PlanClimb, Reach
    <2>3. at < Len(Plan[kind]) => PlanClimbStep(kind, at)
      BY <2>1 DEF CreateType, PlanClimbStep, Reach
    <2> QED BY <2>2, <2>3
  <1>12. CASE kind = "renameType"
    <2>1. Plan[kind] = RenameType /\ Len(RenameType) = 3 /\ kind = "renameType"
      BY <1>12 DEF Plan, RenameType
    <2>2. PlanClimb(kind, at)
      BY <2>1 DEF RenameType, PlanClimb, Reach
    <2>3. at < Len(Plan[kind]) => PlanClimbStep(kind, at)
      BY <2>1 DEF RenameType, PlanClimbStep, Reach
    <2> QED BY <2>2, <2>3
  <1>13. CASE kind = "deleteType"
    <2>1. Plan[kind] = DeleteType /\ Len(DeleteType) = 3 /\ kind = "deleteType"
      BY <1>13 DEF Plan, DeleteType
    <2>2. PlanClimb(kind, at)
      BY <2>1 DEF DeleteType, PlanClimb, Reach
    <2>3. at < Len(Plan[kind]) => PlanClimbStep(kind, at)
      BY <2>1 DEF DeleteType, PlanClimbStep, Reach
    <2> QED BY <2>2, <2>3
  <1>14. CASE kind = "resize"
    <2>1. Plan[kind] = Resize /\ Len(Resize) = 2 /\ kind = "resize"
      BY <1>14 DEF Plan, Resize
    <2>2. PlanClimb(kind, at)
      BY <2>1 DEF Resize, PlanClimb, Reach
    <2>3. at < Len(Plan[kind]) => PlanClimbStep(kind, at)
      BY <2>1 DEF Resize, PlanClimbStep, Reach
    <2> QED BY <2>2, <2>3
  <1>15. CASE kind = "settings"
    <2>1. Plan[kind] = Settings /\ Len(Settings) = 3 /\ kind = "settings"
      BY <1>15 DEF Plan, Settings
    <2>2. PlanClimb(kind, at)
      BY <2>1 DEF Settings, PlanClimb, Reach
    <2>3. at < Len(Plan[kind]) => PlanClimbStep(kind, at)
      BY <2>1 DEF Settings, PlanClimbStep, Reach
    <2> QED BY <2>2, <2>3
  <1>16. CASE kind = "delete"
    <2>1. Plan[kind] = Delete /\ Len(Delete) = 7 /\ kind = "delete"
      BY <1>16 DEF Plan, Delete
    <2>2. PlanClimb(kind, at)
      BY <2>1 DEF Delete, PlanClimb, Reach
    <2>3. at < Len(Plan[kind]) => PlanClimbStep(kind, at)
      BY <2>1 DEF Delete, PlanClimbStep, Reach
    <2> QED BY <2>2, <2>3
  <1>17. kind \in {"create", "restore", "edit", "revoke", "bulk", "bulkType", "import", "cli", "erase",
                   "remove", "createType", "renameType", "deleteType", "resize", "settings", "delete"}
    BY DEF Plan
  <1> QED BY <1>1, <1>2, <1>3, <1>4, <1>5, <1>6, <1>7, <1>8, <1>9, <1>10, <1>11, <1>12, <1>13, <1>14,
             <1>15, <1>16, <1>17

\* Where an open request is, and what it holds.
LEMMA ClimbPlace ==
  ASSUME TypeOK, IInv, Climbing, NEW r \in Requests, Open(r)
  PROVE  LET q == request[r] IN
         /\ q \in RequestRecords /\ Climbs(r, q) /\ OpenGood(r, q) /\ q.kind \in DOMAIN Plan
         /\ q.at \in Nat /\ q.at >= 1 /\ q.at <= Len(Plan[q.kind]) /\ Len(Plan[q.kind]) \in 1..14
         /\ PlanClimb(q.kind, q.at) /\ (q.at < Len(Plan[q.kind]) => PlanClimbStep(q.kind, q.at))
         /\ Op(r) = Plan[q.kind][q.at]
         /\ Op(r) # "commit" => q.at < Len(Plan[q.kind]) /\ PlanClimbStep(q.kind, q.at)
PROOF
  <1> DEFINE q == request[r]
  <1>1. /\ q \in RequestRecords /\ OpenGood(r, q) /\ q.kind \in DOMAIN Plan /\ Len(Plan[q.kind]) \in 1..14
        /\ q.at \in Nat /\ q.at >= 1 /\ q.at <= Len(Plan[q.kind]) /\ Op(r) = Plan[q.kind][q.at]
        /\ PlanPlace(q.kind, q.at)
    BY OpenPlace
  <1>2. Climbs(r, q)
    BY DEF Climbing
  <1>3. PlanClimb(q.kind, q.at) /\ (q.at < Len(Plan[q.kind]) => PlanClimbStep(q.kind, q.at))
    BY <1>1, PlanClimbs
  <1>4. Op(r) # "commit" => q.at < Len(Plan[q.kind])
    BY <1>1 DEF PlanPlace
  <1> QED BY <1>1, <1>2, <1>3, <1>4

\* What a lock can be.
LEMMA LockIs ==
  ASSUME NEW want \in Locks \X Modes
  PROVE  /\ want[1][1] \in {"scoped", "queue", "types", "capacity", "event", "job", "person"}
         /\ Rank[want[1][1]] \in 1..8
         /\ want[1][1] = "job" => want[1][2] \in Requests /\ want = <<<<"job", want[1][2]>>, want[2]>>
         /\ want[1][1] = "person" => want[1][2] \in People /\ want = <<<<"person", want[1][2]>>, want[2]>>
         /\ Rank[want[1][1]] = 8 => want[1][1] = "person"
         /\ want[2] \in Modes
PROOF
  <1>1. want[1] \in Locks /\ want[2] \in Modes /\ want = <<want[1], want[2]>>
    OBVIOUS
  <1>2. \/ \E name \in Advisory \cup {"event"} : want[1] = <<name, 0>>
        \/ \E j \in Requests : want[1] = <<"job", j>>
        \/ \E p \in People : want[1] = <<"person", p>>
    BY <1>1 DEF Locks
  <1> QED BY <1>1, <1>2, RankIs DEF Advisory

\* A step of others by which nobody comes to be there changes nothing.
LEMMA ClimbStays ==
  ASSUME NEW r, NEW q, Climbs(r, q), \A p \in q.x : There(p)' => There(p),
         q.kind = "delete" /\ q.at > 3 => \A j \in Requests : job'[j] # "none" => job[j] # "none"
  PROVE  Climbs(r, q)'
PROOF
  <1>1. ASSUME Plan[q.kind][q.at] = "rows"
        PROVE  ById(q, {p \in q.x : There(p)' /\ ~HasPerson(q, p)})
    <2>1. ById(q, {p \in q.x : There(p) /\ ~HasPerson(q, p)})
      BY <1>1 DEF Climbs
    <2> QED BY <2>1 DEF ById
  <1>2. Plan[q.kind][q.at] = "rows" => ById(q, {p \in q.x : There(p) /\ ~HasPerson(q, p)})'
    BY <1>1 DEF ById, HasPerson, Has
  <1> QED BY <1>2 DEF Climbs, Has

\* What is known of a request known by its value is known of its name.
LEMMA ClimbByName ==
  ASSUME NEW x, NEW q, q = request'[x], Climbs(x, q)'
  PROVE  Climbs(x, request[x])'
PROOF
  <1>1. Plan[q.kind][q.at] = "rows" => ById(q, {p \in q.x : There(p)' /\ ~HasPerson(q, p)})
    BY DEF Climbs, ById, HasPerson, Has
  <1>2. Plan[q.kind][q.at] = "rows"
          => ById(request[x], {p \in request[x].x : There(p) /\ ~HasPerson(request[x], p)})'
    BY <1>1 DEF ById, HasPerson, Has
  <1> QED BY <1>2 DEF Climbs, Has

\* A step of request r by which nobody comes to be there; no job is made while another
\* request deletes the event.
LEMMA ClimbLocal ==
  ASSUME TypeOK, IInv, Climbing, NEW r \in Requests, NEW y, y = request'[r],
         \A x \in Requests \ {r} : request'[x] = request[x],
         y.state = "open" => Climbs(r, y)',
         \A p \in People : There(p)' => There(p),
         \A x \in Requests \ {r} : Open(x) /\ request[x].kind = "delete" /\ request[x].at > 3 =>
           \A j \in Requests : job'[j] # "none" => job[j] # "none"
  PROVE  Climbing'
PROOF
  <1>1. ASSUME NEW x \in Requests, Open(x)'
        PROVE  Climbs(x, request[x])'
    <2>1. CASE x = r
      <3>1. y.state = "open"
        BY <1>1, <2>1 DEF Open
      <3> QED BY <2>1, <3>1, ClimbByName
    <2>2. CASE x # r
      <3>1. PICK q : q = request[x]
        OBVIOUS
      <3>2. Open(x) /\ q = request'[x]
        BY <1>1, <2>2, <3>1 DEF Open
      <3>3. Climbs(x, q) /\ q.x \subseteq People
        BY <3>1, <3>2, ClimbPlace, RequestFields
      <3>4. Climbs(x, q)'
        BY <2>2, <3>1, <3>2, <3>3, ClimbStays
      <3> QED BY <3>2, <3>4, ClimbByName
    <2> QED BY <2>1, <2>2
  <1> QED BY <1>1 DEF Climbing

\* A step that changes nothing but its request.
LEMMA TurnClimbs ==
  ASSUME TypeOK, IInv, Climbing, NEW r \in Requests, RowsSame,
         NEW y, request' = [request EXCEPT ![r] = y], y.state = "open" => Climbs(r, y)
  PROVE  Climbing'
PROOF
  <1>1. y = request'[r] /\ \A x \in Requests \ {r} : request'[x] = request[x]
    BY TypeParts
  <1>2. (\A p : There(p)' <=> There(p)) /\ job' = job
    BY DEF RowsSame, There
  <1>3. y.state = "open" => Climbs(r, y)'
    BY <1>2, ClimbStays
  <1> QED BY <1>1, <1>2, <1>3, ClimbLocal

\* A request that is refused holds nothing.
LEMMA RefuseClimbs ==
  ASSUME TypeOK, IInv, Climbing, NEW r \in Requests, RowsSame, Refuse(r)
  PROVE  Climbing'
PROOF
  <1> DEFINE y == [NoRequest EXCEPT !.state = "refused"]
  <1>1. request' = [request EXCEPT ![r] = y]
    BY DEF Refuse
  <1>2. y.state = "refused"
    BY RefusedIs
  <1> HIDE DEF y
  <1> QED BY <1>1, <1>2, TurnClimbs

-----------------------------------------------------------------------------
(* Within one transaction the locks go up.                                 *)

\* The same request, with no lock less.
Keeps(q, y) ==
  y.kind = q.kind /\ y.x \subseteq q.x /\ q.held \subseteq y.held

\* At another statement, with the locks it had and some within its reach.
LEMMA ClimbOn ==
  ASSUME TypeOK, IInv, Climbing, NEW r \in Requests, Open(r), NEW y, NEW n \in Nat, y.at = n,
         Keeps(request[r], y), Reach[y.kind][n] \in Nat,
         Reach[y.kind][request[r].at] <= Reach[y.kind][n],
         \A want \in y.held : want \notin request[r].held =>
           /\ Rank[want[1][1]] <= Reach[y.kind][n]
           /\ want[1][1] = "job" => \/ y.kind \in Erasing \cup {"delete"}
                                    \/ y.kind = "import" /\ want[1][2] = r /\ n > 5,
         y.kind = "import" => n >= request[r].at,
         y.kind = "delete" /\ n > 2 => request[r].at > 2 \/ Has(y, "queue", 0, "X"),
         y.kind = "delete" /\ n > 3 =>
           request[r].at > 3 \/ \A j \in Requests : job[j] # "none" => Has(y, "job", j, "X"),
         Plan[y.kind][n] = "rows" => ById(y, {p \in y.x : There(p) /\ ~HasPerson(y, p)})
  PROVE  Climbs(r, y)
PROOF
  <1> DEFINE q == request[r]
  <1>1. Climbs(r, q) /\ q.held \subseteq (Locks \X Modes) /\ y.kind = q.kind
        /\ PlanClimb(q.kind, q.at)
    BY ClimbPlace, RequestFields DEF Keeps
  <1>2. ASSUME NEW want \in y.held
        PROVE  /\ Rank[want[1][1]] <= Reach[y.kind][n]
               /\ want[1][1] = "job" => \/ y.kind \in Erasing \cup {"delete"}
                                        \/ y.kind = "import" /\ want[1][2] = r /\ n > 5
    <2>1. CASE want \in q.held
      <3>1. Rank[want[1][1]] \in 1..8
        BY <1>1, <2>1, LockIs
      <3>2. /\ Rank[want[1][1]] <= Reach[q.kind][q.at]
            /\ want[1][1] = "job" => \/ q.kind \in Erasing \cup {"delete"}
                                     \/ q.kind = "import" /\ want[1][2] = r /\ q.at > 5
        BY <1>1, <2>1 DEF Climbs
      <3>3. Reach[q.kind][q.at] \in Nat /\ q.at \in Nat
        <4>1. Reach[q.kind][q.at] \in 0..8
          BY <1>1, ZenonT(60) DEF PlanClimb
        <4>2. q.at \in Nat
          BY ClimbPlace
        <4> QED BY <4>1, <4>2
      <3>4. Rank[want[1][1]] <= Reach[y.kind][n]
        BY <1>1, <3>1, <3>2, <3>3
      <3>5. y.kind = "import" => n >= q.at
        OBVIOUS
      <3>6. y.kind = "import" /\ q.at > 5 => n > 5
        BY <3>3, <3>5
      <3> QED BY <1>1, <3>2, <3>4, <3>6
    <2>2. CASE want \notin q.held
      BY <2>2
    <2> QED BY <2>1, <2>2
  <1>3. \A name, id, mode : Has(q, name, id, mode) => Has(y, name, id, mode)
    BY DEF Has, Keeps
  <1>4. y.kind = "delete" /\ n > 2 => Has(y, "queue", 0, "X")
    BY <1>1, <1>3 DEF Climbs
  <1>5. y.kind = "delete" /\ n > 3 => \A j \in Requests : job[j] # "none" => Has(y, "job", j, "X")
    BY <1>1, <1>3 DEF Climbs
  <1> QED BY <1>2, <1>4, <1>5 DEF Climbs

\* To the next statement, with what the one before has locked.
LEMMA StepClimbs ==
  ASSUME TypeOK, IInv, Climbing, NEW r \in Requests, Open(r), Op(r) # "commit",
         NEW y, y.at = request[r].at + 1, Keeps(request[r], y),
         \A want \in y.held : want \notin request[r].held =>
           /\ want \in Locks \X Modes
           /\ Rank[want[1][1]] <= Reach[y.kind][request[r].at + 1]
           /\ want[1][1] = "job" => y.kind = "import" /\ want[1][2] = r /\ Op(r) = "ownJob"
           /\ want[1][1] = "person" => Op(r) = "update",
         Op(r) = "queue" => Has(y, "queue", 0, "X"),
         Op(r) = "allJobs" => \A j \in Requests : job[j] # "none" => Has(y, "job", j, "X")
  PROVE  Climbs(r, y)
PROOF
  <1> DEFINE q == request[r]
             n == q.at + 1
  <1>1. /\ q.at \in Nat /\ q.at >= 1 /\ q.at < Len(Plan[q.kind]) /\ PlanClimb(q.kind, q.at)
        /\ PlanClimbStep(q.kind, q.at) /\ Op(r) = Plan[q.kind][q.at] /\ Climbs(r, q)
        /\ y.kind = q.kind /\ q.held \subseteq (Locks \X Modes)
    BY ClimbPlace, RequestFields DEF Keeps
  <1>2. n \in Nat /\ y.at = n /\ n = q.at + 1
    BY <1>1
  <1>3. Reach[y.kind][n] \in Nat /\ Reach[y.kind][q.at] <= Reach[y.kind][n]
    BY <1>1, <1>2, ZenonT(60) DEF PlanClimbStep
  <1>4. ASSUME Plan[y.kind][n] = "rows", NEW S
        PROVE  ById(y, S)
    <2>0. Reach[q.kind][q.at] \in 0..8
      BY <1>1, ZenonT(60) DEF PlanClimb
    <2>1. Reach[q.kind][q.at] < 8 /\ Op(r) # "update" /\ Reach[q.kind][q.at] \in Nat
      <3>1. Plan[q.kind][q.at + 1] = "rows"
        BY <1>1, <1>2, <1>4, SMTT(30)
      <3>2. Reach[q.kind][q.at] < 8 /\ Op(r) # "update"
        BY <1>1, <3>1, ZenonT(60) DEF PlanClimbStep
      <3> QED BY <2>0, <3>2
    <2>2. ASSUME NEW p \in People, HasPerson(y, p)
          PROVE  FALSE
      <3>1. PICK want \in y.held : want[1][1] = "person"
        BY <2>2 DEF HasPerson, Has
      <3>2. want \in q.held
        BY <2>1, <3>1
      <3>3. Rank[want[1][1]] <= Reach[q.kind][q.at] /\ Rank[want[1][1]] = 8
        BY <1>1, <3>1, <3>2, RankIs DEF Climbs
      <3> QED BY <2>1, <3>3
    <2> QED BY <2>2 DEF ById
  <1>5. y.kind = "delete" /\ n > 2 => q.at > 2 \/ Has(y, "queue", 0, "X")
    BY <1>1, <1>2, SMTT(30) DEF PlanClimb
  <1>6. y.kind = "delete" /\ n > 3 =>
          q.at > 3 \/ \A j \in Requests : job[j] # "none" => Has(y, "job", j, "X")
    BY <1>1, <1>2, SMTT(30) DEF PlanClimb
  <1>7. (Op(r) = "ownJob" => n > 5) /\ n >= q.at
    <2>1. Op(r) = "ownJob" => q.at = 5
      BY <1>1, ZenonT(60) DEF PlanClimb
    <2> QED BY <1>1, <1>2, <2>1
  <1> HIDE DEF n
  <1>8. \A want \in y.held : want \notin q.held =>
          /\ Rank[want[1][1]] <= Reach[y.kind][n]
          /\ want[1][1] = "job" => y.kind = "import" /\ want[1][2] = r /\ n > 5
    BY <1>2, <1>7
  <1> QED BY <1>2, <1>3, <1>4, <1>5, <1>6, <1>7, <1>8, ClimbOn

\* What most statements leave alone.
Leaves(q, y) == y.kind = q.kind /\ y.x = q.x

LEMMA NextClimbs ==
  ASSUME TypeOK, IInv, Climbing, NEW r \in Requests, Open(r), RowsSame, Next1(r),
         Op(r) \notin {"commit", "queue"},
         Op(r) = "allJobs" => \A j \in Requests : job[j] # "none" => Has(request[r], "job", j, "X")
  PROVE  Climbing'
PROOF
  <1> DEFINE q == request[r]
             n == q.at + 1
             y == [q EXCEPT !.at = n]
  <1>1. request' = [request EXCEPT ![r] = y]
    BY DEF Next1
  <1>2. q \in RequestRecords /\ n = q.at + 1
    BY ClimbPlace
  <1> HIDE DEF n
  <1>3. Leaves(q, y) /\ y.at = n /\ y.held = q.held
    BY <1>2, Zenon DEF RequestRecords, Leaves
  <1> HIDE DEF y
  <1>4. Climbs(r, y)
    BY <1>2, <1>3, StepClimbs DEF Leaves, Keeps, Has
  <1> QED BY <1>1, <1>4, TurnClimbs

LEMMA TakeClimbs ==
  ASSUME TypeOK, IInv, Climbing, NEW r \in Requests, Open(r), RowsSame,
         NEW want \in Locks \X Modes, Take(r, want), Op(r) \notin {"commit", "allJobs"},
         Rank[want[1][1]] <= Reach[request[r].kind][request[r].at + 1],
         want[1][1] = "job" => request[r].kind = "import" /\ want[1][2] = r /\ Op(r) = "ownJob",
         want[1][1] # "person",
         Op(r) = "queue" => want = <<<<"queue", 0>>, "X">>
  PROVE  Climbing'
PROOF
  <1> DEFINE q == request[r]
             n == q.at + 1
             h == q.held \cup {want}
             y == [q EXCEPT !.at = n, !.held = h]
  <1>1. request' = [request EXCEPT ![r] = y]
    BY DEF Take
  <1>2. q \in RequestRecords /\ n = q.at + 1 /\ h = q.held \cup {want}
    BY ClimbPlace
  <1> HIDE DEF n, h
  <1>3. Leaves(q, y) /\ y.at = n /\ y.held = h
    BY <1>2, Zenon DEF RequestRecords, Leaves
  <1> HIDE DEF y
  <1>4. Op(r) = "queue" => Has(y, "queue", 0, "X")
    BY <1>2, <1>3 DEF Has
  <1>5. \A w \in y.held : w \notin q.held => w = want
    BY <1>2, <1>3
  <1>6. Keeps(q, y)
    BY <1>2, <1>3 DEF Leaves, Keeps
  <1>7. Climbs(r, y)
    BY <1>2, <1>3, <1>4, <1>5, <1>6, StepClimbs DEF Leaves
  <1> QED BY <1>1, <1>7, TurnClimbs

LEMMA LockClimbs ==
  ASSUME TypeOK, IInv, Climbing, NEW r \in Requests, Open(r), Lock(r)
  PROVE  Climbing'
PROOF
  <1>1. PICK want \in Wants(r) : Take(r, want)
    BY DEF Lock
  <1>2. Op(r) \in Advisory \cup {"queueShared"} /\ RowsSame
    BY DEF Lock
  <1>3. /\ Op(r) \in Advisory => want = <<<<Op(r), 0>>, "X">>
        /\ Op(r) = "queueShared" => want = <<<<"queue", 0>>, "S">>
    <2>1. CASE Op(r) \in Advisory
      BY <1>1, <2>1 DEF Wants, Advisory, EventMode
    <2>2. CASE Op(r) = "queueShared"
      BY <1>1, <2>2 DEF Wants, Advisory, EventMode
    <2> QED BY <1>2, <2>1, <2>2 DEF Advisory
  <1>4. want \in Locks \X Modes
    BY <1>2, <1>3, LockKinds DEF Advisory
  <1>5. PlanClimbStep(request[r].kind, request[r].at) /\ Op(r) = Plan[request[r].kind][request[r].at]
    BY <1>2, ClimbPlace DEF Advisory
  <1>6. Rank[want[1][1]] <= Reach[request[r].kind][request[r].at + 1]
    <2>1. CASE Op(r) \in Advisory
      BY <1>3, <1>5, <2>1, SMTT(30) DEF PlanClimbStep
    <2>2. CASE Op(r) = "queueShared"
      BY <1>3, <1>5, <2>2, RankIs, SMTT(30) DEF PlanClimbStep
    <2> QED BY <1>2, <2>1, <2>2
  <1>7. want[1][1] \in {"scoped", "queue", "types", "capacity"}
    BY <1>2, <1>3 DEF Advisory
  <1> QED BY <1>1, <1>2, <1>3, <1>4, <1>6, <1>7, TakeClimbs DEF Advisory

\* One more lock of those a statement takes one after the other.
LEMMA HoldClimbs ==
  ASSUME TypeOK, IInv, Climbing, NEW r \in Requests, Open(r), RowsSame, NEW want \in Locks \X Modes,
         request' = [request EXCEPT ![r].held = @ \cup {want}],
         Rank[want[1][1]] <= Reach[request[r].kind][request[r].at],
         want[1][1] = "job" => request[r].kind \in Erasing \cup {"delete"},
         Op(r) = "rows" => \E p \in NextRow(r) : want = <<<<"person", p>>, "X">>
  PROVE  Climbing'
PROOF
  <1> DEFINE q == request[r]
             n == q.at
             h == q.held \cup {want}
             y == [q EXCEPT !.held = h]
  <1>1. request' = [request EXCEPT ![r] = y]
    OBVIOUS
  <1>2. /\ q \in RequestRecords /\ h = q.held \cup {want} /\ n \in Nat /\ PlanClimb(q.kind, n)
        /\ Op(r) = Plan[q.kind][n] /\ Climbs(r, q) /\ q.x \subseteq People
        /\ \A w \in q.held : Usual(w)
    BY ClimbPlace, RequestFields DEF OpenGood, Placed
  <1> HIDE DEF h
  <1>3. Leaves(q, y) /\ y.at = q.at /\ y.held = h
    BY <1>2, Zenon DEF RequestRecords, Leaves
  <1> HIDE DEF y
  <1>4. Keeps(q, y)
    BY <1>2, <1>3 DEF Leaves, Keeps
  <1>5. ASSUME Op(r) = "rows"
        PROVE  ById(y, {p \in y.x : There(p) /\ ~HasPerson(y, p)})
    <2>1. PICK p \in NextRow(r) : want = <<<<"person", p>>, "X">>
      BY <1>5
    <2>2. \A x : Holds(r, <<"person", x>>) => HasPerson(q, x)
      BY <1>2 DEF Holds, HasPerson, Has, Usual
    <2>3. \A x : HasPerson(q, x) => HasPerson(y, x)
      BY <1>4 DEF Keeps, HasPerson, Has
    <2>4. HasPerson(y, p)
      BY <1>2, <1>3, <2>1 DEF HasPerson, Has
    <2>5. \A x : HasPerson(y, x) => HasPerson(q, x) \/ x = p
      BY <1>2, <1>3, <2>1 DEF HasPerson, Has
    <2>6. ASSUME NEW x \in People, NEW c \in y.x, There(c), ~HasPerson(y, c), HasPerson(y, x)
          PROVE  x < c
      <3>1. c \in q.x /\ c \in People /\ c # p /\ ~HasPerson(q, c)
        BY <1>2, <1>3, <2>3, <2>4, <2>6 DEF Leaves
      <3>2. CASE HasPerson(q, x)
        BY <1>2, <1>5, <2>6, <3>1, <3>2 DEF Climbs, ById
      <3>3. CASE x = p
        <4>1. c \in RowsWanted(r)
          BY <2>2, <2>6, <3>1 DEF RowsWanted
        <4>2. p <= c
          BY <4>1 DEF NextRow
        <4>3. p \in Nat /\ c \in Nat
          BY <2>6, <3>1, <3>3, EventAssumption
        <4> QED BY <3>1, <3>3, <4>2, <4>3
      <3> QED BY <2>5, <2>6, <3>2, <3>3
    <2> QED BY <2>6 DEF ById
  <1>6. Reach[y.kind][n] \in Nat /\ Reach[y.kind][n] <= Reach[y.kind][n]
    <2>1. Reach[q.kind][n] \in 0..8
      BY <1>2, ZenonT(60) DEF PlanClimb
    <2>2. y.kind = q.kind
      BY <1>3 DEF Leaves
    <2> QED BY <2>1, <2>2
  <1>7. \A w \in y.held : w \notin q.held => w = want
    BY <1>2, <1>3
  <1>8. Climbs(r, y)
    BY <1>2, <1>3, <1>4, <1>5, <1>6, <1>7, ClimbOn DEF Leaves
  <1> QED BY <1>1, <1>8, TurnClimbs

\* The jobs are locked in "X" only.
LEMMA HoldsJob ==
  ASSUME TypeOK, IInv, NEW r \in Requests, Open(r)
  PROVE  /\ \A j : Holds(r, <<"job", j>>) => Has(request[r], "job", j, "X")
         /\ \A p : Holds(r, <<"person", p>>) => HasPerson(request[r], p)
PROOF
  <1>1. \A w \in request[r].held : Usual(w)
    BY OpenPlace DEF OpenGood, Placed
  <1> QED BY <1>1 DEF Holds, Has, HasPerson, Usual

LEMMA LockJobsClimbs ==
  ASSUME TypeOK, IInv, Climbing, NEW r \in Requests, Open(r), LockJobs(r)
  PROVE  Climbing'
PROOF
  <1>1. Op(r) \in {"openJobs", "allJobs", "results"} /\ RowsSame
    BY DEF LockJobs
  <1>2. CASE JobsWanted(r) = {}
    <2>1. Next1(r)
      BY <1>2 DEF LockJobs
    <2>2. Op(r) = "allJobs" => \A j \in Requests : job[j] # "none" => Holds(r, <<"job", j>>)
      BY <1>2 DEF JobsWanted
    <2> QED BY <1>1, <2>1, <2>2, HoldsJob, NextClimbs
  <1>3. CASE JobsWanted(r) # {}
    <2>1. PICK want \in Wants(r) : request' = [request EXCEPT ![r].held = @ \cup {want}]
      BY <1>3 DEF LockJobs
    <2>2. PICK j \in JobsWanted(r) : want = <<<<"job", j>>, "X">>
      BY <1>1, <2>1 DEF Wants, Advisory, EventMode
    <2>3. want \in Locks \X Modes
      BY <2>2, LockKinds DEF JobsWanted
    <2>4. PlanClimb(request[r].kind, request[r].at) /\ Op(r) = Plan[request[r].kind][request[r].at]
      BY ClimbPlace
    <2>5. 4 <= Reach[request[r].kind][request[r].at] /\ request[r].kind \in Erasing \cup {"delete"}
      BY <1>1, <2>4, ZenonT(60) DEF PlanClimb
    <2>6. Rank[want[1][1]] = 4
      BY <2>2, RankIs
    <2> QED BY <1>1, <2>1, <2>3, <2>5, <2>6, HoldClimbs
  <1> QED BY <1>2, <1>3

LEMMA LockRowsClimbs ==
  ASSUME TypeOK, IInv, Climbing, NEW r \in Requests, Open(r), LockRows(r)
  PROVE  Climbing'
PROOF
  <1>1. Op(r) = "rows" /\ RowsSame /\ request[r].x \subseteq People
    BY OpenPlace, RequestFields DEF LockRows
  <1>2. CASE RowsWanted(r) = {}
    <2>1. Next1(r)
      BY <1>2 DEF LockRows
    <2> QED BY <1>1, <2>1, NextClimbs
  <1>3. CASE RowsWanted(r) # {}
    <2>1. PICK want \in Wants(r) : request' = [request EXCEPT ![r].held = @ \cup {want}]
      BY <1>3 DEF LockRows
    <2>2. PICK p \in NextRow(r) : want = <<<<"person", p>>, "X">>
      BY <1>1, <2>1 DEF Wants, Advisory, EventMode
    <2>3. want \in Locks \X Modes
      BY <1>1, <2>2, LockKinds DEF NextRow, RowsWanted
    <2>4. PlanClimb(request[r].kind, request[r].at) /\ Op(r) = Plan[request[r].kind][request[r].at]
      BY ClimbPlace
    <2>5. Rank[want[1][1]] = 8 /\ Reach[request[r].kind][request[r].at] = 8 /\ want[1][1] = "person"
      BY <1>1, <2>2, <2>4, RankIs, ZenonT(60) DEF PlanClimb
    <2>6. Rank[want[1][1]] <= Reach[request[r].kind][request[r].at] /\ want[1][1] # "job"
      BY <2>5
    <2>7. \E x \in NextRow(r) : want = <<<<"person", x>>, "X">>
      BY <2>2
    <2> QED BY <1>1, <2>1, <2>3, <2>6, <2>7, HoldClimbs
  <1> QED BY <1>2, <1>3

LEMMA NeedEventClimbs ==
  ASSUME TypeOK, IInv, Climbing, NEW r \in Requests, Open(r), NeedEvent(r)
  PROVE  Climbing'
PROOF
  <1>1. Op(r) \in EventOps /\ RowsSame
    BY DEF NeedEvent, EventMode, EventOps
  <1>2. CASE Next1(r) \/ Refuse(r)
    BY <1>1, <1>2, NextClimbs, RefuseClimbs DEF EventOps
  <1>3. ASSUME NEW want \in Wants(r), Take(r, want)
        PROVE  Climbing'
    <2>1. want = <<<<"event", 0>>, EventMode[Op(r)]>> /\ EventMode[Op(r)] \in Modes
      BY <1>1, <1>3 DEF Wants, Advisory, EventMode, EventOps, Modes
    <2>2. want \in Locks \X Modes /\ want[1][1] = "event" /\ Rank[want[1][1]] = 7
      BY <2>1, LockKinds, RankIs
    <2>3. PlanClimbStep(request[r].kind, request[r].at) /\ Op(r) = Plan[request[r].kind][request[r].at]
      BY <1>1, ClimbPlace DEF EventOps
    <2>4. 7 <= Reach[request[r].kind][request[r].at + 1]
      BY <1>1, <2>3, SMTT(30) DEF PlanClimbStep
    <2> QED BY <1>1, <1>3, <2>2, <2>4, TakeClimbs DEF EventOps
  <1> QED BY <1>2, <1>3 DEF NeedEvent

LEMMA OwnJobClimbs ==
  ASSUME TypeOK, IInv, Climbing, NEW r \in Requests, Open(r), OwnJob(r)
  PROVE  Climbing'
PROOF
  <1>1. Op(r) = "ownJob" /\ RowsSame
    BY DEF OwnJob
  <1>2. CASE Refuse(r)
    BY <1>1, <1>2, RefuseClimbs
  <1>3. ASSUME NEW want \in Wants(r), Take(r, want)
        PROVE  Climbing'
    <2>1. want = <<<<"job", r>>, "X">>
      BY <1>1, <1>3 DEF Wants, Advisory, EventMode, JobsWanted
    <2>2. want \in Locks \X Modes /\ want[1][1] = "job" /\ want[1][2] = r /\ Rank[want[1][1]] = 4
      BY <2>1, LockKinds, RankIs
    <2>3. /\ PlanClimb(request[r].kind, request[r].at) /\ PlanClimbStep(request[r].kind, request[r].at)
          /\ Op(r) = Plan[request[r].kind][request[r].at]
      BY <1>1, ClimbPlace
    <2>4. 4 <= Reach[request[r].kind][request[r].at + 1] /\ request[r].kind = "import"
      BY <1>1, <2>3, ZenonT(60) DEF PlanClimb, PlanClimbStep
    <2> QED BY <1>1, <1>3, <2>2, <2>4, TakeClimbs
  <1> QED BY <1>2, <1>3 DEF OwnJob

\* To the next statement, with no lock more.
LEMMA LookClimbs ==
  ASSUME TypeOK, IInv, Climbing, NEW r \in Requests, Open(r), RowsSame,
         NEW y, request' = [request EXCEPT ![r] = y], y.at = request[r].at + 1,
         Keeps(request[r], y), y.held = request[r].held, Op(r) \notin {"commit", "queue", "allJobs"}
  PROVE  Climbing'
PROOF
  <1>1. Climbs(r, y)
    BY StepClimbs
  <1> QED BY <1>1, TurnClimbs

LEMMA AskClimbs ==
  ASSUME TypeOK, IInv, Climbing, NEW r \in Requests, Open(r),
         Label(r) \/ Unused(r) \/ Exists(r) \/ Empty(r)
  PROVE  Climbing'
PROOF
  <1>1. RowsSame /\ Op(r) \in {"label", "unused", "exists", "empty"} /\ (Next1(r) \/ Refuse(r))
    BY DEF Label, Unused, Exists, Empty
  <1> QED BY <1>1, NextClimbs, RefuseClimbs

LEMMA SkipClimbs ==
  ASSUME TypeOK, IInv, Climbing, NEW r \in Requests, Open(r), Skip(r)
  PROVE  Climbing'
PROOF
  <1> DEFINE q == request[r]
             n == q.at + (IF Op(r) = "types" THEN 2 ELSE 3)
             y == [q EXCEPT !.at = n]
  <1>1. RowsSame /\ Unneeded(r) /\ request' = [request EXCEPT ![r] = y]
    BY DEF Skip
  <1>2. /\ q \in RequestRecords /\ q.at \in Nat /\ PlanClimb(q.kind, q.at) /\ PlanJump(q.kind, q.at)
        /\ Op(r) = Plan[q.kind][q.at]
    BY ClimbPlace, OpenPlace
  <1>3. /\ n \in Nat /\ q.kind \in {"create", "restore"} /\ Plan[q.kind][n] \in {"capacity", "update"}
        /\ Reach[q.kind][n] \in Nat /\ Reach[q.kind][q.at] <= Reach[q.kind][n]
    <2>1. CASE Op(r) = "types"
      <3>1. q.kind \in {"create", "restore"} /\ n = q.at + 2
        BY <1>1, <2>1 DEF Unneeded
      <3> QED BY <1>2, <2>1, <3>1, SMTT(30) DEF PlanClimb, PlanJump
    <2>2. CASE Op(r) # "types"
      <3>1. Op(r) = "capacity" /\ q.kind = "restore" /\ n = q.at + 3
        BY <1>1, <2>2 DEF Unneeded
      <3> QED BY <1>2, <3>1, SMTT(30) DEF PlanClimb, PlanJump
    <2> QED BY <2>1, <2>2
  <1> HIDE DEF n
  <1>4. Leaves(q, y) /\ y.at = n /\ y.held = q.held
    BY <1>2, Zenon DEF RequestRecords, Leaves
  <1> HIDE DEF y
  <1>5. Climbs(r, y)
    BY <1>3, <1>4, ClimbOn DEF Leaves, Keeps
  <1> QED BY <1>1, <1>5, TurnClimbs

LEMMA TypesClimbs ==
  ASSUME TypeOK, IInv, Climbing, NEW r \in Requests, Open(r), Check(r) \/ Fresh(r)
  PROVE  Climbing'
PROOF
  <1> DEFINE q == request[r]
             n == q.at + 1
  <1>1. /\ RowsSame /\ Op(r) \in {"check", "fresh"}
        /\ Refuse(r) \/ \E b : request' = [request EXCEPT ![r] = [q EXCEPT !.at = n, !.checked = b]]
    BY DEF Check, Fresh
  <1>2. q \in RequestRecords /\ n = q.at + 1
    BY ClimbPlace
  <1> HIDE DEF n
  <1>3. ASSUME NEW b, request' = [request EXCEPT ![r] = [q EXCEPT !.at = n, !.checked = b]]
        PROVE  Climbing'
    <2> DEFINE y == [q EXCEPT !.at = n, !.checked = b]
    <2>1. Leaves(q, y) /\ y.at = n /\ y.held = q.held
      BY <1>2, Zenon DEF RequestRecords, Leaves
    <2>2. request' = [request EXCEPT ![r] = y]
      BY <1>3
    <2> HIDE DEF y
    <2> QED BY <1>1, <1>2, <2>1, <2>2, LookClimbs DEF Leaves, Keeps
  <1> QED BY <1>1, <1>3, RefuseClimbs

LEMMA MatchClimbs ==
  ASSUME TypeOK, IInv, Climbing, NEW r \in Requests, Open(r), Match(r)
  PROVE  Climbing'
PROOF
  <1> DEFINE q == request[r]
             known == {p \in q.left : Live(p)}
             n == q.at + 1
             left == IF q.key = "none" \/ q.checked THEN known ELSE {}
             new == IF q.key = "none" \/ q.checked THEN q.new + Cardinality(q.left \ known) ELSE 0
             y == [q EXCEPT !.at = n, !.left = left, !.new = new]
  <1>1. Op(r) = "match" /\ RowsSame
    BY Zenon DEF Match
  <1>2. request' = [request EXCEPT ![r] = y]
    BY DEF Match
  <1>3. q \in RequestRecords /\ n = q.at + 1 /\ left \subseteq q.left
    BY ClimbPlace
  <1> HIDE DEF n, left, new
  <1>4. y.kind = q.kind /\ y.held = q.held /\ y.x = q.x /\ y.at = n
    BY <1>3, Zenon DEF RequestRecords
  <1> HIDE DEF y
  <1> QED BY <1>1, <1>2, <1>3, <1>4, LookClimbs DEF Keeps

LEMMA ReadClimbs ==
  ASSUME TypeOK, IInv, Climbing, NEW r \in Requests, Open(r), Read(r)
  PROVE  Climbing'
PROOF
  <1> DEFINE q == request[r]
             n == q.at + 1
             new == IF \E p \in q.x : person[p].takes THEN 0 ELSE q.new
             y == [q EXCEPT !.at = n, !.seen = person, !.new = new]
  <1>1. Op(r) = "read" /\ RowsSame
    BY DEF Read
  <1>2. CASE ~\A p \in q.x : Live(p)
    <2>1. Refuse(r)
      BY <1>2 DEF Read
    <2> QED BY <1>1, <2>1, RefuseClimbs
  <1>3. CASE \A p \in q.x : Live(p)
    <2>1. request' = [request EXCEPT ![r] = y]
      BY <1>3 DEF Read
    <2>2. q \in RequestRecords /\ n = q.at + 1
      BY ClimbPlace
    <2> HIDE DEF n, new
    <2>3. Leaves(q, y) /\ y.at = n /\ y.held = q.held
      BY <2>2, Zenon DEF RequestRecords, Leaves
    <2> HIDE DEF y
    <2> QED BY <1>1, <2>1, <2>2, <2>3, LookClimbs DEF Leaves, Keeps
  <1> QED BY <1>2, <1>3

LEMMA LimitClimbs ==
  ASSUME TypeOK, IInv, Climbing, NEW r \in Requests, Open(r), Limit(r)
  PROVE  Climbing'
PROOF
  <1> DEFINE q == request[r]
             n == q.at + 1
             y == [q EXCEPT !.at = n, !.limit = capacity]
  <1>1. Op(r) = "limit" /\ RowsSame /\ (Refuse(r) \/ request' = [request EXCEPT ![r] = y])
    BY DEF Limit
  <1>2. q \in RequestRecords /\ n = q.at + 1
    BY ClimbPlace
  <1> HIDE DEF n
  <1>3. Leaves(q, y) /\ y.at = n /\ y.held = q.held
    BY <1>2, Zenon DEF RequestRecords, Leaves
  <1> HIDE DEF y
  <1> QED BY <1>1, <1>2, <1>3, LookClimbs, RefuseClimbs DEF Leaves, Keeps

LEMMA CountClimbs ==
  ASSUME TypeOK, IInv, Climbing, NEW r \in Requests, Open(r), Count(r)
  PROVE  Climbing'
PROOF
  <1> DEFINE q == request[r]
             n == q.at + 1
             y == [q EXCEPT !.at = n, !.counted = TRUE]
  <1>1. /\ Op(r) = "count" /\ RowsSame
        /\ Next1(r) \/ Refuse(r) \/ request' = [request EXCEPT ![r] = y]
    BY DEF Count
  <1>2. q \in RequestRecords /\ n = q.at + 1
    BY ClimbPlace
  <1> HIDE DEF n
  <1>3. Leaves(q, y) /\ y.at = n /\ y.held = q.held
    BY <1>2, Zenon DEF RequestRecords, Leaves
  <1> HIDE DEF y
  <1> QED BY <1>1, <1>2, <1>3, LookClimbs, NextClimbs, RefuseClimbs DEF Leaves, Keeps

LEMMA OwnedClimbs ==
  ASSUME TypeOK, IInv, Climbing, NEW r \in Requests, Open(r), Owned(r)
  PROVE  Climbing'
PROOF
  <1> DEFINE q == request[r]
             n == q.at + 1
             x == {p \in q.x : Live(p) /\ (q.kind = "bulkType" => person[p].type # q.key)}
             y == [q EXCEPT !.at = n, !.seen = person, !.x = x]
  <1>1. Op(r) = "owned" /\ RowsSame
    BY DEF Owned
  <1>2. request' = [request EXCEPT ![r] = y]
    BY DEF Owned
  <1>3. q \in RequestRecords /\ n = q.at + 1 /\ x \subseteq q.x
    BY ClimbPlace
  <1> HIDE DEF n, x
  <1>4. y.kind = q.kind /\ y.held = q.held /\ y.x = x /\ y.at = n
    BY <1>3, Zenon DEF RequestRecords
  <1> HIDE DEF y
  <1> QED BY <1>1, <1>2, <1>3, <1>4, LookClimbs DEF Keeps

LEMMA UpdateClimbs ==
  ASSUME TypeOK, IInv, Climbing, NEW r \in Requests, Open(r), Update(r)
  PROVE  Climbing'
PROOF
  <1> DEFINE q == request[r]
             want(p) == <<<<"person", p>>, "N">>
             n == q.at + 1
             y(p) == [q EXCEPT !.at = n, !.held = q.held \cup {want(p)}, !.wrote = {p}]
  <1>1. Op(r) = "update" /\ RowsSame
    BY DEF Update
  <1>2. PICK p \in q.x :
          IF Live(p) /\ person[p].by = q.seen[p].by
          THEN request' = [request EXCEPT ![r] = y(p)] ELSE Refuse(r)
    BY DEF Update
  <1>3. CASE Refuse(r)
    BY <1>1, <1>3, RefuseClimbs
  <1>4. CASE ~Refuse(r)
    <2> DEFINE w == {p}
               h == q.held \cup {want(p)}
               z == [q EXCEPT !.at = n, !.held = h, !.wrote = w]
    <2>1. request' = [request EXCEPT ![r] = z]
      BY <1>2, <1>4
    <2>2. q \in RequestRecords /\ n = q.at + 1 /\ h = q.held \cup {want(p)} /\ q.x \subseteq People
      BY ClimbPlace, RequestFields
    <2>3. PlanClimbStep(q.kind, q.at) /\ Op(r) = Plan[q.kind][q.at]
      BY <1>1, ClimbPlace
    <2> HIDE DEF n, h, w
    <2>4. Leaves(q, z) /\ z.at = n /\ z.held = h
      BY <2>2, Zenon DEF RequestRecords, Leaves
    <2> HIDE DEF z
    <2>5. want(p) \in Locks \X Modes
      BY <2>2, LockKinds
    <2>6. \A v \in z.held : v \notin q.held => v = want(p)
      BY <2>2, <2>4
    <2>7. 8 <= Reach[q.kind][q.at + 1]
      BY <1>1, <2>3, SMTT(30) DEF PlanClimbStep
    <2>8. want(p)[1][1] = "person" /\ Rank[want(p)[1][1]] = 8
      BY RankIs
    <2>9. Keeps(q, z)
      BY <2>2, <2>4 DEF Leaves, Keeps
    <2> HIDE DEF want
    <2>10. \A v \in z.held : v \notin q.held =>
             /\ v \in Locks \X Modes /\ Rank[v[1][1]] <= Reach[z.kind][q.at + 1]
             /\ v[1][1] = "person"
      BY <2>4, <2>5, <2>6, <2>7, <2>8 DEF Leaves
    <2>11. Climbs(r, z)
      BY <1>1, <2>2, <2>4, <2>9, <2>10, StepClimbs
    <2> QED BY <1>1, <2>1, <2>11, TurnClimbs
  <1> QED BY <1>3, <1>4

LEMMA SetClimbs ==
  ASSUME TypeOK, IInv, Climbing, NEW r \in Requests, Open(r), Set(r)
  PROVE  Climbing'
PROOF
  <1> DEFINE q == request[r]
             may(p) == CASE q.kind = "bulkType" -> Live(p) /\ person[p].type = q.seen[p].type
                         [] q.kind \in {"bulk", "erase"} -> Live(p)
                         [] q.kind = "remove" -> There(p)
             w == {p \in q.x : may(p)}
             n == IF w = {} THEN Len(Plan[q.kind]) ELSE q.at + 1
             y == [q EXCEPT !.wrote = w, !.at = n]
  <1>1. Op(r) = "set" /\ RowsSame
    BY Zenon DEF Set
  <1>2. request' = [request EXCEPT ![r] = y]
    BY DEF Set
  <1>3. /\ q \in RequestRecords /\ PlanClimb(q.kind, q.at) /\ PlanClimbStep(q.kind, q.at)
        /\ Op(r) = Plan[q.kind][q.at] /\ q.at \in Nat /\ Len(Plan[q.kind]) \in 1..14
        /\ PlanPlace(q.kind, q.at) /\ q.kind \in DOMAIN Plan /\ q.at < Len(Plan[q.kind])
    BY <1>1, ClimbPlace, OpPlace
  <1>4. n \in {Len(Plan[q.kind]), q.at + 1} /\ q.kind \in {"bulk", "bulkType"} \cup Erasing
    BY <1>1, <1>3 DEF PlanPlace
  <1> HIDE DEF n, w
  <1>5. Leaves(q, y) /\ y.at = n /\ y.held = q.held
    BY <1>3, Zenon DEF RequestRecords, Leaves
  <1> HIDE DEF y
  <1>6. Keeps(q, y)
    BY <1>5 DEF Leaves, Keeps
  <1>7. CASE n = q.at + 1
    BY <1>1, <1>2, <1>5, <1>6, <1>7, LookClimbs
  <1>8. CASE n = Len(Plan[q.kind])
    <2> DEFINE m == Len(Plan[q.kind])
    <2>1. m \in Nat /\ m >= 1 /\ m <= Len(Plan[q.kind])
      BY <1>3
    <2>2. PlanClimb(q.kind, m) /\ PlanPlace(q.kind, m)
      BY <1>3, <2>1, PlanClimbs, PlanPlaces
    <2>3. Plan[q.kind][m] = "commit"
      BY <2>2 DEF PlanPlace
    <2>4. Reach[q.kind][m] \in Nat /\ Reach[q.kind][m] = 8
      <3>1. Reach[q.kind][m] = 8
        BY <1>1, <1>3, ZenonT(60) DEF PlanClimb
      <3> QED BY <3>1
    <2>5. Reach[q.kind][q.at] <= 8
      <3>1. Reach[q.kind][q.at] \in 0..8
        BY <1>3, ZenonT(60) DEF PlanClimb
      <3> QED BY <3>1
    <2> HIDE DEF m
    <2>6. y.at = m /\ y.kind = q.kind
      BY <1>5, <1>8 DEF m, Leaves
    <2>7. y.kind \notin {"delete", "import"}
      BY <1>4, <2>6 DEF Erasing
    <2>8. Climbs(r, y)
      BY <1>5, <1>6, <2>1, <2>3, <2>4, <2>5, <2>6, <2>7, ClimbOn
    <2> QED BY <1>1, <1>2, <2>8, TurnClimbs
  <1> QED BY <1>4, <1>7, <1>8

\* An import takes the rows of the people of its file, in whatever order.
LEMMA FileClimbs ==
  ASSUME TypeOK, IInv, Climbing, NEW r \in Requests, Open(r), FromFile(r)
  PROVE  Climbing'
PROOF
  <1> DEFINE q == request[r]
  <1>1. RowsSame /\ Op(r) = "file"
    BY DEF FromFile
  <1>2. /\ q \in RequestRecords /\ Climbs(r, q) /\ PlanClimb(q.kind, q.at) /\ Op(r) = Plan[q.kind][q.at]
        /\ q.at \in Nat
    BY ClimbPlace
  <1>3. CASE q.left = {}
    <2>1. Next1(r)
      BY <1>3 DEF FromFile
    <2> QED BY <1>1, <2>1, NextClimbs
  <1>4. CASE q.left # {}
    <2> DEFINE want(p) == <<<<"person", p>>, "N">>
               y(p) == [q EXCEPT !.left = q.left \ {p}, !.wrote = q.wrote \cup {p},
                                 !.held = q.held \cup {want(p)}]
    <2>1. PICK p \in NextInFile(r) :
            IF There(p) THEN request' = [request EXCEPT ![r] = y(p)] ELSE Refuse(r)
      BY <1>4 DEF FromFile
    <2>2. CASE ~There(p)
      BY <1>1, <2>1, <2>2, RefuseClimbs
    <2>3. CASE There(p)
      <3> DEFINE l == q.left \ {p}
                 w == q.wrote \cup {p}
                 h == q.held \cup {want(p)}
                 n == q.at
                 z == [q EXCEPT !.left = l, !.wrote = w, !.held = h]
      <3>1. request' = [request EXCEPT ![r] = z]
        BY <2>1, <2>3
      <3>2. /\ p \in q.left /\ l = q.left \ {p} /\ h = q.held \cup {want(p)}
        BY <2>1 DEF NextInFile
      <3> HIDE DEF l, w, h
      <3>3. z.kind = q.kind /\ z.x = q.x /\ z.held = h /\ z.at = q.at
        BY <1>2, Zenon DEF RequestRecords
      <3> HIDE DEF z
      <3>4. Keeps(q, z)
        BY <3>2, <3>3 DEF Keeps
      <3>5. /\ Reach[z.kind][n] \in Nat /\ Reach[z.kind][q.at] <= Reach[z.kind][n]
            /\ Reach[z.kind][n] = 8 /\ z.kind \in {"import", "cli"} /\ n \in Nat /\ n >= q.at
            /\ Plan[z.kind][n] = "file"
        <4>1. Reach[q.kind][q.at] = 8 /\ q.kind \in {"import", "cli"}
          BY <1>1, <1>2, ZenonT(60) DEF PlanClimb
        <4> QED BY <1>1, <1>2, <3>3, <4>1
      <3>6. want(p)[1][1] = "person" /\ Rank[want(p)[1][1]] = 8
        BY RankIs
      <3>7. \A v \in z.held : v \notin q.held => v = want(p)
        BY <3>2, <3>3
      <3> HIDE DEF want
      <3>8. \A v \in z.held : v \notin q.held =>
               Rank[v[1][1]] <= Reach[z.kind][n] /\ v[1][1] = "person"
        BY <3>5, <3>6, <3>7
      <3>9. Climbs(r, z)
        BY <3>3, <3>4, <3>5, <3>8, ClimbOn
      <3> QED BY <1>1, <3>1, <3>9, TurnClimbs
    <2> QED BY <2>2, <2>3
  <1> QED BY <1>3, <1>4

\* Without a lock.
LEMMA FreshClimbs ==
  ASSUME NEW r, NEW y, y.held = {}, y.kind # "delete" \/ y.at = 1
  PROVE  Climbs(r, y)
PROOF BY DEF Climbs, ById, HasPerson, Has

LEMMA RetryClimbs ==
  ASSUME TypeOK, IInv, Climbing, NEW r \in Requests, Retry(r)
  PROVE  Climbing'
PROOF
  <1> DEFINE q == request[r]
             begin == Seated[q.kind].begin
             none == {}
             y == [q EXCEPT !.at = begin, !.held = none, !.checked = FALSE]
  <1>1. /\ Open(r) /\ q.kind \in DOMAIN Seated /\ RowsSame
        /\ request' = [request EXCEPT ![r] = y]
    BY DEF Retry
  <1>2. q \in RequestRecords /\ Climbs(r, q) /\ q.kind # "delete" /\ none = {}
    BY <1>1, ClimbPlace DEF Seated
  <1> HIDE DEF begin, none
  <1>3. Leaves(q, y) /\ y.held = none
    BY <1>2, Zenon DEF RequestRecords, Leaves
  <1> HIDE DEF y
  <1>4. Climbs(r, y)
    BY <1>2, <1>3, FreshClimbs DEF Leaves, Climbs
  <1> QED BY <1>1, <1>4, TurnClimbs

LEMMA BeginClimbs ==
  ASSUME TypeOK, IInv, Climbing, NEW r \in Requests, Begin(r)
  PROVE  Climbing'
PROOF
  <1> DEFINE z(kind, x, key, flag, label, limit, file, left, new) ==
               [NoRequest EXCEPT !.kind = kind, !.at = 1, !.x = x, !.key = key, !.label = label,
                  !.flag = flag, !.limit = limit, !.file = file, !.left = left,
                  !.new = new, !.state = "open"]
  <1>1. RowsSame
    BY DEF Begin
  <1>2. PICK kind \in Kinds :
     \E x \in Names(kind), key \in Keys(kind),
        flag \in (IF kind \in {"create", "restore", "import", "erase"} THEN BOOLEAN ELSE {FALSE}),
        label \in (IF kind \in {"createType", "renameType"} THEN Labels ELSE {"none"}),
        limit \in (IF kind = "resize" THEN 0..MaxCapacity ELSE {0}),
        file \in (IF kind \in {"import", "cli"} THEN FileOrders ELSE {<<>>}) :
       request' = [request EXCEPT ![r] = z(kind, x, key, flag, label, limit, file, DOMAIN file,
                     IF kind \in DOMAIN Seated THEN 1 ELSE 0)]
    BY Zenon DEF Begin
  <1>3. PICK x \in Names(kind), key \in Keys(kind),
        flag \in (IF kind \in {"create", "restore", "import", "erase"} THEN BOOLEAN ELSE {FALSE}),
        label \in (IF kind \in {"createType", "renameType"} THEN Labels ELSE {"none"}),
        limit \in (IF kind = "resize" THEN 0..MaxCapacity ELSE {0}),
        file \in (IF kind \in {"import", "cli"} THEN FileOrders ELSE {<<>>}) :
       request' = [request EXCEPT ![r] = z(kind, x, key, flag, label, limit, file, DOMAIN file,
                     IF kind \in DOMAIN Seated THEN 1 ELSE 0)]
    BY <1>2
  <1> DEFINE left == DOMAIN file
             new == IF kind \in DOMAIN Seated THEN 1 ELSE 0
             y == [NoRequest EXCEPT !.kind = kind, !.at = 1, !.x = x, !.key = key, !.label = label,
                     !.flag = flag, !.limit = limit, !.file = file, !.left = left,
                     !.new = new, !.state = "open"]
  <1>4. request' = [request EXCEPT ![r] = y] /\ left = DOMAIN file
    BY <1>3
  <1> HIDE DEF left, new
  <1>5. y.at = 1 /\ y.held = NoRequest.held
    BY NoRequestIs, Zenon DEF RequestRecords
  <1> HIDE DEF y
  <1>6. Climbs(r, y)
    BY <1>4, <1>5, NoRequestIs, FreshClimbs
  <1> QED BY <1>1, <1>4, <1>6, TurnClimbs

LEMMA ClaimClimbs ==
  ASSUME TypeOK, IInv, Climbing, NEW r \in Requests, Open(r), Claim(r)
  PROVE  Climbing'
PROOF
  <1>1. Op(r) = "claim" /\ person' = person
    BY DEF Claim
  <1>2. CASE job[r] # "pending"
    <2>1. Refuse(r) /\ RowsSame
      BY <1>2 DEF Claim, RowsSame
    <2> QED BY <2>1, RefuseClimbs
  <1>3. CASE job[r] = "pending"
    <2> DEFINE q == request[r]
               n == q.at + 1
               z == [q EXCEPT !.at = n]
    <2>0. PICK y : y = z
      OBVIOUS
    <2>1. request' = [request EXCEPT ![r] = y] /\ job' = [job EXCEPT ![r] = "running"]
      BY <1>3, <2>0 DEF Claim, Next1
    <2>2. q \in RequestRecords /\ n = q.at + 1 /\ PlanClimb(q.kind, q.at) /\ Op(r) = Plan[q.kind][q.at]
      BY ClimbPlace
    <2> HIDE DEF n
    <2>3. Leaves(q, z) /\ z.at = n /\ z.held = q.held
      BY <2>2, Zenon DEF RequestRecords, Leaves
    <2> HIDE DEF z
    <2>4. Climbs(r, y)
      BY <1>1, <2>0, <2>2, <2>3, StepClimbs DEF Leaves, Keeps
    <2>5. /\ \A p \in People : There(p)' => There(p)
          /\ \A p \in y.x : There(p)' => There(p)
      BY <1>1 DEF There
    <2>6. \A j \in Requests : job'[j] # "none" => job[j] # "none"
      BY <1>3, <2>1, TypeParts
    <2>7. y.kind # "delete"
      BY <1>1, <2>0, <2>2, <2>3, ZenonT(60) DEF PlanClimb, Leaves
    <2>8. Climbs(r, y)'
      BY <2>4, <2>5, <2>7, ClimbStays
    <2>9. y = request'[r] /\ \A x \in Requests \ {r} : request'[x] = request[x]
      BY <2>1, TypeParts
    <2>10. \A x \in Requests \ {r} : Open(x) /\ request[x].kind = "delete" /\ request[x].at > 3 =>
             \A j \in Requests : job'[j] # "none" => job[j] # "none"
      BY <2>6
    <2> QED BY <2>5, <2>8, <2>9, <2>10, ClimbLocal
  <1> QED BY <1>2, <1>3

\* The commit that makes a job holds the queue, as does who deletes the event.
LEMMA CommitClimbs ==
  ASSUME TypeOK, IInv, Climbing, NEW r \in Requests, Open(r), Commit(r)
  PROVE  Climbing'
PROOF
  <1> DEFINE c == request[r]
             n == c.at + 1
             none == {}
             over == [NoRequest EXCEPT !.state = "ok"]
             on == [c EXCEPT !.at = n, !.held = none]
  <1>1. /\ c \in RequestRecords
        /\ c.at = Len(Plan[c.kind]) \/ (c.kind = "import" /\ c.at = 3)
        /\ c.kind = "import" /\ c.at = 3 => Has(c, "queue", 0, "S")
        /\ c.kind = "import" /\ c.at # 3 => job[r] = "running"
    BY CommitPlace
  <1>2. /\ \A p \in People : There(p)' => There(p)
        /\ \A j \in Requests : job'[j] = JobAfter(r, j)
    BY CommitParts DEF There
  <1>3. ASSUME NEW x \in Requests \ {r}, Open(x), request[x].kind = "delete", request[x].at > 3,
               NEW j \in Requests, job'[j] # "none"
        PROVE  job[j] # "none"
    <2>1. Has(request[x], "queue", 0, "X")
      <3>1. Climbs(x, request[x]) /\ request[x].at \in Nat
        BY <1>3, ClimbPlace
      <3> QED BY <1>3, <3>1 DEF Climbs
    <2>2. ~Has(c, "queue", 0, "S")
      BY <1>3, <2>1, Clash DEF Advisory
    <2>3. CASE c.kind = "import" /\ j = r
      BY <1>1, <2>2, <2>3
    <2>4. CASE ~(c.kind = "import" /\ j = r)
      BY <1>2, <1>3, <2>4 DEF JobAfter
    <2> QED BY <2>3, <2>4
  <1>4. request' = [request EXCEPT ![r] = IF c.at = Len(Plan[c.kind]) THEN over ELSE on]
    BY DEF Commit
  <1>5. PICK y : y = IF c.at = Len(Plan[c.kind]) THEN over ELSE on
    OBVIOUS
  <1>6. y = request'[r] /\ \A x \in Requests \ {r} : request'[x] = request[x]
    BY <1>4, <1>5, TypeParts
  <1>7. y.state = "open" => Climbs(r, y)'
    <2>1. over.state = "ok"
      BY DoneIs
    <2>2. none = {} /\ Climbs(r, c)
      BY ClimbPlace
    <2> HIDE DEF n, none
    <2>3. Leaves(c, on) /\ on.held = none
      BY <1>1, Zenon DEF RequestRecords, Leaves
    <2> HIDE DEF over, on
    <2>4. ASSUME c.at # Len(Plan[c.kind])
          PROVE  Climbs(r, on) /\ on.kind # "delete" /\ on.x \subseteq People
      <3>1. on.kind = "import" /\ on.x \subseteq People
        BY <1>1, <2>3, <2>4, RequestFields DEF Leaves
      <3> QED BY <2>2, <2>3, <3>1, FreshClimbs
    <2>5. ASSUME c.at # Len(Plan[c.kind])
          PROVE  Climbs(r, y)'
      <3>1. Climbs(r, y) /\ y.kind # "delete" /\ \A p \in y.x : There(p)' => There(p)
        BY <1>2, <1>5, <2>4, <2>5
      <3> QED BY <3>1, ClimbStays
    <2> QED BY <1>5, <2>1, <2>5
  <1> QED BY <1>2, <1>3, <1>6, <1>7, ClimbLocal

LEMMA ClimbInit == Init => Climbing
PROOF
  <1> SUFFICES ASSUME Init
               PROVE  Climbing
    OBVIOUS
  <1>1. \A r \in Requests : ~Open(r)
    BY NoRequestIs DEF Init, Open
  <1> QED BY <1>1 DEF Climbing

LEMMA ClimbStep ==
  TypeOK /\ IInv /\ Climbing /\ [Next]_vars => Climbing'
PROOF
  <1> SUFFICES ASSUME TypeOK, IInv, Climbing, [Next]_vars
               PROVE  Climbing'
    OBVIOUS
  <1>1. CASE UNCHANGED vars
    <2>1. ASSUME NEW x \in Requests, Open(x)'
          PROVE  Climbs(x, request[x])'
      <3>1. PICK q : q = request'[x]
        OBVIOUS
      <3>2. Climbs(x, q)
        BY <1>1, <2>1, <3>1 DEF vars, Open, Climbing
      <3>3. (\A p : There(p)' <=> There(p)) /\ job' = job
        BY <1>1 DEF vars, There
      <3>4. Climbs(x, q)'
        BY <3>2, <3>3, ClimbStays
      <3> QED BY <3>1, <3>4, ClimbByName
    <2> QED BY <2>1 DEF Climbing
  <1>2. ASSUME NEW r \in Requests, Open(r), Step(r)
        PROVE  Climbing'
    <2>1. CASE Lock(r) \/ Skip(r) \/ LockJobs(r) \/ NeedEvent(r) \/ Claim(r) \/ OwnJob(r) \/ Check(r)
      BY <1>2, <2>1, LockClimbs, SkipClimbs, LockJobsClimbs, NeedEventClimbs, ClaimClimbs, OwnJobClimbs,
         TypesClimbs
    <2>2. CASE Fresh(r) \/ Match(r) \/ Read(r) \/ Limit(r) \/ Count(r) \/ Update(r) \/ Owned(r)
      BY <1>2, <2>2, TypesClimbs, MatchClimbs, ReadClimbs, LimitClimbs, CountClimbs, UpdateClimbs,
         OwnedClimbs
    <2>3. CASE \/ LockRows(r) \/ Set(r) \/ FromFile(r) \/ Label(r) \/ Unused(r) \/ Exists(r) \/ Empty(r)
               \/ Commit(r)
      BY <1>2, <2>3, LockRowsClimbs, SetClimbs, FileClimbs, AskClimbs, CommitClimbs
    <2> QED BY <1>2, <2>1, <2>2, <2>3 DEF Step
  <1>3. ASSUME NEW r \in Requests, Begin(r) \/ Step(r) \/ Retry(r) \/ Abort(r)
        PROVE  Climbing'
    <2>1. CASE Begin(r)
      BY <2>1, BeginClimbs
    <2>2. CASE Step(r)
      BY <1>2, <2>2 DEF Step
    <2>3. CASE Retry(r)
      BY <2>3, RetryClimbs
    <2>4. CASE Abort(r)
      BY <2>4, RefuseClimbs DEF Abort
    <2> QED BY <1>3, <2>1, <2>2, <2>3, <2>4
  <1> QED BY <1>1, <1>3 DEF Next

-----------------------------------------------------------------------------
(* Whoever is waited for waits for something higher.                       *)

\* The statements that lock jobs.
JobOps == {"claim", "ownJob", "openJobs", "allJobs", "results"}

\* What a request waits for.
LEMMA WantIs ==
  ASSUME TypeOK, IInv, Climbing, NEW r \in Requests, Open(r), NEW want \in Wants(r)
  PROVE  /\ want \in Locks \X Modes
         /\ \/ /\ want[1][1] \in Advisory \cup {"event"}
               /\ Reach[request[r].kind][request[r].at] < Rank[want[1][1]]
            \/ /\ Op(r) = "update" /\ want[1][1] = "person"
               /\ Reach[request[r].kind][request[r].at] < 8
            \/ Op(r) = "rows" /\ \E p \in NextRow(r) : want = <<<<"person", p>>, "X">>
            \/ Op(r) = "file" /\ \E p \in NextInFile(r) : want = <<<<"person", p>>, "N">>
            \/ Op(r) \in JobOps /\ \E j \in JobsWanted(r) : want = <<<<"job", j>>, "X">>
PROOF
  <1> DEFINE q == request[r]
             reach == Reach[q.kind][q.at]
  <1>1. /\ PlanClimb(q.kind, q.at) /\ Op(r) = Plan[q.kind][q.at]
        /\ q.x \subseteq People /\ q.left \subseteq People
    BY ClimbPlace, RequestFields
  <1>2. CASE Op(r) \in Advisory
    <2>1. want = <<<<Op(r), 0>>, "X">>
      BY <1>2 DEF Wants, Advisory, EventMode
    <2>2. reach < Rank[Op(r)]
      BY <1>1, <1>2, ZenonT(60) DEF PlanClimb
    <2>3. want \in Locks \X Modes
      BY <1>2, <2>1, LockKinds
    <2> QED BY <1>2, <2>1, <2>2, <2>3
  <1>3. CASE Op(r) = "queueShared"
    <2>1. want = <<<<"queue", 0>>, "S">>
      BY <1>3 DEF Wants, Advisory, EventMode
    <2>2. reach < 2
      BY <1>1, <1>3, SMTT(30) DEF PlanClimb
    <2>3. want \in Locks \X Modes /\ "queue" \in Advisory
      BY <2>1, LockKinds DEF Advisory
    <2> QED BY <2>1, <2>2, <2>3, RankIs
  <1>4. CASE Op(r) \in EventOps
    <2>1. want = <<<<"event", 0>>, EventMode[Op(r)]>> /\ EventMode[Op(r)] \in Modes
      BY <1>4 DEF Wants, Advisory, EventMode, EventOps, Modes
    <2>2. reach < 7
      BY <1>1, <1>4, ZenonT(60) DEF PlanClimb
    <2>3. want \in Locks \X Modes
      BY <2>1, LockKinds
    <2> QED BY <2>1, <2>2, <2>3, RankIs
  <1>5. CASE Op(r) = "update"
    <2>1. PICK p \in q.x : want = <<<<"person", p>>, "N">>
      BY <1>5 DEF Wants, Advisory, EventMode
    <2>2. reach < 8
      BY <1>1, <1>5, SMTT(30) DEF PlanClimb
    <2>3. want \in Locks \X Modes
      BY <1>1, <2>1, LockKinds
    <2> QED BY <1>5, <2>1, <2>2, <2>3
  <1>6. CASE Op(r) = "rows"
    <2>1. PICK p \in NextRow(r) : want = <<<<"person", p>>, "X">>
      BY <1>6 DEF Wants, Advisory, EventMode
    <2>2. want \in Locks \X Modes
      BY <1>1, <2>1, LockKinds DEF NextRow, RowsWanted
    <2> QED BY <1>6, <2>1, <2>2
  <1>7. CASE Op(r) = "file"
    <2>1. PICK p \in NextInFile(r) : want = <<<<"person", p>>, "N">>
      BY <1>7 DEF Wants, Advisory, EventMode
    <2>2. want \in Locks \X Modes
      BY <1>1, <2>1, LockKinds DEF NextInFile
    <2> QED BY <1>7, <2>1, <2>2
  <1>8. CASE Op(r) \notin Advisory \cup {"queueShared", "update", "rows", "file"} \cup EventOps
    <2>1. PICK j \in JobsWanted(r) : want = <<<<"job", j>>, "X">>
      BY <1>8 DEF Wants, EventMode, EventOps
    <2>2. want \in Locks \X Modes
      BY <2>1, LockKinds DEF JobsWanted
    <2>3. Op(r) \in JobOps
      BY DEF JobsWanted, JobOps
    <2> QED BY <2>1, <2>2, <2>3
  <1> QED BY <1>2, <1>3, <1>4, <1>5, <1>6, <1>7, <1>8

\* Who may wait for the job of another, or holds one, has the queue to itself.
LEMMA QueueHeld ==
  ASSUME TypeOK, IInv, Climbing, NEW r \in Requests, Open(r)
  PROVE  LET q == request[r] IN
         /\ Op(r) \in {"openJobs", "allJobs", "results"} => Has(q, "queue", 0, "X")
         /\ \A j \in Requests : Has(q, "job", j, "X") =>
              Has(q, "queue", 0, "X") \/ (j = r /\ job[j] = "running")
PROOF
  <1> DEFINE q == request[r]
  <1>1. /\ PlanClimb(q.kind, q.at) /\ Op(r) = Plan[q.kind][q.at] /\ Climbs(r, q) /\ OpenGood(r, q)
    BY ClimbPlace
  <1>2. q.kind \in Erasing \cup {"delete"} /\ 4 <= Reach[q.kind][q.at] => Has(q, "queue", 0, "X")
    <2>1. CASE q.kind \in Erasing
      BY <1>1, <2>1 DEF OpenGood, Locked, PlanClimb
    <2>2. CASE q.kind = "delete"
      BY <1>1, <2>2 DEF Climbs, PlanClimb
    <2> QED BY <2>1, <2>2
  <1>3. Op(r) \in {"openJobs", "allJobs", "results"} =>
          q.kind \in Erasing \cup {"delete"} /\ 4 <= Reach[q.kind][q.at]
    BY <1>1, ZenonT(60) DEF PlanClimb
  <1>4. ASSUME NEW j \in Requests, Has(q, "job", j, "X")
        PROVE  Has(q, "queue", 0, "X") \/ (j = r /\ job[j] = "running")
    <2>1. PICK want \in q.held : want = <<<<"job", j>>, "X">>
      BY <1>4 DEF Has
    <2>2. want[1][1] = "job" /\ want[1][2] = j
      BY <2>1
    <2>3. Rank["job"] <= Reach[q.kind][q.at]
          /\ (q.kind \in Erasing \cup {"delete"} \/ (q.kind = "import" /\ j = r /\ q.at > 5))
      BY <1>1, <2>2 DEF Climbs
    <2>4. CASE q.kind = "import" /\ j = r /\ q.at > 5
      BY <1>1, <2>4 DEF OpenGood, Found
    <2> QED BY <1>2, <2>3, <2>4, RankIs
  <1> QED BY <1>2, <1>3, <1>4

\* What is held by one that is waited for.
LEMMA InTheWayIs ==
  ASSUME TypeOK, IInv, Climbing, NEW q \in Requests, NEW want \in Locks \X Modes, InTheWay(q, want)
  PROVE  /\ Open(q)
         /\ Rank[want[1][1]] <= Reach[request[q].kind][request[q].at]
         /\ want[1][1] = "job" => Has(request[q], "job", want[1][2], "X")
         /\ want[1][1] = "person" => HasPerson(request[q], want[1][2])
PROOF
  <1>1. PICK mode \in Modes : <<want[1], mode>> \in request[q].held /\ Open(q)
    BY DEF InTheWay
  <1>2. Climbs(q, request[q])
    BY <1>1, ClimbPlace
  <1>3. Rank[want[1][1]] <= Reach[request[q].kind][request[q].at]
    <2>1. PICK w \in request[q].held : w = <<want[1], mode>>
      BY <1>1
    <2> QED BY <1>2, <2>1 DEF Climbs
  <1>4. /\ want[1][1] = "job" => want[1] = <<"job", want[1][2]>>
        /\ want[1][1] = "person" => want[1] = <<"person", want[1][2]>>
    BY LockIs
  <1>5. want[1][1] = "job" => Has(request[q], "job", want[1][2], "X")
    BY <1>1, <1>4, HoldsJob DEF Holds
  <1>6. want[1][1] = "person" => HasPerson(request[q], want[1][2])
    BY <1>1, <1>4, HoldsJob DEF Holds
  <1> QED BY <1>1, <1>3, <1>5, <1>6

\* The levels.
LEMMA LevelIs ==
  ASSUME NEW r, NEW want \in Locks \X Modes
  PROVE  /\ want[1][1] = "person" => Level(r, want) = 8 + want[1][2]
         /\ want[1][1] # "person" => /\ Level(r, want) \in 1..7
                                     /\ Level(r, want) <= Rank[want[1][1]]
                                     /\ Rank[want[1][1]] \in 1..7
         /\ want[1][1] = "job" => Level(r, want) = IF Op(r) \in {"claim", "ownJob"} THEN 3 ELSE 4
         /\ want[1][1] \notin {"person", "job"} => Level(r, want) = Rank[want[1][1]]
PROOF
  <1>1. want[1][1] \in {"scoped", "queue", "types", "capacity", "event", "job", "person"}
    BY LockIs
  <1>2. CASE want[1][1] = "person"
    BY <1>2 DEF Level
  <1>3. CASE want[1][1] = "job"
    <2>1. Level(r, want) = IF Op(r) \in {"claim", "ownJob"} THEN 3 ELSE 4
      BY <1>3, RankIs DEF Level
    <2> QED BY <1>3, <2>1, RankIs
  <1>4. CASE want[1][1] \notin {"person", "job"}
    <2>1. Level(r, want) = Rank[want[1][1]]
      BY <1>4 DEF Level
    <2>2. Rank[want[1][1]] \in 1..7
      BY <1>1, <1>4, RankIs
    <2> QED BY <1>4, <2>1, <2>2
  <1> QED BY <1>2, <1>3, <1>4

\* Who is blocked at the row of a job holds nothing but the queue and jobs.
LEMMA JobWaitIs ==
  ASSUME TypeOK, IInv, Climbing, NEW q \in Requests, NEW s \in Requests, q # s, Open(q), Open(s),
         NEW next \in Locks \X Modes, InTheWay(s, next), Op(q) \in JobOps,
         NEW j \in JobsWanted(q), next = <<<<"job", j>>, "X">>
  PROVE  \/ Op(q) \in {"claim", "ownJob"} /\ Reach[request[q].kind][request[q].at] = 0
         \/ /\ Has(request[q], "queue", 0, "X") /\ Op(q) \in {"openJobs", "allJobs"}
            /\ Reach[request[q].kind][request[q].at] = 4
PROOF
  <1> DEFINE c == request[q]
             reach == Reach[c.kind][c.at]
  <1>1. Climbs(q, c) /\ PlanClimb(c.kind, c.at) /\ Op(q) = Plan[c.kind][c.at]
    BY ClimbPlace
  <1>2. j \in Requests /\ next[1][1] = "job" /\ next[1][2] = j /\ ~Has(c, "job", j, "X")
    BY DEF JobsWanted, Holds, Has, Modes
  <1>3. Has(request[s], "job", j, "X")
    BY <1>2, InTheWayIs
  <1>4. Op(q) \in {"claim", "ownJob"} => reach = 0
    BY <1>1, ZenonT(60) DEF PlanClimb
  <1>5. CASE Op(q) \notin {"claim", "ownJob"}
    <2>1. Has(c, "queue", 0, "X") /\ Op(q) \in {"openJobs", "allJobs", "results"}
      BY <1>5, QueueHeld DEF JobOps
    <2>2. ASSUME Op(q) = "results"
          PROVE  FALSE
      <3>1. job[j] = "succeeded"
        BY <2>2 DEF JobsWanted
      <3>2. Has(request[s], "queue", 0, "X")
        BY <1>2, <1>3, <3>1, QueueHeld
      <3> QED BY <2>1, <3>2, Clash DEF Advisory
    <2>3. CASE Op(q) = "openJobs"
      <3>1. reach = 4
        BY <1>1, <2>3, SMTT(30) DEF PlanClimb
      <3> QED BY <2>1, <2>3, <3>1
    <2>4. CASE Op(q) = "allJobs"
      <3>1. c.kind = "delete" /\ (reach = 4 \/ c.at > 3)
        BY <1>1, <2>4, SMTT(30) DEF PlanClimb
      <3>2. job[j] # "none"
        BY <2>4 DEF JobsWanted
      <3>3. reach = 4
        BY <1>1, <1>2, <3>1, <3>2 DEF Climbs
      <3> QED BY <2>1, <2>4, <3>3
    <2> QED BY <2>1, <2>2, <2>3, <2>4
  <1> QED BY <1>4, <1>5

\* r waits for q, q for s: what q waits for is higher than what r waits for, unless q is
\* on its way through a file.
LEMMA Rises ==
  ASSUME TypeOK, IInv, Climbing, NEW r \in Requests, NEW q \in Requests, NEW s \in Requests,
         r # q, q # s, Open(r), Open(q), Open(s), NEW want \in Wants(r), NEW next \in Wants(q),
         InTheWay(q, want), InTheWay(s, next), Op(q) # "file"
  PROVE  Level(r, want) < Level(q, next)
PROOF
  <1> DEFINE c == request[q]
             reach == Reach[c.kind][c.at]
             rank == Rank[want[1][1]]
  <1>1. want \in Locks \X Modes /\ next \in Locks \X Modes
    BY WantIs
  <1>2. /\ rank <= reach
        /\ want[1][1] = "job" => Has(c, "job", want[1][2], "X")
        /\ want[1][1] = "person" => HasPerson(c, want[1][2])
    BY <1>1, InTheWayIs
  <1>3. /\ Climbs(q, c) /\ PlanClimb(c.kind, c.at) /\ Op(q) = Plan[c.kind][c.at]
        /\ c.x \subseteq People
    BY ClimbPlace, RequestFields
  <1>4. reach \in 0..8
    BY <1>3, ZenonT(60) DEF PlanClimb
  <1>5. rank \in 1..8 /\ (want[1][1] = "person" => rank = 8 /\ want[1][2] \in People)
    BY <1>1, LockIs, RankIs
  <1>6. want[1][1] # "person" => Level(r, want) \in 1..7 /\ Level(r, want) <= rank /\ rank \in 1..7
    BY <1>1, LevelIs
  <1>7. CASE next[1][1] \in Advisory \cup {"event"} /\ reach < Rank[next[1][1]]
    <2>1. next[1][1] \notin {"person", "job"}
      BY <1>7 DEF Advisory
    <2>2. Level(q, next) = Rank[next[1][1]] /\ Rank[next[1][1]] \in 1..7
      BY <1>1, <2>1, LevelIs
    <2>3. want[1][1] # "person"
      BY <1>2, <1>4, <1>5, <1>7, <2>2
    <2> QED BY <1>2, <1>4, <1>6, <1>7, <2>2, <2>3
  <1>8. ASSUME next[1][1] = "person", want[1][1] = "person" => want[1][2] < next[1][2]
        PROVE  Level(r, want) < Level(q, next)
    <2>1. next[1][2] \in People /\ Level(q, next) = 8 + next[1][2]
      BY <1>1, <1>8, LevelIs, LockIs
    <2>2. next[1][2] \in Nat
      BY <2>1, EventAssumption
    <2>3. CASE want[1][1] = "person"
      <3>1. want[1][2] \in Nat /\ Level(r, want) = 8 + want[1][2]
        BY <1>1, <1>5, <2>3, LevelIs, EventAssumption
      <3> QED BY <1>8, <2>1, <2>2, <2>3, <3>1
    <2>4. CASE want[1][1] # "person"
      BY <1>6, <2>1, <2>2, <2>4
    <2> QED BY <2>3, <2>4
  <1>9. CASE Op(q) = "update" /\ next[1][1] = "person" /\ reach < 8
    <2>1. want[1][1] # "person"
      BY <1>2, <1>4, <1>5, <1>9
    <2> QED BY <1>8, <1>9, <2>1
  <1>10. CASE Op(q) = "rows" /\ \E p \in NextRow(q) : next = <<<<"person", p>>, "X">>
    <2>1. PICK p \in NextRow(q) : next = <<<<"person", p>>, "X">>
      BY <1>10
    <2>2. p \in c.x /\ There(p) /\ ~HasPerson(c, p)
      <3>1. p \in c.x /\ There(p) /\ ~Holds(q, <<"person", p>>)
        BY <2>1 DEF NextRow, RowsWanted
      <3> QED BY <3>1 DEF Holds, HasPerson, Has, Modes
    <2>3. ById(c, {x \in c.x : There(x) /\ ~HasPerson(c, x)})
      BY <1>3, <1>10 DEF Climbs
    <2>4. want[1][1] = "person" => want[1][2] < p
      BY <1>2, <1>5, <2>2, <2>3 DEF ById
    <2>5. next[1][1] = "person" /\ next[1][2] = p
      BY <2>1
    <2> QED BY <1>8, <2>4, <2>5
  <1>11. ASSUME Op(q) \in JobOps, NEW j \in JobsWanted(q), next = <<<<"job", j>>, "X">>
         PROVE  Level(r, want) < Level(q, next)
    <2>1. next[1][1] = "job"
      BY <1>11
    <2>2. Op(q) \notin {"claim", "ownJob"} \/ reach # 0
      BY <1>2, <1>5
    <2>3. reach = 4 /\ Has(c, "queue", 0, "X") /\ Op(q) \in {"openJobs", "allJobs"}
      BY <1>1, <1>11, <2>2, JobWaitIs
    <2>4. Level(q, next) = 4
      BY <1>1, <2>1, <2>3, LevelIs
    <2>5. want[1][1] # "person"
      BY <1>2, <1>5, <2>3
    <2>6. CASE want[1][1] = "job"
      <3>1. Op(r) \in JobOps
        BY <2>6, WantIs DEF Advisory
      <3>2. Op(r) \notin {"openJobs", "allJobs", "results"}
        BY <2>3, QueueHeld, Clash DEF Advisory
      <3>3. Level(r, want) = 3
        BY <1>1, <2>6, <3>1, <3>2, LevelIs DEF JobOps
      <3> QED BY <2>4, <3>3
    <2>7. CASE want[1][1] # "job"
      <3>1. want[1][1] \in {"scoped", "queue", "types", "capacity", "event"}
        BY <1>1, <2>5, <2>7, LockIs
      <3>2. rank # 4
        BY <3>1, RankIs
      <3> QED BY <1>2, <1>6, <2>3, <2>4, <2>5, <3>2
    <2> QED BY <2>6, <2>7
  <1> QED BY <1>7, <1>9, <1>10, <1>11, WantIs

-----------------------------------------------------------------------------
(* A circle needs a file.                                                  *)

\* A finite set of numbers has a highest one: the numbers above it are the fewest.
LEMMA Highest ==
  ASSUME NEW S, IsFiniteSet(S), S \subseteq Nat, NEW T, T \subseteq S, T # {}
  PROVE  \E n \in T : \A m \in T : m <= n
PROOF
  <1> DEFINE Above(n) == {m \in S : m > n}
             U == {Above(n) : n \in T}
  <1>1. U \subseteq FiniteSubsetsOf(S) /\ U # {}
    <2>1. FiniteSubsetsOf(S) = SUBSET S
      BY FS_FiniteSubsetsOfFinite
    <2>2. \A n \in T : Above(n) \in SUBSET S
      OBVIOUS
    <2> HIDE DEF Above
    <2>3. \A x \in U : x \in SUBSET S
      BY <2>2
    <2>4. PICK n \in T : TRUE
      OBVIOUS
    <2>5. Above(n) \in U
      OBVIOUS
    <2> HIDE DEF U
    <2> QED BY <2>1, <2>3, <2>5
  <1>2. IsWellFoundedOn(StrictSubsetOrdering(S), FiniteSubsetsOf(S))
    BY FS_StrictSubsetOrderingWellFounded
  <1>3. \E x \in U : \A y \in U : ~(<<y, x>> \in StrictSubsetOrdering(S))
    <2> HIDE DEF U
    <2> QED BY <1>1, <1>2, WFMin
  <1>4. PICK n \in T : \A m \in T : ~(<<Above(m), Above(n)>> \in StrictSubsetOrdering(S))
    BY <1>3
  <1>5. ASSUME NEW m \in T, ~(m <= n)
        PROVE  FALSE
    <2>1. m \in Nat /\ n \in Nat /\ m > n
      BY <1>5
    <2>2. Above(m) \subseteq Above(n)
      <3>1. ASSUME NEW k \in S, k > m
            PROVE  k > n
        <4>1. k \in Nat
          OBVIOUS
        <4> QED BY <2>1, <3>1, <4>1
      <3> QED BY <3>1
    <2>3. m \in Above(n) /\ m \notin Above(m)
      BY <2>1
    <2>4. Above(m) \in SUBSET S /\ Above(n) \in SUBSET S
      OBVIOUS
    <2> HIDE DEF Above
    <2>5. <<Above(m), Above(n)>> \in StrictSubsetOrdering(S)
      BY <2>2, <2>3, <2>4 DEF StrictSubsetOrdering
    <2> QED BY <1>4, <2>5
  <1> QED BY <1>5

\* The levels there are.
Levels == (1..7) \cup {8 + p : p \in People}

\* People and the ranks below them are finitely many.
LEMMA LevelsFinite == IsFiniteSet(Levels) /\ Levels \subseteq Nat
PROOF
  <1> DEFINE S == {8 + p : p \in People}
             f == [p \in People |-> 8 + p]
  <1>1. f \in Surjection(People, S)
    BY DEF Surjection
  <1>2. IsFiniteSet(People) /\ People \subseteq Nat
    BY EventAssumption
  <1>3. IsFiniteSet(S)
    <2> HIDE DEF S, f
    <2> QED BY <1>1, <1>2, FS_Surjection
  <1>4. IsFiniteSet(1..7)
    <2>1. 1 \in Int /\ 7 \in Int
      OBVIOUS
    <2> QED BY <2>1, FS_Interval
  <1>5. IsFiniteSet((1..7) \cup S)
    <2> HIDE DEF S
    <2> QED BY <1>3, <1>4, FS_Union
  <1> QED BY <1>2, <1>5 DEF Levels

\* In a circle without a request on its way through a file, whoever waits for what is
\* highest is blocked by one who waits for more.
LEMMA NoCircle ==
  ASSUME TypeOK, IInv, Climbing, NEW D \in SUBSET Requests, D # {},
         \A r \in D : \E q \in D : WaitsFor(r, q), \A r \in D : Op(r) # "file"
  PROVE  FALSE
PROOF
  <1> DEFINE Blocked(r, q, want) == Open(r) /\ Open(q) /\ q # r /\ InTheWay(q, want)
             T == {n \in Levels : \E r \in D, q \in D : \E want \in Wants(r) :
                                    Blocked(r, q, want) /\ n = Level(r, want)}
  <1>1. \A r \in D : \E q \in D : \E want \in Wants(r) : Blocked(r, q, want)
    BY DEF WaitsFor, InTheWay
  <1>2. ASSUME NEW r \in D, NEW q \in D, NEW want \in Wants(r), Blocked(r, q, want)
        PROVE  Level(r, want) \in T
    <2>1. r \in Requests /\ Open(r)
      BY <1>2
    <2>2. want \in Locks \X Modes
      BY <2>1, WantIs
    <2>3. Level(r, want) \in Levels
      <3>1. CASE want[1][1] = "person"
        BY <2>2, <3>1, LevelIs, LockIs DEF Levels
      <3>2. CASE want[1][1] # "person"
        BY <2>2, <3>2, LevelIs DEF Levels
      <3> QED BY <3>1, <3>2
    <2> QED BY <1>2, <2>3
  <1>3. T # {}
    <2>1. PICK r \in D : TRUE
      OBVIOUS
    <2>2. PICK q \in D : \E want \in Wants(r) : Blocked(r, q, want)
      BY <1>1
    <2>3. PICK want \in Wants(r) : Blocked(r, q, want)
      BY <2>2
    <2>4. Level(r, want) \in T
      BY <1>2, <2>3
    <2> QED BY <2>4
  <1>4. \E n \in T : \A m \in T : m <= n
    <2>1. T \subseteq Levels
      OBVIOUS
    <2> HIDE DEF T
    <2> QED BY <1>3, <2>1, LevelsFinite, Highest
  <1>5. PICK n \in T : \A m \in T : m <= n
    BY <1>4
  <1>6. PICK r \in D, q \in D : \E want \in Wants(r) : Blocked(r, q, want) /\ n = Level(r, want)
    BY <1>5
  <1>7. PICK want \in Wants(r) : Blocked(r, q, want) /\ n = Level(r, want)
    BY <1>6
  <1>8. PICK s \in D : \E next \in Wants(q) : Blocked(q, s, next)
    BY <1>1
  <1>9. PICK next \in Wants(q) : Blocked(q, s, next)
    BY <1>8
  <1>10. Level(q, next) \in T
    BY <1>2, <1>9
  <1>11. Level(r, want) < Level(q, next)
    <2>1. /\ r \in Requests /\ q \in Requests /\ s \in Requests /\ r # q /\ q # s
          /\ Open(r) /\ Open(q) /\ Open(s) /\ InTheWay(q, want) /\ InTheWay(s, next)
      BY <1>7, <1>9
    <2> QED BY <2>1, Rises
  <1>12. n \in Nat /\ Level(q, next) \in Nat /\ Level(q, next) <= n
    <2>1. T \subseteq Nat
      BY LevelsFinite
    <2> HIDE DEF T
    <2> QED BY <1>5, <1>10, <2>1
  <1> QED BY <1>7, <1>11, <1>12

\* Who goes through a file has the capacity lock.
LEMMA FileHasCapacity ==
  ASSUME TypeOK, IInv, SInv, NEW r \in Requests, Open(r), Op(r) = "file"
  PROVE  Has(request[r], "capacity", 0, "X")
PROOF
  <1> DEFINE q == request[r]
  <1>1. /\ q.kind \in DOMAIN Plan /\ Op(r) = Plan[q.kind][q.at] /\ q.at \in Nat /\ q.at >= 1
        /\ q.at <= Len(Plan[q.kind]) /\ Seating(q)
    BY OpenPlace DEF SInv, SeatsGood, SeatOk
  <1>2. PlanClimb(q.kind, q.at)
    BY <1>1, PlanClimbs
  <1>3. q.kind \in {"import", "cli"}
    BY <1>1, <1>2, ZenonT(60) DEF PlanClimb
  <1>4. CASE q.kind = "import"
    <2>1. Plan[q.kind] = Import /\ q.at \in 1..14 /\ Import[q.at] = "file"
      BY <1>1, <1>4 DEF Plan, Import
    <2>2. q.at > 7
      BY <2>1 DEF Import
    <2> QED BY <1>1, <1>4, <2>2 DEF Seating
  <1>5. CASE q.kind = "cli"
    <2>1. Plan[q.kind] = Importer /\ q.at \in 1..9 /\ Importer[q.at] = "file"
      BY <1>1, <1>5 DEF Plan, Importer
    <2>2. q.at > 3
      BY <2>1 DEF Importer
    <2> QED BY <1>1, <1>5, <2>2 DEF Seating
  <1> QED BY <1>3, <1>4, <1>5

\* Whoever keeps an import waiting for a person, and waits itself, locks people by id; an
\* erasure does not, as it has the row of the import's job.
LEMMA FileWaits ==
  ASSUME TypeOK, IInv, SInv, Climbing, NEW r \in Requests, NEW q \in Requests, NEW s \in Requests,
         WaitsFor(r, q), WaitsFor(q, s), Op(r) = "file"
  PROVE  Op(q) = "rows" /\ (request[r].kind = "import" => request[q].kind \in {"bulk", "bulkType"})
PROOF
  <1> DEFINE c == request[q]
             reach == Reach[c.kind][c.at]
  <1>1. Open(r) /\ Open(q) /\ Open(s) /\ r # q /\ q # s
    BY DEF WaitsFor, InTheWay
  <1>2. PICK want \in Wants(r) : InTheWay(q, want)
    BY DEF WaitsFor
  <1>3. PICK next \in Wants(q) : InTheWay(s, next)
    BY DEF WaitsFor
  <1>4. want \in Locks \X Modes /\ next \in Locks \X Modes
    BY <1>1, WantIs
  <1>5. PICK p \in NextInFile(r) : want = <<<<"person", p>>, "N">>
    BY <1>2 DEF Wants, Advisory, EventMode
  <1>6. 8 <= reach
    BY <1>1, <1>2, <1>4, <1>5, InTheWayIs, RankIs
  <1>7. PlanClimb(c.kind, c.at) /\ Op(q) = Plan[c.kind][c.at] /\ OpenGood(q, c)
    BY <1>1, ClimbPlace
  <1>8. /\ PlanClimb(request[r].kind, request[r].at) /\ OpenGood(r, request[r])
        /\ Op(r) = Plan[request[r].kind][request[r].at]
    BY <1>1, ClimbPlace
  <1>9. reach \in 0..8
    BY <1>7, ZenonT(60) DEF PlanClimb
  <1>10. Op(q) # "file"
    <2>1. SUFFICES ASSUME Op(q) = "file"
                   PROVE  FALSE
      OBVIOUS
    <2>2. Has(request[r], "capacity", 0, "X") /\ Has(c, "capacity", 0, "X")
      BY <1>1, <2>1, FileHasCapacity
    <2> QED BY <1>1, <2>2, Clash DEF Advisory
  <1>11. ~(next[1][1] \in Advisory \cup {"event"} /\ reach < Rank[next[1][1]])
    BY <1>6, <1>9, RankIs DEF Advisory
  <1>12. Op(q) \notin JobOps
    <2>1. SUFFICES ASSUME Op(q) \in JobOps
                   PROVE  FALSE
      OBVIOUS
    <2>2. PICK j \in JobsWanted(q) : next = <<<<"job", j>>, "X">>
      <3>1. Op(q) \notin {"update", "rows", "file"}
        BY <2>1 DEF JobOps
      <3> QED BY <1>1, <1>3, <1>11, <3>1, WantIs
    <2>3. reach = 0 \/ reach = 4
      BY <1>1, <1>3, <1>4, <2>1, <2>2, JobWaitIs
    <2> QED BY <1>6, <2>3
  <1>13. Op(q) = "rows"
    BY <1>1, <1>3, <1>6, <1>9, <1>10, <1>11, <1>12, WantIs
  <1>14. c.kind \in {"bulk", "bulkType", "erase", "remove"}
    BY <1>7, <1>13, ZenonT(60) DEF PlanClimb
  <1>15. ASSUME request[r].kind = "import", c.kind \in Erasing
         PROVE  FALSE
    <2>1. Plan[request[r].kind] = Import /\ request[r].at \in 1..14 /\ Import[request[r].at] = "file"
      BY <1>8, <1>15 DEF Plan, OpenGood, Placed, Import
    <2>2. request[r].at > 5
      BY <2>1 DEF Import
    <2>3. Has(request[r], "job", r, "X") /\ OpenJob(r)
      <3>1. Locked(r, request[r]) /\ Found(r, request[r])
        BY <1>8 DEF OpenGood
      <3>2. Has(request[r], "job", r, "X")
        BY <1>15, <2>2, <3>1 DEF Locked
      <3>3. job[r] = "running"
        BY <1>15, <2>2, <3>1 DEF Found
      <3> QED BY <3>2, <3>3 DEF OpenJob
    <2>4. Plan[c.kind] = Erase
      BY <1>15 DEF Plan, Erasing
    <2>5. Len(Erase) = 6 /\ c.at \in 1..Len(Plan[c.kind]) /\ Erase[c.at] = "rows"
      BY <1>7, <1>13, <2>4 DEF OpenGood, Placed, Erase
    <2>6. c.at > 2
      BY <2>4, <2>5 DEF Erase
    <2>7. Has(c, "job", r, "X")
      BY <1>7, <1>15, <2>3, <2>6 DEF OpenGood, Found
    <2> QED BY <1>1, <2>3, <2>7, Clash
  <1> QED BY <1>13, <1>14, <1>15 DEF Erasing

\* "None of these waits can end in a cycle" (stop-open-jobs.ts), but for those of an import that
\* updates people in the order of its file, and then not with an erasure or a removal if the
\* import is a job (lockOpenAttendeeJobs); for any number of requests, people and jobs, any files.
THEOREM OnlyFileOrderDeadlocks == Spec => []OnlyFilesMakeCycles
PROOF
  <1>1. ASSUME TypeOK, IInv, SInv, Climbing
        PROVE  OnlyFilesMakeCycles
    <2>1. SUFFICES ASSUME NEW D \in SUBSET Requests, D # {}, \A r \in D : \E q \in D : WaitsFor(r, q)
                   PROVE  \E r, q \in D :
                            /\ WaitsFor(r, q) /\ Op(r) = "file" /\ Op(q) = "rows"
                            /\ request[r].kind = "import" => request[q].kind \in {"bulk", "bulkType"}
      BY DEF OnlyFilesMakeCycles
    <2>2. PICK r \in D : Op(r) = "file"
      BY <1>1, <2>1, NoCircle
    <2>3. PICK q \in D : WaitsFor(r, q)
      BY <2>1
    <2>4. PICK s \in D : WaitsFor(q, s)
      BY <2>1
    <2> QED BY <1>1, <2>2, <2>3, <2>4, FileWaits
  <1>2. TypeOK /\ IInv /\ SInv /\ Climbing => OnlyFilesMakeCycles
    BY <1>1
  <1>3. TypeOK /\ IInv /\ Climbing /\ [Next]_vars => Climbing'
    BY ClimbStep
  <1> QED BY <1>2, <1>3, ClimbInit, Invariant, SeatsInit, SeatsStep, PTL DEF Spec
=============================================================================
