----------------------- MODULE WalletLifecycleProofs -----------------------
(***************************************************************************)
(* What TLAPS proves of WalletLifecycle for every number of requests, any  *)
(* lag of the provider's search within the window, and any bounds.         *)
(***************************************************************************)
EXTENDS WalletLifecycle, TLAPS

----------------------------------------------------------------------------
(* Types.                                                                  *)

Places == {"idle", "patch", "load", "call", "ask", "answer", "apply", "again", "delete",
           "write", "realign", "recall", "restamp", "done", "lost"}
Statuses == Inactive \cup {"active"}
Saw == [status : Statuses, stamp : Times]

WorldType ==
  /\ now \in Times /\ now >= 1 /\ expires \in BOOLEAN /\ ticket \in {"registered", "revoked"}
  /\ pass \in [here : BOOLEAN, voided : BOOLEAN]
  /\ was \in [Times -> SUBSET BOOLEAN]
ActorType == actor \in [Everybody -> Actor]
RowType == row \in Row

LEMMA TypeParts == WorldType /\ ActorType /\ RowType => TypeOK
PROOF
  BY DEF WorldType, ActorType, RowType, TypeOK

LEMMA NoActorType ==
  NoActor \in Actor /\ NoActor.at = "idle" /\ NoActor.kind = "none" /\ ~NoActor.voided
PROOF
  <1>1. Nothing \in Saw /\ 0 \in Times
    BY LifecycleAssumption DEF Nothing, Saw, Statuses, Times, LifecycleAssumption
  <1> QED BY <1>1, Zenon DEF NoActor, Actor, Saw, Statuses

\* Changing what one of them is doing.
LEMMA ActorSet ==
  ASSUME ActorType, NEW a \in Everybody, NEW x \in Actor, actor' = [actor EXCEPT ![a] = x]
  PROVE  ActorType' /\ \A b \in Everybody : actor'[b] = IF b = a THEN x ELSE actor[b]
PROOF
  BY DEF ActorType

\* The fields of one of them.
LEMMA ActorFields ==
  ASSUME ActorType, NEW a \in Everybody
  PROVE  /\ actor[a] \in Actor /\ actor[a].kind \in Kinds \cup {"none"}
         /\ actor[a].saw \in Saw /\ actor[a].asked \in Times
         /\ actor[a].voided \in BOOLEAN /\ actor[a].at \in Places
PROOF
  <1>1. actor[a] \in Actor
    BY DEF ActorType
  <1> QED BY <1>1, Zenon DEF Actor, Saw, Statuses, Places

\* Going on to another place.
LEMMA PlaceSet ==
  ASSUME NEW y \in Actor, NEW place \in Places
  PROVE  LET x == [y EXCEPT !.at = place] IN
         x \in Actor /\ x.at = place /\ x.kind = y.kind /\ x.voided = y.voided
                     /\ x.asked = y.asked /\ x.saw = y.saw
PROOF
  BY Zenon DEF Actor, Places


----------------------------------------------------------------------------
(* What a step may make of the one who takes it: it ends, starts, goes on  *)
(* within its command, or is at one of the places the properties are about.*)

Removing(x) == x.kind = "remove" /\ x.at \in {"write", "lost"}
Plain == Places \ {"idle", "again", "delete", "apply", "lost", "write"}

Ended(x, y) == y.kind = "none" /\ y.at \in {"idle", "done"} /\ (Removing(x) => row'.removed)
Started(a, x, y) ==
  ~Removing(x) /\ y.at \in Plain \ {"call"} /\ (a = Watcher => y.kind = "look")
WentOn(x, y) ==
  ~Removing(x) /\ y.kind = x.kind /\ y.at \in Plain /\ (y.at = "call" => x.kind # "remove")
Wrote(x, y) == ~Removing(x) /\ y.kind = x.kind /\ y.at = "write"
Again2(x, y) == ~Removing(x) /\ y.kind = "remove" /\ x.kind = "remove" /\ y.at = "again"
Deletes(x, y) == x.at = "again" /\ y.kind = x.kind /\ y.at = "delete"
Answered(x, y) == /\ x.at = "answer" /\ y.kind = x.kind /\ y.at = "apply"
                  /\ y.asked = x.asked /\ y.voided \in Answers(x.asked)
Lost(x, y) == Removing(x) /\ y.kind = x.kind /\ y.at = "lost"

Follows(a, x, y) ==
  \/ Ended(x, y) \/ Started(a, x, y) \/ WentOn(x, y) \/ Wrote(x, y) \/ Again2(x, y) \/ Deletes(x, y)
  \/ Answered(x, y) \/ Lost(x, y)

Becoming(a, y) == y \in Actor /\ actor' = [actor EXCEPT ![a] = y] /\ Follows(a, actor[a], y)

\* The end of whatever one was doing.
LEMMA EndsFollows ==
  ASSUME ActorType, NEW a \in Everybody, Ends(a), Removing(actor[a]) => row'.removed
  PROVE  \E y : Becoming(a, y)
PROOF
  <1> DEFINE y == IF a = Watcher THEN NoActor ELSE [NoActor EXCEPT !.at = "done"]
  <1>a. NoActor \in Actor /\ NoActor.at = "idle" /\ NoActor.kind = "none" /\ "done" \in Places
    BY NoActorType DEF Places
  <1>b. LET x == [NoActor EXCEPT !.at = "done"] IN
        x \in Actor /\ x.at = "done" /\ x.kind = "none"
    BY <1>a, PlaceSet
  <1>1. y \in Actor /\ y.kind = "none" /\ y.at \in {"idle", "done"}
    BY <1>a, <1>b
  <1>2. actor' = [actor EXCEPT ![a] = y]
    BY DEF Ends
  <1>3. Becoming(a, y)
    BY <1>1, <1>2 DEF Becoming, Follows, Ended
  <1> QED BY <1>3

\* Going on to a place within the command.
LEMMA GoesFollows ==
  ASSUME ActorType, NEW a \in Everybody, NEW place \in Plain \ {"call"}, Goes(a, place), ~Removing(actor[a])
  PROVE  \E y : Becoming(a, y)
PROOF
  <1> DEFINE y == [actor[a] EXCEPT !.at = place]
  <1>1. actor[a] \in Actor /\ place \in Places
    BY ActorFields DEF Plain
  <1>2. y \in Actor /\ y.kind = actor[a].kind /\ y.at = place
    BY <1>1, PlaceSet
  <1>3. actor' = [actor EXCEPT ![a] = y]
    BY DEF Goes
  <1>4. Becoming(a, y)
    BY <1>2, <1>3 DEF Becoming, Follows, WentOn
  <1> QED BY <1>4

\* Every step leaves all but one as they were, and that one as Follows says.
LEMMA StartFollows ==
  ASSUME ActorType, NEW a \in Everybody, Start(a)  PROVE \E y : Becoming(a, y)
PROOF
  <1>1. PICK kind \in IF a = Watcher THEN {"look"} ELSE Kinds :
          actor' = [actor EXCEPT ![a].kind = kind,
                                 ![a].at = IF kind \in {"revoke", "register"} THEN "patch" ELSE "load"]
    BY DEF Start
  <1> DEFINE place == IF kind \in {"revoke", "register"} THEN "patch" ELSE "load"
             y == [actor[a] EXCEPT !.kind = kind, !.at = place]
  <1>2. kind \in Kinds /\ (a = Watcher => kind = "look") /\ place \in Places /\ place \in Plain \ {"call"}
    BY DEF Kinds, Places, Plain
  <1>3. actor[a] \in Actor
    BY ActorFields
  <1>4. y \in Actor /\ y.kind = kind /\ y.at = place
    <2> HIDE DEF place
    <2>1. y \in Actor
      BY <1>2, <1>3, Zenon DEF Actor, Places, Saw, Statuses
    <2>2. y.kind = kind /\ y.at = place
      BY <1>3, Zenon DEF Actor
    <2> QED BY <2>1, <2>2
  <1>5. actor' = [actor EXCEPT ![a] = y]
    BY <1>1
  <1>6. Becoming(a, y)
    <2> HIDE DEF y, place
    <2>1. ~Removing(actor[a])
      BY DEF Start, Removing
    <2> QED BY <2>1, <1>2, <1>4, <1>5 DEF Becoming, Follows, Started
  <1> QED BY <1>6

LEMMA LoadFollows ==
  ASSUME ActorType, RowType, NEW a \in Everybody, Load(a)  PROVE \E y : Becoming(a, y)
PROOF
  <1>0. ~Removing(actor[a])
    BY DEF Load, At, Removing
  <1>1. CASE Wanted(actor[a].kind)
    <2> DEFINE saw == [status |-> row.status, stamp |-> row.stamp]
               place == IF actor[a].kind \in {"remove", "look"} THEN "ask" ELSE "call"
               y == [actor[a] EXCEPT !.saw = saw, !.at = place]
    <2>1. saw \in Saw /\ place \in Places /\ place \in Plain /\ (place = "call" => actor[a].kind # "remove")
      BY DEF RowType, Row, Saw, Statuses, Places, Plain
    <2>2. actor[a] \in Actor
      BY ActorFields
    <2>3. actor' = [actor EXCEPT ![a] = y]
      BY <1>1 DEF Load
    <2> HIDE DEF saw, place
    <2>4. y \in Actor
      BY <2>1, <2>2, Zenon DEF Actor, Places, Saw, Statuses
    <2>5. y.kind = actor[a].kind /\ y.at = place
      BY <2>2, Zenon DEF Actor
    <2>6. Becoming(a, y)
      <3> HIDE DEF y
      <3> QED BY <1>0, <2>1, <2>3, <2>4, <2>5 DEF Becoming, Follows, WentOn
    <2> QED BY <2>6
  <1>2. CASE ~Wanted(actor[a].kind)
    BY <1>0, <1>2, EndsFollows DEF Load
  <1> QED BY <1>1, <1>2

LEMMA CallFollows ==
  ASSUME ActorType, NEW a \in Everybody, Call(a), actor[a].kind # "remove"
  PROVE  \E y : Becoming(a, y)
PROOF
  <1>0. ~Removing(actor[a])
    BY DEF Call, At, Removing
  <1>1. CASE pass.here
    <2> DEFINE saw == IF actor[a].kind = "sweep" THEN actor[a].saw ELSE Nothing
               y == [actor[a] EXCEPT !.at = "write", !.saw = saw]
    <2>1. saw \in Saw
      BY LifecycleAssumption, ActorFields DEF LifecycleAssumption, Nothing, Saw, Statuses, Times
    <2>2. actor[a] \in Actor /\ "write" \in Places
      BY ActorFields DEF Places
    <2>3. actor' = [actor EXCEPT ![a] = y]
      BY <1>1 DEF Call
    <2> HIDE DEF saw
    <2>4. y \in Actor
      BY <2>1, <2>2, Zenon DEF Actor, Places, Saw, Statuses
    <2>5. y.kind = actor[a].kind /\ y.at = "write"
      BY <2>2, Zenon DEF Actor
    <2>6. Becoming(a, y)
      <3> HIDE DEF y
      <3> QED BY <1>0, <2>3, <2>4, <2>5 DEF Becoming, Follows, Wrote
    <2> QED BY <2>6
  <1>2. CASE ~pass.here
    BY <1>0, <1>2, EndsFollows DEF Call
  <1> QED BY <1>1, <1>2

LEMMA AskFollows ==
  ASSUME ActorType, WorldType, NEW a \in Everybody, Ask(a)  PROVE \E y : Becoming(a, y)
PROOF
  <1> DEFINE y == [actor[a] EXCEPT !.asked = now, !.at = "answer"]
  <1>0. ~Removing(actor[a])
    BY DEF Ask, At, Removing
  <1>1. actor[a] \in Actor /\ now \in Times /\ "answer" \in Places /\ "answer" \in Plain
    BY ActorFields DEF WorldType, Places, Plain
  <1>2. y \in Actor
    BY <1>1, Zenon DEF Actor, Places, Saw, Statuses
  <1>3. y.kind = actor[a].kind /\ y.at = "answer"
    BY <1>1, Zenon DEF Actor
  <1>4. actor' = [actor EXCEPT ![a] = y]
    BY DEF Ask
  <1>5. Becoming(a, y)
    <2> HIDE DEF y
    <2> QED BY <1>0, <1>1, <1>2, <1>3, <1>4 DEF Becoming, Follows, WentOn
  <1> QED BY <1>5

LEMMA AnswersAreBoolean ==
  ASSUME WorldType, NEW asked, NEW voided \in Answers(asked)
  PROVE  voided \in BOOLEAN /\ \E t \in 1..now : voided \in was[t] /\ t + Lag >= asked
PROOF
  <1>1. PICK t \in 1..now : t + Lag >= asked /\ voided \in was[t]
    BY Zenon DEF Answers
  <1>2. t \in Times
    BY <1>1, LifecycleAssumption DEF WorldType, Times, LifecycleAssumption
  <1>3. voided \in BOOLEAN
    BY <1>1, <1>2 DEF WorldType
  <1> QED BY <1>1, <1>3

LEMMA AnswerFollows ==
  ASSUME ActorType, WorldType, NEW a \in Everybody, Answer(a)  PROVE \E y : Becoming(a, y)
PROOF
  <1>1. PICK voided \in Answers(actor[a].asked) :
          actor' = [actor EXCEPT ![a].voided = voided, ![a].at = "apply"]
    BY DEF Answer
  <1> DEFINE y == [actor[a] EXCEPT !.voided = voided, !.at = "apply"]
  <1>2. actor[a] \in Actor /\ voided \in BOOLEAN /\ "apply" \in Places
    BY <1>1, ActorFields, AnswersAreBoolean DEF Places
  <1>3. y \in Actor
    BY <1>2, Zenon DEF Actor, Places, Saw, Statuses
  <1>4. y.kind = actor[a].kind /\ y.at = "apply" /\ y.asked = actor[a].asked /\ y.voided = voided
    BY <1>2, Zenon DEF Actor
  <1>5. actor' = [actor EXCEPT ![a] = y]
    BY <1>1
  <1>6. Becoming(a, y)
    <2> HIDE DEF y
    <2> QED BY <1>1, <1>3, <1>4, <1>5 DEF Becoming, Follows, Answered, Answer, At
  <1> QED BY <1>6

LEMMA MissingFollows ==
  ASSUME ActorType, NEW a \in Everybody, Missing(a)  PROVE \E y : Becoming(a, y)
PROOF
  <1>0. ~Removing(actor[a])
    BY DEF Missing, At, Removing
  <1>1. CASE actor[a].kind = "remove"
    <2> DEFINE y == [actor[a] EXCEPT !.asked = 0, !.at = "again"]
    <2>1. actor[a] \in Actor /\ 0 \in Times /\ "again" \in Places
      BY ActorFields, LifecycleAssumption DEF Places, Times, LifecycleAssumption
    <2>2. y \in Actor
      BY <2>1, Zenon DEF Actor, Places, Saw, Statuses
    <2>3. y.kind = actor[a].kind /\ y.at = "again"
      BY <2>1, Zenon DEF Actor
    <2>4. actor' = [actor EXCEPT ![a] = y]
      BY <1>1 DEF Missing
    <2>5. Becoming(a, y)
      <3> HIDE DEF y
      <3> QED BY <1>0, <1>1, <2>2, <2>3, <2>4 DEF Becoming, Follows, Again2
    <2> QED BY <2>5
  <1>2. CASE actor[a].kind # "remove"
    BY <1>0, <1>2, EndsFollows DEF Missing
  <1> QED BY <1>1, <1>2

LEMMA ApplyFollows ==
  ASSUME ActorType, NEW a \in Everybody, Apply(a)  PROVE \E y : Becoming(a, y)
PROOF
  <1>0. ~Removing(actor[a])
    BY DEF Apply, At, Removing
  <1>1. CASE actor[a].kind = "remove"
    <2> DEFINE y == [actor[a] EXCEPT !.asked = 0, !.voided = FALSE, !.at = "again"]
    <2>1. actor[a] \in Actor /\ 0 \in Times /\ "again" \in Places /\ FALSE \in BOOLEAN
      BY ActorFields, LifecycleAssumption DEF Places, Times, LifecycleAssumption
    <2>2. y \in Actor
      BY <2>1, Zenon DEF Actor, Places, Saw, Statuses
    <2>3. y.kind = actor[a].kind /\ y.at = "again"
      BY <2>1, Zenon DEF Actor
    <2>4. actor' = [actor EXCEPT ![a] = y]
      BY <1>1 DEF Apply
    <2>5. Becoming(a, y)
      <3> HIDE DEF y
      <3> QED BY <1>0, <1>1, <2>2, <2>3, <2>4 DEF Becoming, Follows, Again2
    <2> QED BY <2>5
  <1>2. CASE actor[a].kind # "remove"
    BY <1>0, <1>2, EndsFollows DEF Apply
  <1> QED BY <1>1, <1>2

LEMMA DeletePassFollows ==
  ASSUME ActorType, NEW a \in Everybody, DeletePass(a)  PROVE \E y : Becoming(a, y)
PROOF
  <1> DEFINE y == [actor[a] EXCEPT !.saw = Nothing, !.at = "write"]
  <1>0. ~Removing(actor[a])
    BY DEF DeletePass, At, Removing
  <1>1. actor[a] \in Actor /\ Nothing \in Saw /\ "write" \in Places
    BY ActorFields, LifecycleAssumption DEF Places, Times, LifecycleAssumption, Nothing, Saw, Statuses
  <1>2. y \in Actor
    BY <1>1, Zenon DEF Actor, Places, Saw, Statuses
  <1>3. y.kind = actor[a].kind /\ y.at = "write"
    BY <1>1, Zenon DEF Actor
  <1>4. actor' = [actor EXCEPT ![a] = y]
    BY DEF DeletePass
  <1>5. Becoming(a, y)
    <2> HIDE DEF y
    <2> QED BY <1>0, <1>2, <1>3, <1>4 DEF Becoming, Follows, Wrote
  <1> QED BY <1>5

LEMMA PatchFollows ==
  ASSUME ActorType, NEW a \in Everybody, Patch(a)  PROVE \E y : Becoming(a, y)
PROOF
  <1>1. ~Removing(actor[a]) /\ "load" \in Plain
    BY DEF Patch, At, Removing, Plain, Places
  <1>2. Goes(a, "load") \/ Ends(a)
    BY DEF Patch
  <1> QED BY <1>1, <1>2, GoesFollows, EndsFollows

\* The steps that only end, or only go on.
LEMMA WriteFollows ==
  ASSUME ActorType, NEW a \in Everybody, Write(a) \/ Restamp(a)  PROVE \E y : Becoming(a, y)
PROOF
  <1>1. ~Removing(actor[a]) /\ Ends(a)
    BY DEF Write, Restamp, At, Removing, Voiding, Restoring
  <1> QED BY <1>1, EndsFollows

LEMMA WriteSweepFollows ==
  ASSUME ActorType, NEW a \in Everybody, WriteSweep(a)  PROVE \E y : Becoming(a, y)
PROOF
  <1>0. ~Removing(actor[a])
    BY DEF WriteSweep, Removing
  <1>1. CASE Ends(a)
    BY <1>0, <1>1, EndsFollows
  <1>2. CASE actor' = [actor EXCEPT ![a].saw = Nothing, ![a].at = "realign"]
    <2> DEFINE y == [actor[a] EXCEPT !.saw = Nothing, !.at = "realign"]
    <2>1. actor[a] \in Actor /\ Nothing \in Saw /\ "realign" \in Places /\ "realign" \in Plain
      BY ActorFields, LifecycleAssumption
         DEF Places, Plain, Times, LifecycleAssumption, Nothing, Saw, Statuses
    <2>2. y \in Actor
      BY <2>1, Zenon DEF Actor, Places, Saw, Statuses
    <2>3. y.kind = actor[a].kind /\ y.at = "realign"
      BY <2>1, Zenon DEF Actor
    <2>4. actor' = [actor EXCEPT ![a] = y]
      BY <1>2
    <2>5. Becoming(a, y)
      <3> HIDE DEF y
      <3> QED BY <1>0, <2>1, <2>2, <2>3, <2>4 DEF Becoming, Follows, WentOn
    <2> QED BY <2>5
  <1> QED BY <1>1, <1>2 DEF WriteSweep

LEMMA RealignFollows ==
  ASSUME ActorType, NEW a \in Everybody, Realign(a) \/ Recall(a)  PROVE \E y : Becoming(a, y)
PROOF
  <1>1. ~Removing(actor[a]) /\ "recall" \in Plain /\ "restamp" \in Plain
    BY DEF Realign, Recall, At, Removing, Plain, Places
  <1>2. Goes(a, "recall") \/ Goes(a, "restamp") \/ Ends(a)
    BY DEF Realign, Recall
  <1> QED BY <1>1, <1>2, GoesFollows, EndsFollows

LEMMA AgainFollows ==
  ASSUME ActorType, NEW a \in Everybody, Again(a)  PROVE \E y : Becoming(a, y)
PROOF
  <1>0. ~Removing(actor[a]) /\ actor[a].at = "again"
    BY DEF Again, At, Removing
  <1>1. CASE Goes(a, "delete")
    <2> DEFINE y == [actor[a] EXCEPT !.at = "delete"]
    <2>1. actor[a] \in Actor /\ "delete" \in Places
      BY ActorFields DEF Places
    <2>2. y \in Actor /\ y.kind = actor[a].kind /\ y.at = "delete"
      BY <2>1, PlaceSet
    <2>3. actor' = [actor EXCEPT ![a] = y]
      BY <1>1 DEF Goes
    <2>4. Becoming(a, y)
      <3> HIDE DEF y
      <3> QED BY <1>0, <2>2, <2>3 DEF Becoming, Follows, Deletes
    <2> QED BY <2>4
  <1>2. CASE Ends(a)
    BY <1>0, <1>2, EndsFollows
  <1> QED BY <1>1, <1>2 DEF Again

LEMMA WriteRemovedFollows ==
  ASSUME ActorType, RowType, NEW a \in Everybody, WriteRemoved(a)  PROVE \E y : Becoming(a, y)
PROOF
  <1>1. row'.removed
    BY DEF WriteRemoved, Removed, RowType, Row
  <1>2. Ends(a)
    BY DEF WriteRemoved
  <1> QED BY <1>1, <1>2, EndsFollows

LEMMA FailFollows ==
  ASSUME ActorType, NEW a \in Everybody, Fail(a)  PROVE \E y : Becoming(a, y)
PROOF
  <1>1. CASE Removing(actor[a])
    <2> DEFINE y == [actor[a] EXCEPT !.at = "lost"]
    <2>1. actor[a] \in Actor /\ "lost" \in Places
      BY ActorFields DEF Places
    <2>2. y \in Actor /\ y.kind = actor[a].kind /\ y.at = "lost"
      BY <2>1, PlaceSet
    <2>3. actor' = [actor EXCEPT ![a] = y]
      BY <1>1 DEF Fail, Goes, At, Removing
    <2>4. Becoming(a, y)
      <3> HIDE DEF y
      <3> QED BY <1>1, <2>2, <2>3 DEF Becoming, Follows, Lost
    <2> QED BY <2>4
  <1>2. CASE ~Removing(actor[a])
    BY <1>2, EndsFollows DEF Fail, At, Removing
  <1> QED BY <1>1, <1>2


\* Nobody but a removal is on its way to delete the pass, it calls for nothing else, and the
\* worker only looks.
Minded(x, a) ==
  /\ x.at \in {"again", "delete"} => x.kind = "remove"
  /\ x.at = "call" => x.kind # "remove"
  /\ x.kind = "remove" => a # Watcher
AllMinded == \A a \in Everybody : Minded(actor[a], a)

LEMMA StepFollows ==
  ASSUME ActorType, WorldType, RowType, AllMinded, NEW a \in Everybody, Step(a)
  PROVE  \E y : Becoming(a, y)
PROOF
  <1>1. CASE Call(a)
    <2>1. actor[a].kind # "remove"
      BY <1>1 DEF AllMinded, Minded, Call, At
    <2> QED BY <1>1, <2>1, CallFollows
  <1>2. CASE Start(a) \/ Patch(a) \/ Load(a) \/ Write(a) \/ WriteSweep(a)
    BY <1>2, StartFollows, PatchFollows, LoadFollows, WriteFollows, WriteSweepFollows
  <1>3. CASE Realign(a) \/ Recall(a) \/ Restamp(a) \/ Ask(a) \/ Answer(a) \/ Missing(a)
    BY <1>3, RealignFollows, WriteFollows, AskFollows, AnswerFollows, MissingFollows
  <1>4. CASE Apply(a) \/ Again(a) \/ DeletePass(a) \/ WriteRemoved(a) \/ Fail(a)
    BY <1>4, ApplyFollows, AgainFollows, DeletePassFollows, WriteRemovedFollows, FailFollows
  <1> QED BY <1>1, <1>2, <1>3, <1>4 DEF Step

LEMMA ActorStep ==
  ASSUME ActorType, WorldType, RowType, AllMinded, Next
  PROVE  ActorType' /\ AllMinded'
PROOF
  <1>1. CASE Tick \/ VoidOutside \/ Expire
    BY <1>1 DEF Tick, VoidOutside, Expire, ActorType, AllMinded
  <1>2. ASSUME NEW a \in Everybody, Step(a)  PROVE ActorType' /\ AllMinded'
    <2>1. PICK y : Becoming(a, y)
      BY <1>2, StepFollows
    <2>2. y \in Actor /\ actor' = [actor EXCEPT ![a] = y] /\ Follows(a, actor[a], y)
      BY <2>1 DEF Becoming
    <2>3. ActorType' /\ \A b \in Everybody : actor'[b] = IF b = a THEN y ELSE actor[b]
      BY <2>2, ActorSet
    <2>4. Minded(actor[a], a)
      BY DEF AllMinded
    <2>5. Minded(y, a)
      BY <2>2, <2>4 DEF Minded, Follows, Ended, Started, WentOn, Wrote, Again2, Deletes, Answered,
         Lost, Plain, Places, Removing
    <2>6. AllMinded'
      BY <2>3, <2>5 DEF AllMinded
    <2> QED BY <2>3, <2>6
  <1> QED BY <1>1, <1>2 DEF Next

----------------------------------------------------------------------------
(* What a step may make of the clock and the pass, and of the row.         *)

\* The record of the past only grows.
Grows == now' >= now /\ \A t \in 1..now : was[t] \subseteq was'[t]
WorldKept == Grows /\ now' \in Times /\ now' >= 1 /\ was' \in [Times -> SUBSET BOOLEAN]

LEMMA TimesAre == Times = 0..MaxTime /\ MaxTime \in Nat /\ LastChange \in Nat /\ LastChange < MaxTime
                  /\ EndsAt \in Nat /\ Lag \in Nat /\ Window \in Nat /\ Lag <= Window
PROOF
  BY LifecycleAssumption DEF LifecycleAssumption, Times

LEMMA SameWorld == ASSUME WorldType, UNCHANGED <<now, was>>  PROVE WorldKept
PROOF
  BY TimesAre DEF WorldType, WorldKept, Grows

LEMMA LaterWorld == ASSUME WorldType, Later  PROVE WorldKept
PROOF
  <1>1. Shown(pass.voided, now + 1) \in BOOLEAN /\ pass.voided \in BOOLEAN
    BY DEF Shown, WorldType
  <1>2. now' \in Times /\ now' >= 1 /\ now' >= now /\ now + 1 \in Times
    BY TimesAre DEF WorldType, Later
  <1>3. was' \in [Times -> SUBSET BOOLEAN]
    BY <1>1, <1>2 DEF WorldType, Later
  <1>4. \A t \in 1..now : was'[t] = was[t]
    BY <1>2, TimesAre DEF WorldType, Later
  <1> QED BY <1>2, <1>3, <1>4 DEF WorldKept, Grows

LEMMA BecomesWorld ==
  ASSUME WorldType, NEW voided \in BOOLEAN, Becomes(voided)
  PROVE  WorldKept /\ pass' \in [here : BOOLEAN, voided : BOOLEAN] /\ pass'.here = pass.here
PROOF
  <1>1. Shown(voided, now) \in BOOLEAN
    BY DEF Shown, WorldType
  <1>2. was' \in [Times -> SUBSET BOOLEAN] /\ now' = now
    BY <1>1 DEF WorldType, Becomes
  <1>3. \A t \in 1..now : was[t] \subseteq was'[t]
    BY TimesAre DEF WorldType, Becomes
  <1>4. pass' \in [here : BOOLEAN, voided : BOOLEAN] /\ pass'.here = pass.here
    BY DEF WorldType, Becomes
  <1> QED BY <1>2, <1>3, <1>4, TimesAre DEF WorldKept, Grows, WorldType

LEMMA StampedRow ==
  ASSUME WorldType, RowType, NEW status \in {"active", "voided"}, Stamped(status)
  PROVE  WorldKept /\ row' \in Row /\ row'.removed = row.removed
PROOF
  <1>1. now + 1 \in Times
    BY TimesAre DEF WorldType, Stamped
  <1>2. row' = [row EXCEPT !.status = status, !.stamp = now + 1]
    BY DEF Stamped
  <1>3. row \in Row /\ status \in Inactive \cup {"active"}
    BY DEF RowType, Inactive
  <1>4. row' \in Row /\ row'.removed = row.removed
    BY <1>1, <1>2, <1>3, Zenon DEF Row
  <1> QED BY <1>4, LaterWorld DEF Stamped

\* The pass is as it was, or voided, or restored, or deleted by a removal.
PassKept ==
  /\ pass' \in [here : BOOLEAN, voided : BOOLEAN]
  /\ pass'.here = pass.here \/ \E a \in Everybody : DeletePass(a)
\* The row is as it was, or commanded or read while not removed, or marked as removed.
RowKept ==
  /\ row' \in Row /\ (row.removed => row'.removed)
  /\ \/ row'.removed = row.removed /\ (row'.status = row.status \/ ~row.removed)
     \/ row'.status \in Inactive

LEMMA SamePass == ASSUME WorldType, pass' = pass  PROVE PassKept
PROOF
  BY DEF WorldType, PassKept
LEMMA SameRow == ASSUME RowType, row' = row  PROVE RowKept
PROOF
  BY DEF RowType, RowKept
LEMMA SameRest ==
  ASSUME WorldType, UNCHANGED <<expires, ticket>>
  PROVE  expires' \in BOOLEAN /\ ticket' \in {"registered", "revoked"}
PROOF
  BY DEF WorldType

AllKept == WorldKept /\ PassKept /\ RowKept /\ expires' \in BOOLEAN /\ ticket' \in {"registered", "revoked"}

LEMMA KeptAlone ==
  ASSUME WorldType, RowType, Tick \/ VoidOutside \/ Expire  PROVE AllKept
PROOF
  <1>1. CASE Tick
    BY <1>1, LaterWorld, SamePass, SameRow, SameRest DEF Tick, AllKept
  <1>2. CASE VoidOutside
    <2>1. WorldKept /\ PassKept
      BY <1>2, BecomesWorld DEF VoidOutside, PassKept
    <2> QED BY <1>2, <2>1, SameRow, SameRest DEF VoidOutside, AllKept
  <1>3. CASE Expire
    <2>1. row' \in Row /\ row'.status = "expired" /\ row'.removed = row.removed
      BY <1>3, Zenon DEF Expire, RowType, Row, Inactive
    <2>2. RowKept
      BY <2>1 DEF RowKept, Inactive
    <2> QED BY <1>3, <2>2, SameWorld, SamePass, SameRest DEF Expire, AllKept
  <1> QED BY <1>1, <1>2, <1>3

LEMMA KeptQuiet ==
  ASSUME WorldType, RowType, WorldSame  PROVE AllKept
PROOF
  BY SameWorld, SamePass, SameRow, SameRest DEF WorldSame, AllKept

LEMMA KeptPatch ==
  ASSUME WorldType, RowType, NEW a \in Everybody, Patch(a)  PROVE AllKept
PROOF
  <1>1. ticket' \in {"registered", "revoked"} /\ expires' = expires
    BY DEF Patch, WorldType
  <1>2. WorldKept /\ PassKept /\ RowKept
    BY SameWorld, SamePass, SameRow DEF Patch
  <1> QED BY <1>1, <1>2 DEF AllKept, WorldType

LEMMA KeptCall ==
  ASSUME WorldType, RowType, NEW a \in Everybody, Call(a) \/ Recall(a)  PROVE AllKept
PROOF
  <1>1. (actor[a].kind \in Voiding) \in BOOLEAN /\ FALSE \in BOOLEAN
    OBVIOUS
  <1>2. CASE pass.here
    <2>1. Becomes(actor[a].kind \in Voiding) \/ Becomes(FALSE)
      BY <1>2 DEF Call, Recall
    <2>2. WorldKept /\ pass' \in [here : BOOLEAN, voided : BOOLEAN] /\ pass'.here = pass.here
      BY <1>1, <2>1, BecomesWorld
    <2> QED BY <2>2, SameRow, SameRest DEF Call, Recall, PassKept, AllKept
  <1>3. CASE ~pass.here
    BY <1>3, SameWorld, SamePass, SameRow, SameRest DEF Call, Recall, AllKept
  <1> QED BY <1>2, <1>3

LEMMA KeptWrite ==
  ASSUME WorldType, RowType, NEW a \in Everybody, Write(a) \/ WriteSweep(a) \/ Restamp(a)
  PROVE  AllKept
PROOF
  <1>1. CASE ~row.removed /\ \E status \in {"active", "voided"} : Stamped(status)
    <2>1. WorldKept /\ row' \in Row /\ row'.removed = row.removed
      BY <1>1, StampedRow
    <2>2. RowKept
      BY <1>1, <2>1 DEF RowKept
    <2> QED BY <2>1, <2>2, SamePass, SameRest DEF Write, WriteSweep, Restamp, AllKept
  <1>2. CASE UNCHANGED <<now, row, was>>
    BY <1>2, SameWorld, SamePass, SameRow, SameRest DEF Write, WriteSweep, Restamp, AllKept
  <1>3. Write(a) => \/ UNCHANGED <<now, row, was>>
                    \/ ~row.removed /\ \E status \in {"active", "voided"} : Stamped(status)
    BY DEF Write
  <1>4. WriteSweep(a) => \/ UNCHANGED <<now, row, was>>
                         \/ ~row.removed /\ \E status \in {"active", "voided"} : Stamped(status)
    BY DEF WriteSweep, Unchanged
  <1>5. Restamp(a) => \/ UNCHANGED <<now, row, was>>
                      \/ ~row.removed /\ \E status \in {"active", "voided"} : Stamped(status)
    BY DEF Restamp
  <1> QED BY <1>1, <1>2, <1>3, <1>4, <1>5

LEMMA KeptApply ==
  ASSUME WorldType, RowType, ActorType, NEW a \in Everybody, Apply(a)  PROVE AllKept
PROOF
  <1> DEFINE status == Reconcile(actor[a].saw, actor[a].voided, actor[a].asked)
  <1>1. CASE Unchanged(actor[a].saw) /\ row.observed < actor[a].asked
    <2>1. actor[a].asked \in Times /\ actor[a].saw \in Saw
      BY ActorFields
    <2>2. status \in Statuses
      BY <2>1 DEF Reconcile, Saw, Statuses, Inactive
    <2>3. row' = [row EXCEPT !.observed = actor[a].asked, !.status = status]
      BY <1>1 DEF Apply
    <2>4. row' \in Row /\ row'.removed = row.removed
      <3> HIDE DEF status
      <3> QED BY <2>1, <2>2, <2>3, Zenon DEF RowType, Row, Statuses
    <2>5. RowKept
      BY <1>1, <2>4 DEF RowKept, Unchanged
    <2> QED BY <2>5, SameWorld, SamePass, SameRest DEF Apply, AllKept
  <1>2. CASE ~(Unchanged(actor[a].saw) /\ row.observed < actor[a].asked)
    BY <1>2, SameRow, SameWorld, SamePass, SameRest DEF Apply, AllKept
  <1> QED BY <1>1, <1>2

LEMMA KeptRemoval ==
  ASSUME WorldType, RowType, NEW a \in Everybody, DeletePass(a) \/ WriteRemoved(a)  PROVE AllKept
PROOF
  <1>1. CASE DeletePass(a)
    <2>1. PassKept
      BY <1>1 DEF DeletePass, PassKept, WorldType
    <2> QED BY <1>1, <2>1, SameWorld, SameRow, SameRest DEF DeletePass, AllKept
  <1>2. CASE WriteRemoved(a)
    <2> DEFINE status == IF row.status \in Inactive THEN row.status ELSE "voided"
    <2>1. status \in Inactive /\ row' = [row EXCEPT !.removed = TRUE, !.status = status]
      BY <1>2 DEF WriteRemoved, Removed, Inactive
    <2>2. row' \in Row /\ row'.status = status /\ row'.removed
      <3> HIDE DEF status
      <3> QED BY <2>1, Zenon DEF RowType, Row
    <2>3. RowKept
      BY <2>1, <2>2 DEF RowKept
    <2> QED BY <1>2, <2>3, SameWorld, SamePass, SameRest DEF WriteRemoved, AllKept
  <1> QED BY <1>1, <1>2

LEMMA NextKeeps ==
  ASSUME WorldType, RowType, ActorType, Next  PROVE AllKept
PROOF
  <1>1. CASE Tick \/ VoidOutside \/ Expire
    BY <1>1, KeptAlone
  <1>2. ASSUME NEW a \in Everybody, Step(a)  PROVE AllKept
    <2>1. CASE WorldSame
      BY <2>1, KeptQuiet
    <2>2. CASE Patch(a) \/ Call(a) \/ Recall(a) \/ Write(a) \/ WriteSweep(a) \/ Restamp(a)
      BY <2>2, KeptPatch, KeptCall, KeptWrite
    <2>3. CASE Apply(a) \/ DeletePass(a) \/ WriteRemoved(a)
      BY <2>3, KeptApply, KeptRemoval
    <2> QED BY <1>2, <2>1, <2>2, <2>3
            DEF Step, Start, Load, Realign, Ask, Answer, Missing, Again, Fail
  <1> QED BY <1>1, <1>2 DEF Next

----------------------------------------------------------------------------
(* The invariants.                                                         *)

\* Where the pass has gone: somebody is about to mark its row, or died doing so.
RemovalIsMarked ==
  /\ row.removed => row.status \in Inactive
  /\ row.removed \/ pass.here \/ \E a \in Everybody : Removing(actor[a])
\* What was read as void was shown as void, at a time the search may still show.
ShownVoid(x) == \E t \in 1..now : TRUE \in was[t] /\ t + Lag >= x.asked
ReadsAreShown == \A a \in Everybody : actor[a].at = "apply" /\ actor[a].voided => ShownVoid(actor[a])

IInv == WorldType /\ RowType /\ ActorType /\ AllMinded /\ RemovalIsMarked /\ ReadsAreShown

LEMMA InitIInv == Init => IInv
PROOF
  <1> SUFFICES ASSUME Init  PROVE IInv
    OBVIOUS
  <1>1. WorldType
    BY TimesAre DEF Init, WorldType
  <1>2. RowType
    BY TimesAre DEF Init, RowType, Row, NewRow, Inactive
  <1>3. ActorType /\ \A a \in Everybody : actor[a] = NoActor
    BY NoActorType DEF Init, ActorType
  <1>4. AllMinded
    BY <1>3, NoActorType DEF AllMinded, Minded
  <1>5. RemovalIsMarked
    BY DEF Init, RemovalIsMarked, NewRow
  <1>6. ReadsAreShown
    BY <1>3, NoActorType DEF ReadsAreShown
  <1> QED BY <1>1, <1>2, <1>3, <1>4, <1>5, <1>6 DEF IInv

LEMMA NextTypes ==
  ASSUME IInv, Next
  PROVE  WorldType' /\ RowType' /\ ActorType' /\ AllMinded' /\ AllKept
PROOF
  <1>1. ActorType' /\ AllMinded' /\ AllKept
    BY ActorStep, NextKeeps DEF IInv
  <1> QED BY <1>1 DEF AllKept, WorldKept, PassKept, RowKept, WorldType, RowType

\* A removal that has deleted the pass stays at work until the row is marked.
LEMMA RemovalStays ==
  ASSUME IInv, Next, NEW b \in Everybody, Removing(actor[b])
  PROVE  row'.removed \/ Removing(actor'[b])
PROOF
  <1>1. CASE Tick \/ VoidOutside \/ Expire
    BY <1>1 DEF Tick, VoidOutside, Expire
  <1>2. ASSUME NEW a \in Everybody, Step(a)  PROVE row'.removed \/ Removing(actor'[b])
    <2>1. PICK y : Becoming(a, y)
      BY <1>2, StepFollows DEF IInv
    <2>2. actor' = [actor EXCEPT ![a] = y] /\ y \in Actor /\ Follows(a, actor[a], y)
      BY <2>1 DEF Becoming
    <2>3. actor'[b] = IF b = a THEN y ELSE actor[b]
      BY <2>2, ActorSet DEF IInv
    <2>4. CASE b = a
      <3>1. row'.removed \/ Removing(y)
        BY <2>2, <2>4 DEF Follows, Ended, Started, WentOn, Wrote, Again2, Deletes, Answered, Lost, Removing
      <3> QED BY <3>1, <2>3, <2>4
    <2> QED BY <2>3, <2>4
  <1> QED BY <1>1, <1>2 DEF Next

\* The one that deletes the pass is at work on it.
LEMMA DeleterRemoves ==
  ASSUME IInv, NEW a \in Everybody, DeletePass(a)  PROVE Removing(actor'[a])
PROOF
  <1>1. actor[a].kind = "remove" /\ actor[a] \in Actor
    BY ActorFields DEF DeletePass, At, IInv, AllMinded, Minded
  <1>2. actor'[a] = [actor[a] EXCEPT !.saw = Nothing, !.at = "write"]
    BY DEF DeletePass, IInv, ActorType
  <1>3. actor'[a].kind = "remove" /\ actor'[a].at = "write"
    BY <1>1, <1>2, Zenon DEF Actor
  <1> QED BY <1>3 DEF Removing

LEMMA RemovalIsMarkedStep ==
  ASSUME IInv, Next  PROVE RemovalIsMarked'
PROOF
  <1>1. RowKept /\ PassKept /\ RowType
    BY NextTypes DEF AllKept, IInv
  <1>2. row'.removed => row'.status \in Inactive
    BY <1>1 DEF RowKept, IInv, RemovalIsMarked
  <1>3. row'.removed \/ pass'.here \/ \E a \in Everybody : Removing(actor'[a])
    <2>1. CASE row.removed
      BY <1>1, <2>1 DEF RowKept
    <2>2. CASE \E a \in Everybody : Removing(actor[a])
      BY <2>2, RemovalStays
    <2>3. CASE pass.here
      BY <1>1, <2>3, DeleterRemoves DEF PassKept
    <2> QED BY <2>1, <2>2, <2>3 DEF IInv, RemovalIsMarked
  <1> QED BY <1>2, <1>3 DEF RemovalIsMarked

LEMMA ReadsAreShownStep ==
  ASSUME IInv, Next  PROVE ReadsAreShown'
PROOF
  <1>0. now' >= now /\ now \in Times /\ now' \in Times /\ \A t \in 1..now : was[t] \subseteq was'[t]
    BY NextTypes DEF AllKept, WorldKept, Grows, IInv, WorldType
  <1>1. ASSUME NEW x, ShownVoid(x)
        PROVE  \E t \in 1..now' : TRUE \in was'[t] /\ t + Lag >= x.asked
    <2>1. PICK t \in 1..now : TRUE \in was[t] /\ t + Lag >= x.asked
      BY <1>1 DEF ShownVoid
    <2>2. t \in 1..now'
      BY <1>0, <2>1, TimesAre
    <2>3. TRUE \in was'[t]
      BY <1>0, <2>1, Zenon
    <2> QED BY <2>1, <2>2, <2>3, Zenon
  <1>2. CASE Tick \/ VoidOutside \/ Expire
    <2>1. actor' = actor
      BY <1>2 DEF Tick, VoidOutside, Expire
    <2> QED BY <1>1, <2>1 DEF IInv, ReadsAreShown, ShownVoid
  <1>3. ASSUME NEW a \in Everybody, Step(a)  PROVE ReadsAreShown'
    <2>1. PICK y : Becoming(a, y)
      BY <1>3, StepFollows DEF IInv
    <2>2. actor' = [actor EXCEPT ![a] = y] /\ y \in Actor /\ Follows(a, actor[a], y)
      BY <2>1 DEF Becoming
    <2>3. \A b \in Everybody : actor'[b] = IF b = a THEN y ELSE actor[b]
      BY <2>2, ActorSet DEF IInv
    <2>4. y.at = "apply" /\ y.voided => ShownVoid(y)
      <3> SUFFICES ASSUME y.at = "apply", y.voided  PROVE ShownVoid(y)
        OBVIOUS
      <3>1. y.asked = actor[a].asked /\ y.voided \in Answers(actor[a].asked)
        BY <2>2 DEF Follows, Ended, Started, WentOn, Wrote, Again2, Deletes, Answered, Lost, Plain
      <3>2. y.voided = TRUE
        BY <2>2 DEF Actor
      <3>3. PICK t \in 1..now : TRUE \in was[t] /\ t + Lag >= actor[a].asked
        BY <3>1, <3>2, AnswersAreBoolean DEF IInv
      <3> QED BY <3>1, <3>3 DEF ShownVoid
    <2>5. ASSUME NEW b \in Everybody, actor'[b].at = "apply", actor'[b].voided
          PROVE  \E t \in 1..now' : TRUE \in was'[t] /\ t + Lag >= actor'[b].asked
      <3>1. CASE b = a
        BY <1>1, <2>3, <2>4, <2>5, <3>1
      <3>2. CASE b # a
        BY <1>1, <2>3, <2>5, <3>2 DEF IInv, ReadsAreShown
      <3> QED BY <3>1, <3>2
    <2> QED BY <2>5 DEF ReadsAreShown, ShownVoid
  <1> QED BY <1>2, <1>3 DEF Next

LEMMA NextIInv == IInv /\ [Next]_vars => IInv'
PROOF
  <1>1. ASSUME IInv, Next  PROVE IInv'
    BY <1>1, NextTypes, RemovalIsMarkedStep, ReadsAreShownStep DEF IInv
  <1>2. ASSUME IInv, UNCHANGED vars  PROVE IInv'
    <2> USE <1>2 DEF vars, IInv
    <2>1. WorldType' /\ RowType' /\ ActorType'
      BY DEF WorldType, RowType, ActorType
    <2>2. AllMinded' /\ RemovalIsMarked'
      BY DEF AllMinded, Minded, RemovalIsMarked, Removing
    <2>3. ReadsAreShown'
      BY DEF ReadsAreShown, ShownVoid
    <2> QED BY <2>1, <2>2, <2>3
  <1> QED BY <1>1, <1>2

THEOREM Invariance == Spec => []IInv
PROOF
  BY InitIInv, NextIInv, PTL DEF Spec

\* The row, the pass, the clock and everybody at work keep their types.
THEOREM TypeCorrect == Spec => []TypeOK
PROOF
  <1>1. IInv => TypeOK
    BY TypeParts DEF IInv
  <1> QED BY <1>1, Invariance, PTL

\* A pass that is active is not marked as removed, and is at the provider, unless the
\* removal that deleted it has yet to mark the row or died before it could.
THEOREM ActiveIsThere == Spec => []ActiveIsAtProvider
PROOF
  <1>1. IInv => ActiveIsAtProvider
    <2> SUFFICES ASSUME IInv, row.status = "active"
                 PROVE  /\ ~row.removed
                        /\ pass.here \/ \E a \in Actors : actor[a].kind = "remove"
                                                          /\ actor[a].at \in {"write", "lost"}
      BY DEF ActiveIsAtProvider
    <2>1. ~row.removed
      BY DEF IInv, RemovalIsMarked, Inactive
    <2>2. ASSUME NEW a \in Everybody, Removing(actor[a])  PROVE a \in Actors
      BY <2>2 DEF IInv, AllMinded, Minded, Removing, Everybody
    <2> QED BY <2>1, <2>2 DEF IInv, RemovalIsMarked, Removing
  <1> QED BY <1>1, Invariance, PTL

\* The status a read makes of an active row changes only when what was read is recent
\* enough, by the search's lag, to come after the last recorded command.
LEMMA ReconcileIsCareful ==
  ASSUME IInv, NEW a \in Everybody, Apply(a), row.status = "active", row'.status # "active"
  PROVE  \E t \in row.stamp..now : TRUE \in was[t] /\ t + Lag > row.observed
PROOF
  <1> DEFINE saw == actor[a].saw  asked == actor[a].asked
  <1>1. /\ Unchanged(saw) /\ row.observed < asked
        /\ row' = [row EXCEPT !.observed = asked, !.status = Reconcile(saw, actor[a].voided, asked)]
    BY DEF Apply
  <1>2. row \in Row /\ actor[a] \in Actor /\ asked \in Times /\ row.stamp \in Times
        /\ row.observed \in Times
    BY ActorFields, Zenon DEF IInv, RowType, Row
  <1>3. row'.status = Reconcile(saw, actor[a].voided, asked)
    BY <1>1, <1>2, Zenon DEF Row
  <1>4. saw.status = "active" /\ row.stamp = saw.stamp
    BY <1>1 DEF Unchanged
  <1>5. actor[a].voided /\ (row.stamp = 0 \/ asked >= row.stamp + Window)
    BY <1>3, <1>4 DEF Reconcile
  <1>6. PICK t \in 1..now : TRUE \in was[t] /\ t + Lag >= asked
    BY <1>5 DEF IInv, ReadsAreShown, ShownVoid, Apply, At
  <1>7. now \in Times
    BY DEF IInv, WorldType
  <1>8. t \in row.stamp..now /\ t + Lag > row.observed
    BY <1>1, <1>2, <1>5, <1>6, <1>7, TimesAre
  <1> QED BY <1>6, <1>8

\* A read of the provider takes a pass out of use only for what was true after the last
\* command and not before what an earlier read has shown.
THEOREM ObservedVoidIsRealHolds == Spec => ObservedVoidIsReal
PROOF
  <1> DEFINE Careful == \A a \in Everybody :
               Apply(a) /\ row.status = "active" /\ row'.status # "active" =>
                 \E t \in row.stamp..now : TRUE \in was[t] /\ t + Lag > row.observed
  <1>1. IInv /\ [Next]_vars => [Careful]_vars
    BY ReconcileIsCareful
  <1> QED BY <1>1, Invariance, PTL DEF Spec, ObservedVoidIsReal
=============================================================================
