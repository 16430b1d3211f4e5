--------------------- MODULE AggregateRepository_proofs ---------------------
(***************************************************************************)
(* What the calls of AggregateRepository keep for every number of calls,   *)
(* outcome, subscription and outside write.                                *)
(*                                                                         *)
(* The versions of the row only grow, because each is a fresh event id.    *)
(* An update that has changed the row has left a larger version there than *)
(* the one it found, so that no other update that found the same one       *)
(* matches any more.  The rest is that a call changes the row, or has      *)
(* handlers called, only at steps from which it is never rejected.         *)
(***************************************************************************)
EXTENDS AggregateRepository, TLAPS

Pc == {"idle", "finding", "reading", "loaded", "saving", "updating",
       "snapshotting", "inserting", "publishing", "done"}

CallState ==
  [pc : Pc, op : {"none", "update", "save"}, trigger : Trigger \cup {NoTrigger},
   snap : Int, version : Int, events : Outcomes \cup {<<>>}, subs : Nat,
   sub : Nat, at : Nat, ran : Nat, result : {"none", "new", "old", "rejected"}]

Delivery == [by : Call, to : Nat, at : Nat]

StateOK ==
  /\ row \in Nat /\ fresh \in Nat /\ snapshot \in Nat /\ row < fresh
  /\ call \in [Call -> CallState]
  /\ subscriptions \in Seq(Interests)
  /\ delivered \in Seq(Delivery)

NotLoaded == {"idle", "finding", "reading", "loaded"}
Before == NotLoaded \cup {"updating", "saving"}

Delivered(c) == \E i \in DOMAIN delivered : delivered[i].by = c

\* Which operation is at which step.
OpOK(l) ==
  /\ l.pc = "idle" => l.op = "none"
  /\ l.pc \in {"finding", "reading", "loaded", "updating", "snapshotting"}
       => l.op = "update"
  /\ l.pc = "saving" => l.op = "save"
  /\ l.pc # "done" => l.result = "none"

\* A call that has processed its command does not load the aggregate again.
RanOK(l) == l.ran <= 1 /\ (l.pc \in NotLoaded => l.ran = 0)

\* A call that has not come to the row, or is rejected, has done nothing.
TraceOK(c) ==
  call[c].pc \in Before \/ (call[c].op = "update" /\ call[c].result = "rejected")
    => ~Changed(c) /\ ~Delivered(c)

\* The row has moved on from the version that an update has changed it from.
VersionOK(c) == call[c].op = "update" /\ Changed(c) => call[c].version < row

CallOK(c) == OpOK(call[c]) /\ RanOK(call[c]) /\ TraceOK(c) /\ VersionOK(c)

Inv == StateOK /\ (\A c \in Call : CallOK(c)) /\ OneWinner

-----------------------------------------------------------------------------

\* What a step of call c leaves alone: the other calls and what they have done.
Frame(c) ==
  \A d \in Call \ {c} :
    /\ call'[d] = call[d]
    /\ Changed(d)' => Changed(d)
    /\ Delivered(d)' => Delivered(d)

\* A step of c that takes the row forward and leaves c itself as it should be
\* leaves every call so.
LEMMA OthersOK ==
  ASSUME Inv, NEW c \in Call, Frame(c), StateOK', row' >= row, CallOK(c)'
  PROVE  \A d \in Call : CallOK(d)'
<1>1. ASSUME NEW d \in Call \ {c} PROVE CallOK(d)'
  <2>1. CallOK(d) /\ call'[d] = call[d]
    BY <1>1 DEF Inv, Frame
  <2>2. (Changed(d)' => Changed(d)) /\ (Delivered(d)' => Delivered(d))
    BY <1>1 DEF Frame
  <2>3. OpOK(call[d])' /\ RanOK(call[d])'
    BY <2>1 DEF CallOK, OpOK, RanOK
  <2>4. TraceOK(d)'
    BY <2>1, <2>2 DEF CallOK, TraceOK
  <2>5. call[d].version \in Int /\ row \in Nat /\ row' \in Nat
    BY <1>1 DEF Inv, StateOK, CallState
  <2>6. VersionOK(d)'
    BY <2>1, <2>2, <2>5 DEF CallOK, VersionOK
  <2> QED BY <2>3, <2>4, <2>6 DEF CallOK
<1> QED BY <1>1

\* A step of c that leaves history alone and touches no other call, and does not
\* make c an update of another version, keeps the winner the only one.
LEMMA SameWinner ==
  ASSUME Inv, NEW c \in Call, Frame(c),
         Changed(c)' => /\ Changed(c)
                        /\ call'[c].op = call[c].op
                        /\ call'[c].version = call[c].version
  PROVE  OneWinner'
<1> SUFFICES ASSUME NEW d \in Call, NEW e \in Call,
                    call'[d].op = "update", call'[e].op = "update",
                    call'[d].version = call'[e].version,
                    Changed(d)', Changed(e)'
             PROVE  d = e
  BY DEF OneWinner
<1>1. \A f \in Call : Changed(f)' => /\ Changed(f) /\ call'[f].op = call[f].op
                                     /\ call'[f].version = call[f].version
  BY DEF Frame
<1> QED BY <1>1 DEF Inv, OneWinner

\* An update changes a row that holds the version it found.  Whoever has changed
\* the row from that version has moved it on.
LEMMA ChangeWins ==
  ASSUME Inv, NEW c \in Call, Frame(c), Change(c),
         call[c].pc \in {"updating", "saving"},
         call'[c].op = call[c].op, call'[c].version = call[c].version,
         call[c].op = "save" \/ Matches(c)
  PROVE  /\ OneWinner' /\ VersionOK(c)' /\ row' \in Nat /\ fresh' \in Nat
         /\ row < row' /\ row' < fresh' /\ snapshot' = snapshot
<1>1. /\ row' \in Nat /\ fresh' \in Nat /\ row < row' /\ row' < fresh'
      /\ snapshot' = snapshot
  BY DEF Change, Inv, StateOK
<1>2. VersionOK(c)'
  BY <1>1 DEF VersionOK, Matches, Inv, StateOK
<1>3. ASSUME NEW d \in Call, d # c, Changed(d)', call'[d].op = "update",
             call'[c].op = "update", call'[d].version = call'[c].version
      PROVE  FALSE
  <2>1. Changed(d) /\ call'[d] = call[d] /\ Matches(c)
    BY <1>3 DEF Frame
  <2>2. call[d].version < row
    BY <1>3, <2>1 DEF Inv, CallOK, VersionOK
  <2> QED BY <1>3, <2>1, <2>2 DEF Matches, Inv, StateOK
<1>4. ASSUME NEW d \in Call, NEW e \in Call, d # c, e # c,
             call'[d].op = "update", call'[e].op = "update",
             call'[d].version = call'[e].version, Changed(d)', Changed(e)'
      PROVE  d = e
  BY <1>4 DEF Frame, Inv, OneWinner
<1>5. OneWinner'
  BY <1>3, <1>4 DEF OneWinner
<1> QED BY <1>1, <1>2, <1>5

-----------------------------------------------------------------------------
(* Every step, by what it does besides setting the state of its call to l *)

Becomes(c, l) == call' = [call EXCEPT ![c] = l]

\* Rejected updates and those that have not come to the row.
Blank(l) == l.pc \in Before \/ (l.op = "update" /\ l.result = "rejected")

LEMMA QuietStep ==
  ASSUME Inv, NEW c \in Call, NEW l \in CallState, Becomes(c, l),
         UNCHANGED <<table, subscriptions, delivered>>,
         OpOK(l), RanOK(l),
         Blank(l) => Blank(call[c]),
         Changed(c) => l.op = call[c].op /\ l.version = call[c].version
  PROVE  Inv'
<1>1. StateOK'
  BY DEF Inv, StateOK, Becomes, table
<1>2. call'[c] = l
  BY DEF Inv, StateOK, Becomes
<1>3. /\ (Changed(c)' <=> Changed(c)) /\ (Delivered(c)' <=> Delivered(c))
      /\ row' = row
  BY DEF Changed, Delivered, table
<1>4. Frame(c)
  BY DEF Frame, Inv, StateOK, Becomes, Changed, Delivered, table
<1>5. TraceOK(c)'
  BY <1>2, <1>3 DEF Inv, CallOK, TraceOK, Blank
<1>6. VersionOK(c)'
  BY <1>2, <1>3 DEF Inv, CallOK, VersionOK
<1>7. CallOK(c)'
  BY <1>2, <1>5, <1>6 DEF CallOK, OpOK, RanOK
<1>8. row' >= row
  BY <1>3 DEF Inv, StateOK
<1>9. \A d \in Call : CallOK(d)'
  BY <1>1, <1>4, <1>7, <1>8, OthersOK
<1>10. OneWinner'
  BY <1>2, <1>3, <1>4, SameWinner
<1> QED BY <1>1, <1>9, <1>10 DEF Inv

LEMMA ChangingStep ==
  ASSUME Inv, NEW c \in Call, NEW l \in CallState, Becomes(c, l),
         Change(c), UNCHANGED <<subscriptions, delivered>>,
         call[c].pc \in {"updating", "saving"},
         call[c].op = "save" \/ Matches(c),
         OpOK(l), RanOK(l), ~Blank(l),
         l.op = call[c].op, l.version = call[c].version
  PROVE  Inv'
<1>1. call'[c] = l
  BY DEF Inv, StateOK, Becomes
<1>2. Frame(c)
  BY DEF Frame, Inv, StateOK, Becomes, Changed, Delivered, Change
<1>3. /\ OneWinner' /\ VersionOK(c)' /\ row' \in Nat /\ fresh' \in Nat
      /\ row < row' /\ row' < fresh' /\ snapshot' = snapshot
  BY <1>1, <1>2, ChangeWins
<1>4. StateOK'
  BY <1>3 DEF Inv, StateOK, Becomes
<1>5. CallOK(c)'
  BY <1>1, <1>3 DEF CallOK, OpOK, RanOK, TraceOK, Blank
<1>6. row' >= row
  BY <1>3 DEF Inv, StateOK
<1>7. \A d \in Call : CallOK(d)'
  BY <1>2, <1>4, <1>5, <1>6, OthersOK
<1> QED BY <1>3, <1>4, <1>7 DEF Inv


-----------------------------------------------------------------------------
(* The steps *)

LEMMA UpdateStarts ==
  ASSUME Inv, NEW c \in Call, NEW t \in Trigger \cup {NoTrigger},
         StartUpdate(c, t)
  PROVE  Inv'
<1>1. /\ call[c] \in CallState /\ CallOK(c) /\ call[c].pc = "idle"
      /\ UNCHANGED <<table, subscriptions, delivered>>
  BY DEF Inv, StateOK, StartUpdate
<1>2. /\ ~Changed(c) /\ call[c].result = "none" /\ call[c].ran = 0
      /\ Blank(call[c])
  BY <1>1 DEF CallOK, TraceOK, OpOK, RanOK, Before, NotLoaded, Blank
<1> DEFINE l == [call[c] EXCEPT !.pc = "finding", !.op = "update", !.trigger = t]
<1>3. Becomes(c, l)
  BY <1>1 DEF StartUpdate, Becomes, Inv, StateOK
<1> HIDE DEF l
<1>4. /\ l \in CallState /\ l.pc = "finding" /\ l.op = "update"
      /\ l.ran = 0 /\ l.result = "none"
  BY <1>1, <1>2 DEF l, CallState, Pc
<1>5. OpOK(l) /\ RanOK(l)
  BY <1>4 DEF OpOK, RanOK, NotLoaded
<1> QED BY <1>1, <1>2, <1>3, <1>4, <1>5, QuietStep

LEMMA SaveStarts ==
  ASSUME Inv, NEW c \in Call, NEW o \in Outcomes, StartSave(c, o)
  PROVE  Inv'
<1>1. /\ call[c] \in CallState /\ CallOK(c) /\ call[c].pc = "idle"
      /\ UNCHANGED <<table, subscriptions, delivered>>
  BY DEF Inv, StateOK, StartSave
<1>2. /\ ~Changed(c) /\ call[c].result = "none" /\ Blank(call[c])
  BY <1>1 DEF CallOK, TraceOK, OpOK, Before, NotLoaded, Blank
<1> DEFINE l == [call[c] EXCEPT !.pc = "saving", !.op = "save", !.events = o,
                                !.ran = 1]
<1>3. Becomes(c, l)
  BY <1>1 DEF StartSave, Becomes, Inv, StateOK
<1> HIDE DEF l
<1>4. /\ l \in CallState /\ l.pc = "saving" /\ l.op = "save"
      /\ l.ran = 1 /\ l.result = "none"
  BY <1>1, <1>2 DEF l, CallState, Pc
<1>5. OpOK(l) /\ RanOK(l)
  BY <1>4 DEF OpOK, RanOK, NotLoaded
<1> QED BY <1>1, <1>2, <1>3, <1>4, <1>5, QuietStep

\* An update that ends while it is loading or processing was rejected blank.
LEMMA GivingUp ==
  ASSUME Inv, NEW c \in Call, NEW ran \in {0, 1},
         call[c].pc \in {"finding", "reading", "loaded"},
         GiveUp(c, [call[c] EXCEPT !.ran = ran]),
         UNCHANGED <<table, subscriptions, delivered>>
  PROVE  Inv'
<1> DEFINE m == [call[c] EXCEPT !.ran = ran]
<1> DEFINE l == Settled(m, "rejected")
<1> HIDE DEF m, l
<1>0. ran \in Nat /\ ran <= 1
  OBVIOUS
<1>1. call[c] \in CallState /\ CallOK(c) /\ Blank(call[c])
  BY DEF Inv, StateOK, Blank, Before, NotLoaded
<1>2. ~Changed(c)
  BY <1>1 DEF CallOK, TraceOK, Blank
<1>a. m \in CallState /\ m.ran = ran
  BY <1>0, <1>1 DEF m, CallState
<1>3. l \in CallState /\ l.pc = "done" /\ l.ran = ran
  BY <1>a DEF l, Settled, CallState, Pc
<1>4. OpOK(l) /\ RanOK(l)
  BY <1>0, <1>3 DEF OpOK, RanOK, NotLoaded
<1>5. Becomes(c, l)
  BY DEF l, m, GiveUp, Becomes
<1> QED BY <1>1, <1>2, <1>3, <1>4, <1>5, QuietStep

LEMMA FindingSteps ==
  ASSUME Inv, NEW c \in Call, NEW r,
         ReadSnapshot(c, r) \/ ReadEvents(c) \/ FindFails(c)
  PROVE  Inv'
<1>1. /\ call[c] \in CallState /\ CallOK(c) /\ snapshot \in Nat
      /\ call[c].pc \in {"finding", "reading"}
      /\ UNCHANGED <<table, subscriptions, delivered>>
  BY DEF Inv, StateOK, ReadSnapshot, ReadEvents, FindFails
<1>2. /\ ~Changed(c) /\ call[c].result = "none" /\ call[c].op = "update"
      /\ Blank(call[c]) /\ call[c].ran = 0
  BY <1>1 DEF CallOK, TraceOK, RanOK, OpOK, Before, NotLoaded, Blank
<1>3. call[c] = [call[c] EXCEPT !.ran = 0]
  BY <1>1, <1>2 DEF CallState
<1>4. ASSUME GiveUp(c, call[c]) PROVE Inv'
  BY <1>1, <1>3, <1>4, GivingUp
<1>5. CASE ReadSnapshot(c, r)
  <2> DEFINE l == [call[c] EXCEPT !.pc = "reading", !.snap = FoundIn(r)]
  <2> HIDE DEF l
  <2>0. FoundIn(r) \in Int
    BY <1>1 DEF FoundIn, NoRow, EventRow
  <2>1. /\ l \in CallState /\ l.pc = "reading" /\ l.op = "update"
       /\ l.ran = 0 /\ l.result = "none"
    BY <1>1, <1>2, <2>0 DEF l, CallState, Pc, CallOK, OpOK
  <2>1a. OpOK(l) /\ RanOK(l)
    BY <2>1 DEF OpOK, RanOK, NotLoaded
  <2>2. Becomes(c, l)
    BY <1>1, <1>5 DEF l, ReadSnapshot, Becomes, Inv, StateOK
  <2> QED BY <1>1, <1>2, <2>1, <2>2, <2>1a, QuietStep
<1>6. CASE ReadEvents(c) /\ ~FindThrows(c)
  <2> DEFINE l == [call[c] EXCEPT !.pc = "loaded", !.version = EntityVersion(c)]
  <2> HIDE DEF l
  <2>1. EntityVersion(c) \in Int
    BY <1>1 DEF EntityVersion, EventObject, CallState
  <2>2. /\ l \in CallState /\ l.pc = "loaded" /\ l.op = "update"
       /\ l.ran = 0 /\ l.result = "none"
    BY <1>1, <1>2, <2>1 DEF l, CallState, Pc, CallOK, OpOK
  <2>2a. OpOK(l) /\ RanOK(l)
    BY <2>2 DEF OpOK, RanOK, NotLoaded
  <2>3. Becomes(c, l)
    BY <1>1, <1>6 DEF l, ReadEvents, Becomes, Inv, StateOK
  <2> QED BY <1>1, <1>2, <2>2, <2>2a, <2>3, QuietStep
<1> QED BY <1>4, <1>5, <1>6 DEF ReadEvents, FindFails

LEMMA ProcessFailsStep ==
  ASSUME Inv, NEW c \in Call, ProcessFails(c)
  PROVE  Inv'
<1>1. call[c] \in CallState /\ CallOK(c) /\ call[c].pc = "loaded"
  BY DEF Inv, StateOK, ProcessFails
<1>2. call[c].ran = 0
  BY <1>1 DEF CallOK, RanOK, NotLoaded
<1>3. [call[c] EXCEPT !.ran = @ + 1] = [call[c] EXCEPT !.ran = 1]
  BY <1>1, <1>2 DEF CallState
<1> QED BY <1>1, <1>3, GivingUp DEF ProcessFails

LEMMA ProcessStep ==
  ASSUME Inv, NEW c \in Call, NEW o \in Outcomes, Process(c, o)
  PROVE  Inv'
<1> DEFINE m == [call[c] EXCEPT !.ran = @ + 1, !.events = o]
<1> DEFINE l == IF o = <<>> THEN Settled(m, "old") ELSE [m EXCEPT !.pc = "updating"]
<1>0. call' = [call EXCEPT ![c] = l] /\ m.pc = "loaded"
  BY DEF Process
<1>1. /\ call[c] \in CallState /\ CallOK(c) /\ call[c].pc = "loaded"
      /\ UNCHANGED <<table, subscriptions, delivered>>
  BY <1>0 DEF Inv, StateOK, Process, CallState
<1>2. /\ ~Changed(c) /\ call[c].result = "none" /\ call[c].op = "update"
      /\ Blank(call[c]) /\ call[c].ran = 0
  BY <1>1 DEF CallOK, TraceOK, RanOK, OpOK, Before, NotLoaded, Blank
<1> HIDE DEF l
<1>3. m = [call[c] EXCEPT !.ran = 1, !.events = o]
  BY <1>1, <1>2 DEF CallState
<1> HIDE DEF m
<1>4. m \in CallState /\ m.ran = 1 /\ m.op = "update" /\ m.result = "none"
  BY <1>1, <1>2, <1>3 DEF CallState
<1>5. /\ l \in CallState /\ l.ran = 1 /\ l.op = "update"
      /\ l.pc \in {"updating", "done"}
  BY <1>4 DEF l, Settled, CallState, Pc
<1>6. l.pc = "updating" => l.result = "none"
  BY <1>4 DEF l, Settled, CallState
<1>7. OpOK(l) /\ RanOK(l)
  BY <1>5, <1>6 DEF OpOK, RanOK, NotLoaded
<1> QED BY <1>0, <1>1, <1>2, <1>5, <1>7, QuietStep DEF Becomes

LEMMA RowSteps ==
  ASSUME Inv, NEW c \in Call, NEW s \in BOOLEAN,
         SaveRow(c) \/ UpdateRow(c, s) \/ UpdateRowFails(c)
  PROVE  Inv'
<1>1. /\ call[c] \in CallState /\ CallOK(c) /\ call[c].pc \in {"updating", "saving"}
      /\ UNCHANGED <<subscriptions, delivered>>
  BY DEF Inv, StateOK, SaveRow, UpdateRow, UpdateRowFails
<1>2. /\ call[c].pc = "updating" => call[c].op = "update"
      /\ call[c].pc = "saving" => call[c].op = "save"
      /\ Blank(call[c]) /\ ~Changed(c) /\ call[c].result = "none" /\ call[c].ran <= 1
  BY <1>1 DEF CallOK, OpOK, RanOK, TraceOK, Blank, Before
<1> DEFINE result == IF call[c].op = "update" THEN "old" ELSE "rejected"
<1> DEFINE failed == Settled(call[c], result)
<1>3. /\ failed \in CallState /\ failed.pc = "done" /\ failed.ran = call[c].ran
      /\ failed.op = call[c].op /\ failed.version = call[c].version
      /\ failed.result = result
  BY <1>1 DEF Settled, CallState, Pc
<1>4. OpOK(failed) /\ RanOK(failed)
  BY <1>2, <1>3 DEF OpOK, RanOK, NotLoaded
<1>5. ~Blank(failed)
  BY <1>3 DEF Blank, Before, NotLoaded
<1>6. Fail(c) => Becomes(c, failed)
  BY DEF Fail, Becomes
<1> HIDE DEF failed
<1>7. ASSUME Fail(c), UNCHANGED table PROVE Inv'
  BY <1>1, <1>2, <1>3, <1>4, <1>5, <1>6, <1>7, QuietStep
<1>8. ASSUME Fail(c), Change(c), call[c].op = "save" \/ Matches(c) PROVE Inv'
  BY <1>1, <1>3, <1>4, <1>5, <1>6, <1>8, ChangingStep
<1>9. ASSUME Change(c), call[c].op = "save" \/ Matches(c),
             NEW pc \in {"snapshotting", "inserting"},
             pc = "snapshotting" => call[c].op = "update",
             call' = [call EXCEPT ![c].pc = pc]
      PROVE  Inv'
  <2> DEFINE l == [call[c] EXCEPT !.pc = pc]
  <2>1. /\ l \in CallState /\ l.pc = pc /\ l.op = call[c].op
        /\ l.version = call[c].version /\ l.ran = call[c].ran
        /\ l.result = call[c].result
    BY <1>1 DEF CallState, Pc
  <2>2. Becomes(c, l)
    BY <1>1, <1>9 DEF Becomes
  <2> HIDE DEF l
  <2>3. OpOK(l) /\ RanOK(l) /\ ~Blank(l)
    BY <1>2, <1>9, <2>1 DEF OpOK, RanOK, Blank, Before, NotLoaded
  <2> QED BY <1>1, <1>9, <2>1, <2>2, <2>3, ChangingStep
<1>10. CASE SaveRow(c)
  BY <1>7, <1>9, <1>10 DEF SaveRow
<1>11. CASE UpdateRow(c, s)
  BY <1>2, <1>7, <1>9, <1>11 DEF UpdateRow
<1>12. CASE UpdateRowFails(c)
  BY <1>7, <1>8, <1>12 DEF UpdateRowFails
<1> QED BY <1>10, <1>11, <1>12

\* The steps after the row was changed, of which some fail.
LEMMA LateSteps ==
  ASSUME Inv, NEW c \in Call,
         StoreSnapshot(c) \/ InsertEvents(c) \/ InsertFails(c) \/ HandlerThrows(c)
  PROVE  Inv'
<1>1. /\ call[c] \in CallState /\ CallOK(c)
      /\ call[c].pc \in {"snapshotting", "inserting", "publishing"}
      /\ UNCHANGED <<table, subscriptions, delivered>>
  BY DEF Inv, StateOK, StoreSnapshot, InsertEvents, InsertFails, HandlerThrows
<1>2. call[c].ran <= 1 /\ call[c].result = "none"
  BY <1>1 DEF CallOK, RanOK, OpOK
<1>3. ASSUME NEW l \in CallState, Becomes(c, l), l.op = call[c].op,
             l.version = call[c].version, l.ran = call[c].ran,
             \/ l.pc = "publishing" /\ l.result = "none"
             \/ l.pc = "done" /\ l.result = "new"
             \/ l.pc = "done" /\ l.op # "update"
             \/ l.pc = "done" /\ l.result = "old"
      PROVE  Inv'
  <2>1. OpOK(l) /\ RanOK(l) /\ ~Blank(l)
    BY <1>2, <1>3 DEF OpOK, RanOK, Blank, Before, NotLoaded
  <2> QED BY <1>1, <1>3, <2>1, QuietStep
<1>4. ASSUME Fail(c) PROVE Inv'
  <2> DEFINE l == Settled(call[c], IF call[c].op = "update" THEN "old" ELSE "rejected")
  <2>1. /\ l \in CallState /\ l.pc = "done" /\ l.ran = call[c].ran
        /\ l.op = call[c].op /\ l.version = call[c].version
        /\ l.op # "update" \/ l.result = "old"
    BY <1>1 DEF Settled, CallState, Pc
  <2>2. Becomes(c, l)
    BY <1>4 DEF Fail, Becomes
  <2> HIDE DEF l
  <2> QED BY <1>3, <2>1, <2>2
<1>5. CASE InsertEvents(c) /\ subscriptions = <<>>
  <2> DEFINE l == Settled(call[c], "new")
  <2>1. /\ l \in CallState /\ l.pc = "done" /\ l.ran = call[c].ran
        /\ l.op = call[c].op /\ l.version = call[c].version /\ l.result = "new"
    BY <1>1 DEF Settled, CallState, Pc
  <2>2. Becomes(c, l)
    BY <1>5 DEF InsertEvents, Becomes
  <2> HIDE DEF l
  <2> QED BY <1>3, <2>1, <2>2
<1>6. CASE InsertEvents(c) /\ subscriptions # <<>>
  <2> DEFINE n == Len(subscriptions)
  <2> DEFINE l == [call[c] EXCEPT !.pc = "publishing", !.subs = n, !.sub = 1, !.at = 1]
  <2>1. n \in Nat
    BY DEF Inv, StateOK
  <2>2. Becomes(c, l)
    BY <1>6 DEF InsertEvents, Becomes
  <2> HIDE DEF n
  <2>3. /\ l \in CallState /\ l.pc = "publishing" /\ l.ran = call[c].ran
        /\ l.op = call[c].op /\ l.version = call[c].version
        /\ l.result = call[c].result
    BY <1>1, <2>1 DEF CallState, Pc
  <2> HIDE DEF l
  <2> QED BY <1>2, <1>3, <2>2, <2>3
<1> QED BY <1>4, <1>5, <1>6 DEF StoreSnapshot, InsertFails, HandlerThrows

LEMMA PublishStep ==
  ASSUME Inv, NEW c \in Call, Publish(c)
  PROVE  Inv'
<1>1. /\ call[c] \in CallState /\ CallOK(c) /\ call[c].pc = "publishing"
      /\ UNCHANGED <<table, subscriptions>>
  BY DEF Inv, StateOK, Publish
<1>2. call[c].ran <= 1 /\ call[c].result = "none"
  BY <1>1 DEF CallOK, RanOK, OpOK
<1> DEFINE l == Following(call[c])
<1>3. /\ l \in CallState /\ l.op = call[c].op /\ l.version = call[c].version
      /\ l.ran = call[c].ran /\ l.pc \in {"publishing", "done"}
      /\ l.pc = "publishing" => l.result = "none"
      /\ l.result # "rejected"
  <2>1. CASE call[c].at < Len(call[c].events)
    BY <1>1, <1>2, <2>1 DEF Following, CallState, Pc
  <2>2. CASE ~(call[c].at < Len(call[c].events)) /\ call[c].sub < Len(subscriptions)
    <3> DEFINE n == call[c].sub + 1
    <3>1. l = [call[c] EXCEPT !.sub = n, !.at = 1]
      BY <2>2 DEF Following
    <3>2. n \in Nat
      BY <1>1 DEF CallState
    <3> HIDE DEF n, l
    <3> QED BY <1>1, <1>2, <3>1, <3>2 DEF CallState, Pc
  <2>3. CASE /\ ~(call[c].at < Len(call[c].events))
             /\ ~(call[c].sub < Len(subscriptions))
    BY <1>1, <1>2, <2>3 DEF Following, Settled, CallState, Pc
  <2> QED BY <2>1, <2>2, <2>3
<1>4. Becomes(c, l)
  BY DEF Publish, Becomes
<1> HIDE DEF l
<1>5. OpOK(l) /\ RanOK(l) /\ ~Blank(l)
  BY <1>2, <1>3 DEF OpOK, RanOK, Blank, Before, NotLoaded
<1>6. CASE delivered' = delivered
  BY <1>1, <1>3, <1>4, <1>5, <1>6, QuietStep
<1>7. CASE delivered' = Append(delivered, [by |-> c, to |-> call[c].sub, at |-> call[c].at])
  <2> DEFINE e == [by |-> c, to |-> call[c].sub, at |-> call[c].at]
  <2>1. e \in Delivery
    BY <1>1 DEF Delivery, CallState
  <2>2. StateOK'
    BY <1>1, <1>3, <1>4, <1>7, <2>1 DEF Inv, StateOK, Becomes, table
  <2>3. \A d \in Call \ {c} : Delivered(d)' => Delivered(d)
    BY <1>7 DEF Delivered, Inv, StateOK
  <2>4. Frame(c)
    BY <1>1, <1>4, <2>3 DEF Frame, Inv, StateOK, Becomes, Changed, table
  <2>5. call'[c] = l /\ row' = row /\ (Changed(c)' <=> Changed(c))
    BY <1>1, <1>4 DEF Inv, StateOK, Becomes, Changed, table
  <2>6. OpOK(call[c])' /\ RanOK(call[c])' /\ TraceOK(c)'
    BY <1>5, <2>5 DEF OpOK, RanOK, TraceOK, Blank
  <2>7. VersionOK(c)'
    BY <1>1, <1>3, <2>5 DEF CallOK, VersionOK
  <2>8. \A d \in Call : CallOK(d)'
    <3>1. CallOK(c)' /\ row' >= row
      BY <2>5, <2>6, <2>7 DEF CallOK, Inv, StateOK
    <3> QED BY <2>2, <2>4, <3>1, OthersOK
  <2>9. OneWinner'
    BY <1>3, <2>4, <2>5, SameWinner
  <2> QED BY <2>2, <2>8, <2>9 DEF Inv
<1> QED BY <1>6, <1>7 DEF Publish

\* What no call does leaves the calls as they should be, if it does not take the
\* row back.
LEMMA OtherStep ==
  ASSUME Inv, StateOK', row' >= row, UNCHANGED <<call, history, delivered>>
  PROVE  Inv'
<1>1. \A c \in Call : /\ Changed(c)' <=> Changed(c)
                      /\ Delivered(c)' <=> Delivered(c)
  BY DEF Changed, Delivered
<1>2. ASSUME NEW c \in Call PROVE CallOK(c)'
  <2>1. /\ CallOK(c) /\ call[c].version \in Int /\ row \in Nat /\ row' \in Nat
    BY DEF Inv, StateOK, CallState
  <2>2. OpOK(call[c])' /\ RanOK(call[c])' /\ TraceOK(c)'
    BY <1>1, <2>1 DEF CallOK, OpOK, RanOK, TraceOK
  <2>3. VersionOK(c)'
    BY <1>1, <2>1 DEF CallOK, VersionOK
  <2> QED BY <2>2, <2>3 DEF CallOK
<1>3. OneWinner'
  BY <1>1 DEF Inv, OneWinner
<1> QED BY <1>2, <1>3 DEF Inv

LEMMA SubscribeStep ==
  ASSUME Inv, NEW types \in Interests, Subscribe(types)
  PROVE  Inv'
<1>1. StateOK' /\ row' >= row
  BY DEF Inv, StateOK, Subscribe, table
<1> QED BY <1>1, OtherStep DEF Subscribe, table

LEMMA OutsideStep ==
  ASSUME Inv, NEW t, NEW s \in BOOLEAN, OutsideStores(t, s)
  PROVE  Inv'
<1>1. row' \in Nat /\ fresh' \in Nat /\ row' < fresh' /\ row' >= row
  BY DEF Inv, StateOK, OutsideStores
<1>2. snapshot' \in Nat
  BY DEF Inv, StateOK, OutsideStores
<1>3. StateOK'
  BY <1>1, <1>2 DEF Inv, StateOK, OutsideStores
<1> QED BY <1>1, <1>3, OtherStep DEF OutsideStores

-----------------------------------------------------------------------------

LEMMA Initially == Init => Inv
<1> SUFFICES ASSUME Init PROVE Inv
  OBVIOUS
<1>1. Idle \in CallState
  BY DEF Idle, CallState, Pc, NoRow
<1>2. StateOK
  BY <1>1 DEF Init, StateOK, NoRow
<1>3. \A c \in Call : ~Changed(c) /\ ~Delivered(c) /\ call[c] = Idle
  BY DEF Init, Changed, Delivered
<1>4. \A c \in Call : CallOK(c)
  BY <1>3 DEF CallOK, OpOK, RanOK, TraceOK, VersionOK, Idle, NotLoaded
<1>5. OneWinner
  BY <1>3 DEF OneWinner
<1> QED BY <1>2, <1>4, <1>5 DEF Inv

LEMMA Steps == Inv /\ [Next]_arVars => Inv'
<1> SUFFICES ASSUME Inv, [Next]_arVars PROVE Inv'
  OBVIOUS
<1>1. CASE UNCHANGED arVars
  <2>1. StateOK' /\ row' >= row
    BY <1>1 DEF arVars, Inv, StateOK
  <2> QED BY <1>1, <2>1, OtherStep DEF arVars
<1>2. CASE Next
  <2>1. ASSUME NEW c \in Call, NEW t \in Trigger \cup {NoTrigger}, StartUpdate(c, t)
        PROVE  Inv'
    BY <2>1, UpdateStarts
  <2>2. ASSUME NEW c \in Call, NEW o \in Outcomes, StartSave(c, o) PROVE Inv'
    BY <2>2, SaveStarts
  <2>3. ASSUME NEW c \in Call, NEW o \in Outcomes, Process(c, o) PROVE Inv'
    BY <2>3, ProcessStep
  <2>4. ASSUME NEW c \in Call, NEW r \in Repository, ReadSnapshot(c, r)
        PROVE  Inv'
    BY <2>4, FindingSteps
  <2>11. ASSUME NEW c \in Call, ReadEvents(c) \/ FindFails(c) PROVE Inv'
    BY <2>11, FindingSteps
  <2>5. ASSUME NEW c \in Call, ProcessFails(c) PROVE Inv'
    BY <2>5, ProcessFailsStep
  <2>6. ASSUME NEW c \in Call, NEW s \in BOOLEAN,
               SaveRow(c) \/ UpdateRow(c, s) \/ UpdateRowFails(c)
        PROVE  Inv'
    BY <2>6, RowSteps
  <2>7. ASSUME NEW c \in Call,
               StoreSnapshot(c) \/ InsertEvents(c) \/ InsertFails(c) \/ HandlerThrows(c)
        PROVE  Inv'
    BY <2>7, LateSteps
  <2>8. ASSUME NEW c \in Call, Publish(c) PROVE Inv'
    BY <2>8, PublishStep
  <2>9. ASSUME NEW types \in Interests, Subscribe(types) PROVE Inv'
    BY <2>9, SubscribeStep
  <2>10. ASSUME NEW t \in Trigger \cup {NoTrigger}, NEW s \in BOOLEAN,
                OutsideStores(t, s)
         PROVE  Inv'
    BY <2>10, OutsideStep
  <2> QED BY <1>2, <2>1, <2>2, <2>3, <2>4, <2>5, <2>6, <2>7, <2>8, <2>9, <2>10,
             <2>11
          DEF Next
<1> QED BY <1>1, <1>2

-----------------------------------------------------------------------------
(* What has been delivered when a caller is told a new version *)

\* Call c has had subscription i handle those of its first n events that the
\* subscription is interested in, in their order.
Covered(c, i, n) ==
  /\ {delivered[j].at : j \in Deliveries(c, i)} =
       {k \in 1 .. n : IsInterestedIn(i, call[c].events[k])}
  /\ \A j, k \in Deliveries(c, i) : j < k => delivered[j].at < delivered[k].at

\* How many events a call that is publishing is through with, for each
\* subscription.
Through(l, i) ==
  IF i < l.sub THEN Len(l.events) ELSE IF i = l.sub THEN l.at - 1 ELSE 0

PublishingOK(c) ==
  /\ call[c].sub \in DOMAIN subscriptions /\ call[c].at \in DOMAIN call[c].events
  /\ call[c].subs <= Len(subscriptions)
  /\ \A i \in DOMAIN subscriptions : Covered(c, i, Through(call[c], i))

DeliveryOK(c) ==
  /\ call[c].pc \notin {"publishing", "done"} => call[c].subs = 0
  /\ call[c].pc \in {"updating", "snapshotting", "inserting"} => call[c].events # <<>>
  /\ call[c].pc \in {"snapshotting", "inserting"} => ~Delivered(c)
  /\ call[c].pc \in {"snapshotting", "inserting", "publishing"}
       \/ call[c].result = "new" => Changed(c)
  /\ call[c].pc = "publishing" => PublishingOK(c)
  /\ call[c].result = "new" =>
       /\ call[c].subs <= Len(subscriptions)
       /\ \A i \in 1 .. call[c].subs : Covered(c, i, Len(call[c].events))

\* Nothing is delivered to a subscription that is yet to come.
TablesOK ==
  /\ snapshot < fresh
  /\ \A j \in DOMAIN delivered : delivered[j].to \in DOMAIN subscriptions

DeliveryInv == TablesOK /\ \A c \in Call : DeliveryOK(c)

LEMMA Appended ==
  ASSUME NEW S, NEW s \in Seq(S), NEW e \in S
  PROVE  /\ Len(Append(s, e)) = Len(s) + 1 /\ Len(s) \in Nat
         /\ DOMAIN s = 1 .. Len(s) /\ DOMAIN Append(s, e) = 1 .. Len(s) + 1
         /\ \A j \in 1 .. Len(s) : Append(s, e)[j] = s[j]
         /\ Append(s, e)[Len(s) + 1] = e
  OBVIOUS

LEMMA KeptDeliveries ==
  ASSUME StateOK, NEW c, NEW i,
         \/ delivered' = delivered
         \/ \E e \in Delivery : delivered' = Append(delivered, e) /\ ~(e.by = c /\ e.to = i)
  PROVE  /\ Deliveries(c, i)' = Deliveries(c, i)
         /\ \A j \in Deliveries(c, i) : delivered'[j] = delivered[j]
<1>1. CASE delivered' = delivered
  BY <1>1 DEF Deliveries
<1>2. ASSUME NEW e \in Delivery, delivered' = Append(delivered, e),
             ~(e.by = c /\ e.to = i)
      PROVE  /\ Deliveries(c, i)' = Deliveries(c, i)
             /\ \A j \in Deliveries(c, i) : delivered'[j] = delivered[j]
  <2> DEFINE n == Len(delivered)
  <2>1. /\ n \in Nat /\ DOMAIN delivered = 1 .. n /\ DOMAIN delivered' = 1 .. n + 1
        /\ \A j \in 1 .. n : delivered'[j] = delivered[j]
        /\ delivered'[n + 1] = e
    BY <1>2, Appended DEF StateOK
  <2> HIDE DEF n
  <2>2. ASSUME NEW j
        PROVE  j \in Deliveries(c, i)' <=> j \in Deliveries(c, i)
    BY <1>2, <2>1 DEF Deliveries
  <2> QED BY <2>1, <2>2 DEF Deliveries
<1> QED BY <1>1, <1>2

LEMMA KeptCovered ==
  ASSUME StateOK, NEW c \in Call, NEW i \in DOMAIN subscriptions, NEW n \in Nat,
         \/ delivered' = delivered
         \/ \E e \in Delivery : delivered' = Append(delivered, e) /\ ~(e.by = c /\ e.to = i),
         call'[c].events = call[c].events, subscriptions'[i] = subscriptions[i],
         Covered(c, i, n)
  PROVE  Covered(c, i, n)'
<1>1. /\ Deliveries(c, i)' = Deliveries(c, i)
      /\ \A j \in Deliveries(c, i) : delivered'[j] = delivered[j]
  BY KeptDeliveries
<1>2. \A k \in 1 .. n : IsInterestedIn(i, call[c].events[k])
                          <=> IsInterestedIn(i, call[c].events[k])'
  BY DEF IsInterestedIn
<1> QED BY <1>1, <1>2 DEF Covered

LEMMA KeptEvents ==
  ASSUME StateOK, NEW c \in Call
  PROVE  /\ call[c] \in CallState /\ Len(call[c].events) \in Nat
         /\ DOMAIN call[c].events = 1 .. Len(call[c].events)
<1>1. call[c] \in CallState
  BY DEF StateOK
<1>2. call[c].events \in Seq(STRING)
  <2>1. <<>> \in Seq(STRING) /\ Outcomes \subseteq Seq(STRING)
    BY AggregateAssumption
  <2> QED BY <1>1, <2>1 DEF CallState
<1> QED BY <1>1, <1>2

\* A call that is at no step stays as it is whatever the others have delivered
\* and whoever has subscribed: to a new subscription nothing was delivered.
LEMMA KeptDelivery ==
  ASSUME StateOK, StateOK', TablesOK, NEW c \in Call, DeliveryOK(c),
         call'[c] = call[c], Changed(c) => Changed(c)',
         \/ delivered' = delivered
         \/ \E e \in Delivery : delivered' = Append(delivered, e) /\ e.by # c,
         \/ subscriptions' = subscriptions
         \/ /\ \E types \in Interests : subscriptions' = Append(subscriptions, types)
            /\ delivered' = delivered
  PROVE  DeliveryOK(c)'
<1> DEFINE l == call[c]
           m == Len(l.events)
           n == Len(subscriptions)
<1>1. l \in CallState /\ m \in Nat /\ DOMAIN l.events = 1 .. m
  BY KeptEvents
<1>2. /\ DOMAIN subscriptions = 1 .. n /\ DOMAIN subscriptions' = 1 .. n'
      /\ n \in Nat /\ n' \in Nat /\ n <= n'
      /\ \A i \in DOMAIN subscriptions : subscriptions'[i] = subscriptions[i]
  <2>1. CASE subscriptions' = subscriptions
    BY <2>1 DEF StateOK
  <2>2. CASE \E types \in Interests : subscriptions' = Append(subscriptions, types)
    BY <2>2, Appended DEF StateOK
  <2> QED BY <2>1, <2>2
<1>3. ASSUME NEW i \in DOMAIN subscriptions, NEW k \in Nat, Covered(c, i, k)
      PROVE  Covered(c, i, k)'
  BY <1>2, <1>3, KeptCovered
<1>a. l.sub \in Nat /\ l.subs \in Nat
  BY <1>1 DEF CallState
<1>4. Delivered(c)' => Delivered(c)
  <2>1. ASSUME NEW e \in Delivery, delivered' = Append(delivered, e), e.by # c
        PROVE  Delivered(c)' => Delivered(c)
    BY <2>1, Appended DEF Delivered, StateOK
  <2> QED BY <2>1 DEF Delivered
<1>b. m' = m
  OBVIOUS
<1> HIDE DEF n, l
<1>5. ASSUME l.pc = "publishing" PROVE PublishingOK(c)'
  <2>1. PublishingOK(c)
    BY <1>5 DEF DeliveryOK, l
  <2>2. l.sub \in DOMAIN subscriptions /\ l.at \in 1 .. m
    BY <1>1, <2>1 DEF PublishingOK, l
  <2>3. ASSUME NEW i \in DOMAIN subscriptions PROVE Covered(c, i, Through(l, i))'
    <3>1. Through(l, i) \in Nat
      BY <1>1, <2>2 DEF Through
    <3> QED BY <1>3, <2>1, <3>1 DEF PublishingOK, Through, l
  <2>4. ASSUME NEW i \in DOMAIN subscriptions', i \notin DOMAIN subscriptions
        PROVE  Covered(c, i, 0)' /\ Through(l, i) = 0
    <3>1. Deliveries(c, i)' = {}
      <4>1. delivered' = delivered
        BY <2>4
      <4> QED BY <2>4, <4>1 DEF Deliveries, TablesOK
    <3>2. i \in Nat /\ l.sub \in Nat /\ i > l.sub
      BY <1>2, <1>a, <2>2, <2>4
    <3> QED BY <3>1, <3>2 DEF Covered, Through
  <2>5. l.at \in DOMAIN l.events /\ l.subs <= n
    BY <2>1 DEF PublishingOK, l, n
  <2>6. \A i \in DOMAIN subscriptions' : Covered(c, i, Through(call[c], i))'
    BY <2>3, <2>4 DEF Through, l
  <2>7. l.sub \in DOMAIN subscriptions' /\ l.subs <= n'
    BY <1>2, <1>a, <2>2, <2>5
  <2> QED BY <2>5, <2>6, <2>7 DEF PublishingOK, l, n
<1>6. ASSUME l.result = "new"
      PROVE  /\ l.subs <= n'
             /\ \A i \in 1 .. l.subs : Covered(c, i, m)'
  <2>1. /\ l.subs <= n /\ l.subs \in Nat
        /\ \A i \in 1 .. l.subs : Covered(c, i, m)
    BY <1>a, <1>6 DEF DeliveryOK, l, n
  <2>2. 1 .. l.subs \subseteq DOMAIN subscriptions
    BY <1>2, <1>a, <2>1
  <2>3. l.subs <= n'
    BY <1>2, <1>a, <2>1
  <2> HIDE DEF m
  <2>4. ASSUME NEW i \in 1 .. l.subs PROVE Covered(c, i, m)'
    BY <1>1, <1>3, <1>b, <2>1, <2>2
  <2> QED BY <2>3, <2>4
<1> QED BY <1>4, <1>5, <1>6 DEF DeliveryOK, l, n

-----------------------------------------------------------------------------

\* The other calls keep theirs at a step of call c.
Others(c) ==
  \A d \in Call \ {c} : call'[d] = call[d] /\ (Changed(d) => Changed(d)')

LEMMA OthersKeep ==
  ASSUME StateOK, StateOK', DeliveryInv, NEW c \in Call, Others(c),
         \/ delivered' = delivered
         \/ \E e \in Delivery : delivered' = Append(delivered, e) /\ e.by = c,
         subscriptions' = subscriptions, snapshot' < fresh',
         DeliveryOK(c)',
         \A j \in DOMAIN delivered' : delivered'[j].to \in DOMAIN subscriptions'
  PROVE  DeliveryInv'
<1>1. ASSUME NEW d \in Call \ {c} PROVE DeliveryOK(d)'
  <2>1. call'[d] = call[d] /\ (Changed(d) => Changed(d)')
    BY DEF Others
  <2>2. \/ delivered' = delivered
        \/ \E e \in Delivery : delivered' = Append(delivered, e) /\ e.by # d
    OBVIOUS
  <2> QED BY <2>1, <2>2, KeptDelivery DEF DeliveryInv
<1> QED BY <1>1 DEF DeliveryInv, TablesOK

\* A step that delivers nothing and whose call is not through, nor publishing.
LEMMA QuietDelivery ==
  ASSUME Inv, Inv', DeliveryInv, NEW c \in Call, NEW l, Becomes(c, l),
         UNCHANGED <<subscriptions, delivered>>, UNCHANGED table \/ Change(c),
         l.result # "new", l.pc # "publishing",
         l.pc # "done" => l.subs = 0,
         l.pc \in {"updating", "snapshotting", "inserting"} => l.events # <<>>,
         l.pc \in {"snapshotting", "inserting"} => ~Delivered(c) /\ Changed(c)'
  PROVE  DeliveryInv'
<1>1. call'[c] = l /\ \A d \in Call \ {c} : call'[d] = call[d]
  BY DEF Inv, StateOK, Becomes
<1>2. \A d \in Call : Changed(d) => Changed(d)'
  BY DEF Changed, table, Change
<1>3. snapshot' < fresh'
  BY DEF table, Change, Inv, StateOK, DeliveryInv, TablesOK
<1>4. Delivered(c)' <=> Delivered(c)
  BY DEF Delivered
<1>5. DeliveryOK(c)'
  BY <1>1, <1>4 DEF DeliveryOK
<1> QED BY <1>1, <1>2, <1>3, <1>5, OthersKeep DEF Others, Inv, DeliveryInv, TablesOK

\* The steps of a call before it comes to the row.
LEMMA EarlyDelivery ==
  ASSUME Inv, Inv', DeliveryInv, NEW c \in Call,
         \/ \E t \in Trigger \cup {NoTrigger} : StartUpdate(c, t)
         \/ \E o \in Outcomes : StartSave(c, o)
         \/ \E r \in Repository : ReadSnapshot(c, r)
         \/ ReadEvents(c) /\ ~FindThrows(c)
  PROVE  DeliveryInv'
<1> DEFINE l == call'[c]
<1>1. call[c] \in CallState /\ l \in CallState /\ DeliveryOK(c) /\ OpOK(l)
  BY DEF Inv, StateOK, CallOK, DeliveryInv
<1> DEFINE Moves ==
      /\ Becomes(c, l)
      /\ l.subs = call[c].subs /\ call[c].pc \notin {"publishing", "done"}
      /\ l.pc \in {"finding", "saving", "reading", "loaded"}
<1>2. Moves
  <2>1. ASSUME NEW pc \in {"finding", "saving", "reading", "loaded"},
               NEW m, Becomes(c, m), m.subs = call[c].subs, m.pc = pc
        PROVE  Becomes(c, l) /\ l.subs = call[c].subs /\ l.pc = pc
    BY <2>1 DEF Becomes, Inv, StateOK
  <2>2. ASSUME NEW t \in Trigger \cup {NoTrigger}, StartUpdate(c, t)
        PROVE  Moves
    <3> DEFINE m == [call[c] EXCEPT !.pc = "finding", !.op = "update",
                                    !.trigger = t]
    <3>1. Becomes(c, m)
      BY <2>2 DEF StartUpdate, Becomes, Inv, StateOK
    <3>2. m.subs = call[c].subs /\ m.pc = "finding" /\ call[c].pc = "idle"
      BY <1>1, <2>2 DEF CallState, StartUpdate
    <3> HIDE DEF m, l
    <3> QED BY <2>1, <3>1, <3>2
  <2>3. ASSUME NEW o \in Outcomes, StartSave(c, o) PROVE Moves
    <3> DEFINE m == [call[c] EXCEPT !.pc = "saving", !.op = "save",
                                    !.events = o, !.ran = 1]
    <3>1. Becomes(c, m)
      BY <2>3 DEF StartSave, Becomes, Inv, StateOK
    <3>2. m.subs = call[c].subs /\ m.pc = "saving" /\ call[c].pc = "idle"
      BY <1>1, <2>3 DEF CallState, StartSave
    <3> HIDE DEF m, l
    <3> QED BY <2>1, <3>1, <3>2
  <2>4. ASSUME NEW r \in Repository, ReadSnapshot(c, r) PROVE Moves
    <3> DEFINE m == [call[c] EXCEPT !.pc = "reading", !.snap = FoundIn(r)]
    <3>1. Becomes(c, m)
      BY <2>4 DEF ReadSnapshot, Becomes, Inv, StateOK
    <3>2. m.subs = call[c].subs /\ m.pc = "reading" /\ call[c].pc = "finding"
      BY <1>1, <2>4 DEF CallState, ReadSnapshot
    <3> HIDE DEF m, l
    <3> QED BY <2>1, <3>1, <3>2
  <2>5. ASSUME ReadEvents(c), ~FindThrows(c) PROVE Moves
    <3> DEFINE m == [call[c] EXCEPT !.pc = "loaded", !.version = EntityVersion(c)]
    <3>1. Becomes(c, m)
      BY <2>5 DEF ReadEvents, Becomes, Inv, StateOK
    <3>2. m.subs = call[c].subs /\ m.pc = "loaded" /\ call[c].pc = "reading"
      BY <1>1, <2>5 DEF CallState, ReadEvents
    <3> HIDE DEF m, l
    <3> QED BY <2>1, <3>1, <3>2
  <2> QED BY <2>2, <2>3, <2>4, <2>5
<1>3. UNCHANGED <<table, subscriptions, delivered>>
  BY DEF StartUpdate, StartSave, ReadSnapshot, ReadEvents
<1> HIDE DEF l
<1>4. l.result = "none" /\ l.subs = 0
  BY <1>1, <1>2 DEF OpOK, DeliveryOK
<1> QED BY <1>1, <1>2, <1>3, <1>4, QuietDelivery

\* A call that ends otherwise than with a new version.
LEMMA EndingDelivery ==
  ASSUME Inv, Inv', DeliveryInv, NEW c \in Call, NEW m, NEW result,
         result # "new", Becomes(c, Settled(m, result)),
         m \in CallState,
         UNCHANGED <<subscriptions, delivered>>, UNCHANGED table \/ Change(c)
  PROVE  DeliveryInv'
<1> DEFINE l == Settled(m, result)
<1>1. l.result # "new" /\ l.pc = "done"
  BY DEF Settled, CallState
<1> HIDE DEF l
<1> QED BY <1>1, QuietDelivery DEF l

LEMMA FailingDelivery ==
  ASSUME Inv, Inv', DeliveryInv, NEW c \in Call,
         \/ FindFails(c) \/ (ReadEvents(c) /\ FindThrows(c)) \/ ProcessFails(c)
         \/ UpdateRowFails(c) \/ StoreSnapshot(c) \/ InsertFails(c)
         \/ HandlerThrows(c)
  PROVE  DeliveryInv'
<1>1. call[c] \in CallState
  BY DEF Inv, StateOK
<1> DEFINE m == [call[c] EXCEPT !.ran = @ + 1]
<1>2. m \in CallState
  BY <1>1 DEF CallState
<1>3. /\ UNCHANGED <<subscriptions, delivered>>
      /\ UNCHANGED table \/ Change(c)
  BY DEF FindFails, ReadEvents, ProcessFails, UpdateRowFails, StoreSnapshot,
         InsertFails, HandlerThrows
<1> DEFINE result == IF call[c].op = "update" THEN "old" ELSE "rejected"
<1>4. \/ Becomes(c, Settled(call[c], "rejected")) \/ Becomes(c, Settled(m, "rejected"))
      \/ Becomes(c, Settled(call[c], result))
  BY DEF FindFails, ReadEvents, ProcessFails, UpdateRowFails, StoreSnapshot,
         InsertFails, HandlerThrows, GiveUp, Fail, Becomes
<1>5. result # "new"
  OBVIOUS
<1> HIDE DEF m, result
<1> QED BY <1>1, <1>2, <1>3, <1>4, <1>5, EndingDelivery

LEMMA ProcessDelivery ==
  ASSUME Inv, Inv', DeliveryInv, NEW c \in Call, NEW o \in Outcomes, Process(c, o)
  PROVE  DeliveryInv'
<1> DEFINE m == [call[c] EXCEPT !.ran = @ + 1, !.events = o]
           l == [m EXCEPT !.pc = "updating"]
<1>1. /\ call[c] \in CallState /\ DeliveryOK(c) /\ OpOK(call[c])
      /\ UNCHANGED <<table, subscriptions, delivered>>
  BY DEF Inv, StateOK, CallOK, DeliveryInv, Process
<1>a. m.pc = "loaded"
  BY DEF Process
<1>2. /\ m.pc = "loaded" /\ m.subs = call[c].subs /\ m.result = call[c].result
      /\ m.events = o /\ m \in CallState
  <2> DEFINE n == call[c].ran + 1
  <2>1. n \in Nat
    BY <1>1 DEF CallState
  <2>2. m = [call[c] EXCEPT !.ran = n, !.events = o]
    OBVIOUS
  <2> HIDE DEF n, m
  <2> QED BY <1>1, <1>a, <2>1, <2>2 DEF CallState
<1>3. Becomes(c, IF o = <<>> THEN Settled(m, "old") ELSE l)
  BY DEF Process, Becomes
<1>4. m.pc = call[c].pc
  BY <1>1 DEF CallState
<1> HIDE DEF m
<1>5. CASE o = <<>>
  BY <1>1, <1>2, <1>3, <1>5, EndingDelivery
<1>6. CASE o # <<>>
  <2>1. l.pc = "updating" /\ l.subs = 0 /\ l.result = "none" /\ l.events = o
    BY <1>1, <1>2, <1>4 DEF CallState, DeliveryOK, OpOK
  <2>2. Becomes(c, l)
    BY <1>3, <1>6
  <2> HIDE DEF l
  <2> QED BY <1>1, <1>6, <2>1, <2>2, QuietDelivery
<1> QED BY <1>5, <1>6

LEMMA RowDelivery ==
  ASSUME Inv, Inv', DeliveryInv, NEW c \in Call, NEW s \in BOOLEAN,
         SaveRow(c) \/ UpdateRow(c, s)
  PROVE  DeliveryInv'
<1>1. /\ call[c] \in CallState /\ CallOK(c) /\ DeliveryOK(c)
      /\ call[c].pc \in {"updating", "saving"}
      /\ UNCHANGED <<subscriptions, delivered>>
  BY DEF Inv, StateOK, DeliveryInv, SaveRow, UpdateRow
<1>2. ASSUME Fail(c), UNCHANGED table PROVE DeliveryInv'
  <2> DEFINE result == IF call[c].op = "update" THEN "old" ELSE "rejected"
  <2>1. result # "new" /\ Becomes(c, Settled(call[c], result))
    BY <1>2 DEF Fail, Becomes
  <2> HIDE DEF result
  <2> QED BY <1>1, <1>2, <2>1, EndingDelivery
<1>3. ASSUME NEW pc \in {"snapshotting", "inserting"}, Change(c),
             call[c].events # <<>>, call' = [call EXCEPT ![c].pc = pc]
      PROVE  DeliveryInv'
  <2> DEFINE l == [call[c] EXCEPT !.pc = pc]
  <2>1. Becomes(c, l)
    BY <1>1, <1>3 DEF Becomes
  <2>2. /\ l.pc = pc /\ l.subs = 0 /\ l.result = "none"
        /\ l.events # <<>>
    BY <1>1, <1>3 DEF CallState, DeliveryOK, CallOK, OpOK
  <2>3. ~Delivered(c) /\ Changed(c)'
    <3>1. ~Delivered(c)
      BY <1>1 DEF CallOK, TraceOK, Before
    <3>2. [by |-> c, from |-> row, to |-> fresh] \in history'
      BY <1>3 DEF Change
    <3> QED BY <3>1, <3>2 DEF Changed
  <2> HIDE DEF l
  <2> QED BY <1>1, <1>3, <2>1, <2>2, <2>3, QuietDelivery
<1>4. CASE SaveRow(c)
  BY <1>1, <1>2, <1>3, <1>4 DEF SaveRow
<1>5. CASE UpdateRow(c, s)
  BY <1>1, <1>2, <1>3, <1>5 DEF UpdateRow, DeliveryOK
<1> QED BY <1>4, <1>5

LEMMA InsertDelivery ==
  ASSUME Inv, Inv', DeliveryInv, NEW c \in Call, InsertEvents(c)
  PROVE  DeliveryInv'
<1> DEFINE n == Len(subscriptions)
<1>1. /\ call[c] \in CallState /\ CallOK(c) /\ DeliveryOK(c)
      /\ call[c].pc = "inserting" /\ StateOK /\ StateOK'
      /\ UNCHANGED <<table, subscriptions, delivered>>
  BY DEF Inv, StateOK, DeliveryInv, InsertEvents
<1>2. /\ call[c].subs = 0 /\ call[c].result = "none" /\ ~Delivered(c)
      /\ call[c].events # <<>> /\ Changed(c)
  BY <1>1 DEF DeliveryOK, CallOK, OpOK
<1>3. /\ \A i : Deliveries(c, i)' = {}
      /\ Changed(c)' /\ ~Delivered(c)'
  BY <1>1, <1>2 DEF Deliveries, Delivered, Changed, table
<1>4. DOMAIN subscriptions = 1 .. n /\ n \in Nat /\ (subscriptions # <<>> => n > 0)
  BY <1>1 DEF StateOK
<1>5. ASSUME subscriptions = <<>> PROVE DeliveryOK(c)'
  <2> DEFINE l == Settled(call[c], "new")
  <2>1. call'[c] = l
    BY <1>1, <1>5 DEF InsertEvents, StateOK
  <2>2. l.pc = "done" /\ l.subs = 0 /\ l.result = "new"
    BY <1>1, <1>2 DEF Settled, CallState
  <2>3. n = 0 /\ subscriptions' = subscriptions
    BY <1>1, <1>5
  <2> HIDE DEF l
  <2> QED BY <1>3, <2>1, <2>2, <2>3 DEF DeliveryOK
<1>6. ASSUME subscriptions # <<>> PROVE DeliveryOK(c)'
  <2> DEFINE m == Len(call[c].events)
  <2>1. m \in Nat /\ DOMAIN call[c].events = 1 .. m
    BY <1>1, KeptEvents
  <2>2. m > 0
    BY <1>2, <2>1
  <2> DEFINE l == [call[c] EXCEPT !.pc = "publishing", !.subs = n, !.sub = 1,
                                  !.at = 1]
  <2>3. call'[c] = l
    BY <1>1, <1>6 DEF InsertEvents, StateOK
  <2>4. /\ l.pc = "publishing" /\ l.subs = n /\ l.sub = 1 /\ l.at = 1
        /\ l.events = call[c].events /\ l.result = "none"
    BY <1>1, <1>2 DEF CallState
  <2>5. \A i \in DOMAIN subscriptions : Through(l, i) = 0
    BY <1>4, <2>4 DEF Through
  <2> HIDE DEF l, m
  <2>6. \A i \in DOMAIN subscriptions : Through(call[c], i)' = 0
    BY <2>3, <2>5 DEF Through
  <2>7. \A i \in DOMAIN subscriptions : Covered(c, i, Through(call[c], i))'
    BY <1>3, <2>6 DEF Covered
  <2>8. l.sub \in DOMAIN subscriptions /\ l.at \in DOMAIN l.events
    BY <1>4, <1>6, <2>1, <2>2, <2>4
  <2>9. subscriptions' = subscriptions /\ n <= n
    BY <1>1, <1>4
  <2>10. PublishingOK(c)'
    BY <2>3, <2>4, <2>7, <2>8, <2>9 DEF PublishingOK
  <2> QED BY <1>3, <2>3, <2>4, <2>10 DEF DeliveryOK
<1>7. DeliveryOK(c)'
  BY <1>5, <1>6
<1>8. Others(c)
  BY <1>1 DEF Others, StateOK, InsertEvents, Changed, table
<1>9. snapshot' < fresh'
  BY <1>1 DEF table, DeliveryInv, TablesOK
<1> QED BY <1>1, <1>7, <1>8, <1>9, OthersKeep DEF DeliveryInv, TablesOK

\* The event that is looked at is the next that its subscription is through with.
LEMMA CoversNext ==
  ASSUME StateOK, NEW c \in Call, NEW i \in DOMAIN subscriptions,
         NEW n \in Nat, i = call[c].sub, n = call[c].at - 1,
         delivered' = IF IsInterestedIn(i, call[c].events[n + 1])
                      THEN Append(delivered, [by |-> c, to |-> i, at |-> n + 1])
                      ELSE delivered,
         call'[c].events = call[c].events, subscriptions' = subscriptions,
         Covered(c, i, n)
  PROVE  Covered(c, i, n + 1)'
<1> DEFINE e == [by |-> c, to |-> i, at |-> n + 1]
           got == Deliveries(c, i)
           wanted(k) == {j \in 1 .. k : IsInterestedIn(i, call[c].events[j])}
           len == Len(delivered)
<1>1. /\ call[c] \in CallState /\ delivered \in Seq(Delivery)
      /\ i \in Nat
  BY DEF StateOK
<1>2. /\ {delivered[j].at : j \in got} = wanted(n)
      /\ \A j, k \in got : j < k => delivered[j].at < delivered[k].at
  BY DEF Covered
<1>3. wanted(n + 1) = IF IsInterestedIn(i, call[c].events[n + 1])
                      THEN wanted(n) \cup {n + 1} ELSE wanted(n)
  OBVIOUS
<1>4. {j \in 1 .. n + 1 : IsInterestedIn(i, call[c].events[j])'} = wanted(n + 1)
  BY DEF IsInterestedIn
<1>5. CASE ~IsInterestedIn(i, call[c].events[n + 1])
  <2>1. delivered' = delivered /\ got' = got
    BY <1>5 DEF Deliveries
  <2> HIDE DEF got, wanted
  <2> QED BY <1>2, <1>3, <1>4, <1>5, <2>1 DEF Covered, got, wanted
<1>6. CASE IsInterestedIn(i, call[c].events[n + 1])
  <2>1. e \in Delivery /\ e.by = c /\ e.to = i /\ e.at = n + 1
    BY <1>1 DEF Delivery
  <2>2. delivered' = Append(delivered, e)
    BY <1>6
  <2> HIDE DEF e
  <2>3. /\ len \in Nat /\ DOMAIN delivered = 1 .. len
        /\ DOMAIN delivered' = 1 .. len + 1 /\ delivered'[len + 1] = e
        /\ \A j \in 1 .. len : delivered'[j] = delivered[j]
    BY <1>1, <2>1, <2>2, Appended
  <2> HIDE DEF len
  <2>4. got \subseteq 1 .. len /\ got' = got \cup {len + 1}
    BY <2>1, <2>3 DEF Deliveries
  <2>5. \A j \in got : delivered'[j] = delivered[j] /\ delivered[j].at \in wanted(n)
    BY <1>2, <2>3, <2>4
  <2> HIDE DEF got
  <2>6. {delivered'[j].at : j \in got'} = wanted(n) \cup {n + 1}
    BY <1>2, <2>1, <2>3, <2>4, <2>5
  <2>7. ASSUME NEW j \in got', NEW k \in got', j < k
        PROVE  delivered'[j].at < delivered'[k].at
    <3>1. j \in got
      BY <2>3, <2>4, <2>7
    <3> DEFINE x == delivered'[j].at
    <3>2. x \in 1 .. n
      BY <2>5, <3>1
    <3> HIDE DEF x
    <3>a. x < n + 1
      BY <3>2
    <3>3. CASE k = len + 1
      BY <2>1, <2>3, <3>a, <3>3 DEF x
    <3>4. CASE k \in got
      BY <1>2, <2>5, <2>7, <3>1, <3>4
    <3> QED BY <2>4, <3>3, <3>4
  <2> HIDE DEF wanted
  <2> QED BY <1>3, <1>4, <1>6, <2>6, <2>7 DEF Covered, got
<1> QED BY <1>5, <1>6

LEMMA PublishDelivery ==
  ASSUME Inv, Inv', DeliveryInv, NEW c \in Call, Publish(c)
  PROVE  DeliveryInv'
<1> DEFINE l == call[c]
           i == l.sub
           n == l.at - 1
           len == Len(l.events)
           all == Len(subscriptions)
<1>1. /\ l \in CallState /\ CallOK(c) /\ DeliveryOK(c) /\ StateOK /\ StateOK'
      /\ l.pc = "publishing" /\ UNCHANGED <<table, subscriptions>>
      /\ PublishingOK(c) /\ l.result = "none" /\ Changed(c)
  BY DEF Inv, StateOK, CallOK, OpOK, DeliveryInv, DeliveryOK, Publish
<1>2. /\ i \in DOMAIN subscriptions /\ l.at \in 1 .. len /\ n \in Nat
      /\ DOMAIN subscriptions = 1 .. all /\ all \in Nat /\ l.subs <= all
      /\ l.subs \in Nat /\ len \in Nat /\ DOMAIN l.events = 1 .. len
  <2>1. /\ i \in DOMAIN subscriptions /\ l.at \in DOMAIN l.events /\ l.subs <= all
    BY <1>1 DEF PublishingOK
  <2>2. len \in Nat /\ DOMAIN l.events = 1 .. len /\ l.subs \in Nat
    BY <1>1, KeptEvents DEF CallState
  <2>3. DOMAIN subscriptions = 1 .. all /\ all \in Nat
    BY <1>1 DEF StateOK
  <2> HIDE DEF all, len
  <2> QED BY <2>1, <2>2, <2>3
<1>3. delivered' = IF IsInterestedIn(i, l.events[n + 1])
                   THEN Append(delivered, [by |-> c, to |-> i, at |-> n + 1])
                   ELSE delivered
  <2>1. n + 1 = l.at
    BY <1>2
  <2> HIDE DEF n
  <2> QED BY <2>1 DEF Publish
<1> DEFINE m == Following(l)
<1>4. call'[c] = m /\ \A d \in Call \ {c} : call'[d] = call[d]
  BY <1>1 DEF Publish, StateOK
<1>5. m.events = l.events /\ m.subs = l.subs
  BY <1>1 DEF Following, CallState, Settled
<1>6. \/ delivered' = delivered
      \/ \E e \in Delivery :
           delivered' = Append(delivered, e) /\ e.by = c /\ e.to = i
  <2>1. [by |-> c, to |-> i, at |-> n + 1] \in Delivery
    BY <1>1, <1>2 DEF Delivery, CallState
  <2> QED BY <1>3, <2>1
<1>7. ASSUME NEW j \in DOMAIN subscriptions, NEW k \in Nat,
             k = IF j = i THEN n + 1 ELSE Through(l, j)
      PROVE  Covered(c, j, k)'
  <2>1. Covered(c, j, Through(l, j)) /\ subscriptions'[j] = subscriptions[j]
    BY <1>1 DEF PublishingOK
  <2>2. CASE j = i
    <3>1. Through(l, j) = n
      BY <1>2, <2>2 DEF Through
    <3> HIDE DEF n
    <3>2. PICK b \in Nat : b = n
      BY <1>2
    <3>3. b = call[c].at - 1 /\ k = b + 1
      BY <1>7, <2>2, <3>2 DEF n
    <3> QED BY <1>1, <1>2, <1>3, <1>4, <1>5, <2>1, <2>2, <3>1, <3>2, <3>3, CoversNext
  <2>3. CASE j # i
    BY <1>1, <1>4, <1>5, <1>6, <1>7, <2>1, <2>3, KeptCovered
  <2> QED BY <2>2, <2>3
<1>8. Others(c) /\ Changed(c)'
  BY <1>1, <1>4 DEF Others, Changed, table
<1>9. snapshot' < fresh'
  BY <1>1 DEF table, DeliveryInv, TablesOK
<1>10. \A j \in DOMAIN delivered' : delivered'[j].to \in DOMAIN subscriptions'
  <2>1. CASE delivered' = delivered
    BY <1>1, <2>1 DEF DeliveryInv, TablesOK
  <2>2. ASSUME NEW e \in Delivery, delivered' = Append(delivered, e), e.to = i
        PROVE  \A j \in DOMAIN delivered' : delivered'[j].to \in DOMAIN subscriptions'
    <3>1. delivered \in Seq(Delivery)
      BY <1>1 DEF StateOK
    <3>2. /\ DOMAIN delivered = 1 .. Len(delivered) /\ Len(delivered) \in Nat
          /\ DOMAIN delivered' = 1 .. Len(delivered) + 1
          /\ \A j \in 1 .. Len(delivered) : delivered'[j] = delivered[j]
          /\ delivered'[Len(delivered) + 1] = e
      BY <2>2, <3>1, Appended
    <3> DEFINE many == Len(delivered)
    <3> HIDE DEF many, i
    <3>3. ASSUME NEW j \in DOMAIN delivered'
          PROVE  delivered'[j].to \in DOMAIN subscriptions
      <4>1. j \in 1 .. many \/ j = many + 1
        BY <3>2 DEF many
      <4>2. CASE j = many + 1
        BY <1>2, <2>2, <3>2, <4>2 DEF many
      <4>3. CASE j \in 1 .. many
        BY <3>2, <4>3 DEF many, DeliveryInv, TablesOK
      <4> QED BY <4>1, <4>2, <4>3
    <3> QED BY <1>1, <3>3
  <2> QED BY <1>6, <2>1, <2>2
<1>11. ASSUME m.pc = "publishing", m.result = "none", m.sub \in 1 .. all,
              m.at \in 1 .. len,
              \A j \in DOMAIN subscriptions :
                /\ Through(m, j) = IF j = i THEN n + 1 ELSE Through(l, j)
                /\ Through(m, j) \in Nat
       PROVE  DeliveryOK(c)'
  <2>1. \A j \in DOMAIN subscriptions : Covered(c, j, Through(call[c], j))'
    <3>1. ASSUME NEW j \in DOMAIN subscriptions
          PROVE  Covered(c, j, Through(call[c], j))'
      <4>1. PICK k \in Nat : k = Through(m, j)
        BY <1>11
      <4>2. Covered(c, j, k)'
        BY <1>7, <1>11, <4>1
      <4>3. Through(call[c], j)' = k
        BY <1>4, <4>1 DEF Through
      <4> QED BY <4>2, <4>3 DEF Covered
    <3> QED BY <3>1
  <2> HIDE DEF m, n, i, l
  <2>2. PublishingOK(c)'
    BY <1>1, <1>2, <1>4, <1>5, <1>11, <2>1 DEF PublishingOK
  <2> QED BY <1>4, <1>8, <1>11, <2>2 DEF DeliveryOK
<1>12. ASSUME l.at < len PROVE DeliveryOK(c)'
  <2>1. m = [l EXCEPT !.at = @ + 1]
    BY <1>12 DEF Following
  <2>2. /\ m.pc = "publishing" /\ m.sub = i /\ m.at = l.at + 1
        /\ m.result = "none"
    BY <1>1, <2>1 DEF CallState
  <2>3. ASSUME NEW j \in DOMAIN subscriptions
        PROVE  /\ Through(m, j) = IF j = i THEN n + 1 ELSE Through(l, j)
               /\ Through(m, j) \in Nat
    BY <1>2, <1>5, <2>2, <2>3 DEF Through
  <2> HIDE DEF m, n, l, len, all, i
  <2>4. m.sub \in 1 .. all /\ m.at \in 1 .. len
    BY <1>2, <1>12, <2>2 DEF i
  <2> QED BY <1>11, <2>2, <2>3, <2>4
<1>13. ASSUME ~(l.at < len), i < all PROVE DeliveryOK(c)'
  <2>1. m = [l EXCEPT !.sub = @ + 1, !.at = 1]
    BY <1>13 DEF Following
  <2>2. /\ m.pc = "publishing" /\ m.sub = i + 1 /\ m.at = 1
        /\ m.result = "none"
    BY <1>1, <2>1 DEF CallState
  <2>3. ASSUME NEW j \in DOMAIN subscriptions
        PROVE  /\ Through(m, j) = IF j = i THEN n + 1 ELSE Through(l, j)
               /\ Through(m, j) \in Nat
    BY <1>2, <1>5, <1>13, <2>2, <2>3 DEF Through
  <2> HIDE DEF m, n, l, len, all, i
  <2>4. m.sub \in 1 .. all /\ m.at \in 1 .. len
    BY <1>2, <1>13, <2>2
  <2> QED BY <1>11, <2>2, <2>3, <2>4
<1>14. ASSUME ~(l.at < len), ~(i < all) PROVE DeliveryOK(c)'
  <2>1. m = Settled(l, "new")
    BY <1>14 DEF Following
  <2>2. m.pc = "done" /\ m.result = "new"
    BY <1>1, <2>1 DEF CallState, Settled
  <2>3. i = all /\ l.at = len
    BY <1>2, <1>14
  <2>4. ASSUME NEW j \in 1 .. l.subs PROVE Covered(c, j, len)'
    <3>1. j \in DOMAIN subscriptions /\ j \in Nat /\ j <= i
      BY <1>2, <2>3
    <3>2. len = IF j = i THEN n + 1 ELSE Through(l, j)
      BY <1>2, <2>3, <3>1 DEF Through
    <3>3. PICK k \in Nat : k = len
      BY <1>2
    <3>4. Covered(c, j, k)'
      BY <1>7, <3>1, <3>2, <3>3
    <3>5. len' = k
      BY <1>4, <1>5, <3>3
    <3> QED BY <3>4, <3>5 DEF Covered
  <2> HIDE DEF m
  <2> QED BY <1>1, <1>2, <1>4, <1>5, <1>8, <2>2, <2>4 DEF DeliveryOK
<1>15. DeliveryOK(c)'
  BY <1>12, <1>13, <1>14
<1>16. \/ delivered' = delivered
       \/ \E e \in Delivery : delivered' = Append(delivered, e) /\ e.by = c
  BY <1>6
<1> QED BY <1>1, <1>8, <1>9, <1>10, <1>15, <1>16, OthersKeep

LEMMA OtherDelivery ==
  ASSUME Inv, Inv', DeliveryInv,
         \/ UNCHANGED arVars
         \/ \E types \in Interests : Subscribe(types)
         \/ \E t \in Trigger \cup {NoTrigger}, s \in BOOLEAN : OutsideStores(t, s)
  PROVE  DeliveryInv'
<1>1. /\ StateOK /\ StateOK' /\ TablesOK /\ UNCHANGED <<call, history, delivered>>
      /\ \/ subscriptions' = subscriptions
         \/ \E types \in Interests : subscriptions' = Append(subscriptions, types)
  BY DEF Inv, DeliveryInv, arVars, Subscribe, OutsideStores, table
<1>2. ASSUME NEW c \in Call PROVE DeliveryOK(c)'
  <2>1. DeliveryOK(c) /\ call'[c] = call[c] /\ (Changed(c) => Changed(c)')
    BY <1>1 DEF DeliveryInv, Changed
  <2> QED BY <1>1, <2>1, KeptDelivery
<1>3. DOMAIN subscriptions \subseteq DOMAIN subscriptions'
  BY <1>1, Appended DEF StateOK
<1>4. snapshot' < fresh'
  <2>1. snapshot < fresh /\ snapshot \in Nat /\ fresh \in Nat
    BY <1>1 DEF StateOK, TablesOK
  <2>2. ASSUME NEW t, NEW s \in BOOLEAN, OutsideStores(t, s)
        PROVE  snapshot' < fresh'
    BY <2>1, <2>2 DEF OutsideStores
  <2> QED BY <2>1, <2>2 DEF arVars, Subscribe, table
<1> QED BY <1>1, <1>2, <1>3, <1>4 DEF DeliveryInv, TablesOK

LEMMA NothingDelivered == Init => DeliveryInv
<1> SUFFICES ASSUME Init PROVE DeliveryInv
  OBVIOUS
<1>1. TablesOK
  BY DEF Init, TablesOK, NoRow
<1>2. ASSUME NEW c \in Call PROVE DeliveryOK(c)
  BY DEF Init, DeliveryOK, Idle
<1> QED BY <1>1, <1>2 DEF DeliveryInv

LEMMA DeliverySteps == Inv /\ Inv' /\ DeliveryInv /\ [Next]_arVars => DeliveryInv'
<1> SUFFICES ASSUME Inv, Inv', DeliveryInv, [Next]_arVars PROVE DeliveryInv'
  OBVIOUS
<1>1. CASE UNCHANGED arVars
  BY <1>1, OtherDelivery
<1>2. ASSUME NEW c \in Call,
             \/ \E t \in Trigger \cup {NoTrigger} : StartUpdate(c, t)
             \/ \E o \in Outcomes : StartSave(c, o)
             \/ \E r \in Repository : ReadSnapshot(c, r)
             \/ ReadEvents(c) /\ ~FindThrows(c)
      PROVE  DeliveryInv'
  BY <1>2, EarlyDelivery
<1>3. ASSUME NEW c \in Call,
             \/ FindFails(c) \/ (ReadEvents(c) /\ FindThrows(c)) \/ ProcessFails(c)
             \/ UpdateRowFails(c) \/ StoreSnapshot(c) \/ InsertFails(c)
             \/ HandlerThrows(c)
      PROVE  DeliveryInv'
  BY <1>3, FailingDelivery
<1>4. ASSUME NEW c \in Call, NEW o \in Outcomes, Process(c, o) PROVE DeliveryInv'
  BY <1>4, ProcessDelivery
<1>5. ASSUME NEW c \in Call, NEW s \in BOOLEAN, SaveRow(c) \/ UpdateRow(c, s)
      PROVE  DeliveryInv'
  BY <1>5, RowDelivery
<1>6. ASSUME NEW c \in Call, InsertEvents(c) PROVE DeliveryInv'
  BY <1>6, InsertDelivery
<1>7. ASSUME NEW c \in Call, Publish(c) PROVE DeliveryInv'
  BY <1>7, PublishDelivery
<1>8. CASE \/ \E types \in Interests : Subscribe(types)
           \/ \E t \in Trigger \cup {NoTrigger}, s \in BOOLEAN :
                OutsideStores(t, s)
  BY <1>8, OtherDelivery
<1>9. CASE Next
  <2>1. ASSUME NEW c \in Call,
               \/ \E t \in Trigger \cup {NoTrigger} : StartUpdate(c, t)
               \/ \E o \in Outcomes : StartSave(c, o) \/ Process(c, o)
               \/ \E r \in Repository : ReadSnapshot(c, r)
               \/ ReadEvents(c) \/ FindFails(c)
        PROVE  DeliveryInv'
    <3>1. CASE \E o \in Outcomes : Process(c, o)
      BY <1>4, <3>1
    <3>2. CASE \/ \E t \in Trigger \cup {NoTrigger} : StartUpdate(c, t)
               \/ \E o \in Outcomes : StartSave(c, o)
               \/ \E r \in Repository : ReadSnapshot(c, r)
               \/ ReadEvents(c) /\ ~FindThrows(c)
      BY <1>2, <3>2
    <3>3. CASE FindFails(c) \/ (ReadEvents(c) /\ FindThrows(c))
      BY <1>3, <3>3
    <3> QED BY <2>1, <3>1, <3>2, <3>3
  <2>2. CASE \E c \in Call :
               \/ ProcessFails(c)
               \/ SaveRow(c) \/ UpdateRowFails(c) \/ StoreSnapshot(c)
               \/ \E s \in BOOLEAN : UpdateRow(c, s)
               \/ InsertEvents(c) \/ InsertFails(c)
               \/ Publish(c) \/ HandlerThrows(c)
    BY <1>3, <1>5, <1>6, <1>7, <2>2
  <2> QED BY <1>8, <1>9, <2>1, <2>2 DEF Next
<1> QED BY <1>1, <1>9

-----------------------------------------------------------------------------

\* Of the updates that have found the same version at most one changes the row,
\* for any number of calls, outcomes, subscriptions and outside writes.
THEOREM AtMostOneWinner == Spec => []OneWinner
<1>1. Inv => OneWinner
  BY DEF Inv
<1> QED BY <1>1, Initially, Steps, PTL DEF Spec

\* withRetry never has a command processed again.
THEOREM NeverProcessedAgain == Spec => []ProcessedOnce
<1>1. Inv => ProcessedOnce
  BY DEF Inv, CallOK, RanOK, ProcessedOnce
<1> QED BY <1>1, Initially, Steps, PTL DEF Spec

\* A rejected update has neither changed the row nor had a handler called.
THEOREM NoTraceOfTheRejected == Spec => []RejectedUpdateLeavesNoTrace
<1>1. Inv => RejectedUpdateLeavesNoTrace
  BY DEF Inv, CallOK, TraceOK, Delivered, RejectedUpdateLeavesNoTrace
<1> QED BY <1>1, Initially, Steps, PTL DEF Spec

\* Versions are counted up, every call is at one of its steps, and one that
\* publishes is at an event of its own and at a subscription there is: walking
\* the set that others add to meanwhile never leaves either.
THEOREM AggregateTyped == Spec => []AggregateTypeOK
<1>1. Inv /\ DeliveryInv => AggregateTypeOK
  <2> SUFFICES ASSUME Inv, DeliveryInv PROVE AggregateTypeOK
    OBVIOUS
  <2>1. row \in 0 .. fresh - 1 /\ snapshot \in 0 .. fresh - 1 /\ fresh \in Nat
    BY DEF Inv, StateOK, DeliveryInv, TablesOK
  <2>2. ASSUME NEW c \in Call
        PROVE  call[c].pc \in Pc /\ call[c].result \in {"none", "new", "old", "rejected"}
    BY DEF Inv, StateOK, CallState
  <2>3. ASSUME NEW c \in Call, call[c].pc = "publishing"
        PROVE  /\ call[c].sub \in DOMAIN subscriptions
               /\ call[c].at \in DOMAIN call[c].events
    BY <2>3 DEF DeliveryInv, DeliveryOK, PublishingOK
  <2>4. \A i \in DOMAIN delivered : delivered[i].to \in DOMAIN subscriptions
    BY DEF DeliveryInv, TablesOK
  <2> QED BY <2>1, <2>2, <2>3, <2>4 DEF AggregateTypeOK, Pc
<1> QED BY <1>1, Initially, Steps, NothingDelivered, DeliverySteps, PTL DEF Spec

\* A caller is told a new version only when the row was changed and every
\* subscription there was has handled, once and in order, the events it is
\* interested in, whatever other calls publish and whoever subscribes meanwhile.
THEOREM NewIsDelivered == Spec => []NewMeansDelivered
<1>1. Inv /\ DeliveryInv => NewMeansDelivered
  <2> SUFFICES ASSUME Inv, DeliveryInv, NEW c \in Call, call[c].result = "new"
               PROVE  /\ Changed(c)
                      /\ \A i \in 1 .. call[c].subs : Covered(c, i, Len(call[c].events))
    BY KeptEvents DEF NewMeansDelivered, Covered, Inv
  <2> QED BY DEF DeliveryInv, DeliveryOK
<1> QED BY <1>1, Initially, Steps, NothingDelivered, DeliverySteps, PTL DEF Spec
=============================================================================
