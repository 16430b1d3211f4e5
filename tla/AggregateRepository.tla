------------------------ MODULE AggregateRepository -------------------------
(***************************************************************************)
(* Saving and updating one event-sourced aggregate: AggregateRepository    *)
(* over AggregateStoreCrud, AggregateCrudAccess and the in-process         *)
(* AggregateEventsCrud.  Calls interleave at every await.                  *)
(*                                                                         *)
(* An update finds the aggregate, has it process the command, compares and *)
(* swaps the version in the entity's row, and publishes the new events to  *)
(* the subscriptions.  manager.create(EventsEntity, ...) inserts nothing,  *)
(* so the rows of events and snapshots are those of another service that   *)
(* shares the tables, and follows the same protocol.                       *)
(***************************************************************************)
EXTENDS Integers, Sequences, FiniteSets

CONSTANTS
  Call,       \* calls of save and update
  Outcomes,   \* what a command may yield: sequences of event types
  Interests,  \* of subscriptions: sets of event types
  Trigger,    \* event tokens of triggering events
  NoTrigger,
  Repository, \* what stands in for the repository of snapshots: "snapshots", as
              \* its parameter is declared, or "events", as it is decorated
  MaxOutside, MaxSubscriptions

NoRow == 0            \* no row, or no snapshot
EventObject == -1     \* an event where a version is expected
EventRow == -2        \* a row of events where one of snapshots is expected

VARIABLES
  row,            \* entities: the version of the row
  stored,         \* events: [id, trigger], in the order of their ids
  snapshot,       \* snapshots: entityVersion
  fresh,          \* the next event id
  subscriptions,  \* AggregateEventsCrud.aggregateSubscriptions
  call,           \* the calls' local state
  history,        \* [by, from, to]: every change of the row by a call
  delivered       \* [by, to, at]: every handler call that succeeded

arVars ==
  <<row, stored, snapshot, fresh, subscriptions, call, history, delivered>>

ASSUME AggregateAssumption ==
  /\ Outcomes \subseteq Seq(STRING) /\ Interests \subseteq SUBSET STRING
  /\ NoTrigger \notin Trigger /\ Repository \subseteq {"snapshots", "events"}
  /\ MaxOutside \in Nat /\ MaxSubscriptions \in Nat

Idle == [pc |-> "idle", op |-> "none", trigger |-> NoTrigger, snap |-> NoRow,
         version |-> NoRow, events |-> <<>>, subs |-> 0, sub |-> 0, at |-> 0,
         ran |-> 0, result |-> "none"]

Settled(l, result) == [l EXCEPT !.pc = "done", !.result = result]

table == <<row, stored, snapshot, fresh, history>>

-----------------------------------------------------------------------------
(* The beginnings of save and update *)

StartUpdate(c, t) ==
  /\ call[c].pc = "idle"
  /\ call' = [call EXCEPT ![c].pc = "finding", ![c].op = "update",
                          ![c].trigger = t]
  /\ UNCHANGED <<table, subscriptions, delivered>>

\* The first query of find, in the table of either entity.
FoundIn(repository) ==
  IF repository = "snapshots" THEN snapshot
  ELSE IF stored = <<>> THEN NoRow ELSE EventRow

ReadSnapshot(c, repository) ==
  /\ call[c].pc = "finding"
  /\ call' = [call EXCEPT ![c].pc = "reading", ![c].snap = FoundIn(repository)]
  /\ UNCHANGED <<table, subscriptions, delivered>>

\* request() has been called once, and its promise is what retryWhen
\* subscribes to again: ten rejections later the caller is told EmptyError.
GiveUp_RunsAgain(c, l) ==
  call' = [call EXCEPT ![c] = IF l.ran < 2 THEN [l EXCEPT !.pc = "finding"]
                              ELSE Settled(l, "rejected")]

GiveUp(c, l) == call' = [call EXCEPT ![c] = Settled(l, "rejected")]

\* The second query of find: the events after the snapshot, or all of them.
Read(c) ==
  SelectSeq(stored, LAMBDA e : e.id > call[c].snap)

\* A snapshot that has no type, a duplicate trigger among the events, or nothing
\* to recreate the aggregate from.
FindThrows(c) ==
  LET events == Read(c)
  IN  \/ call[c].snap = EventRow
      \/ /\ call[c].trigger # NoTrigger
         /\ \E i \in DOMAIN events : events[i].trigger = call[c].trigger
      \/ call[c].snap = NoRow /\ events = <<>>

\* store.find gives the last event where its id is meant.
EntityVersion(c) == IF Read(c) = <<>> THEN call[c].snap ELSE EventObject

ReadEvents(c) ==
  /\ call[c].pc = "reading"
  /\ IF FindThrows(c) THEN GiveUp(c, call[c])
     ELSE call' = [call EXCEPT ![c].pc = "loaded",
                               ![c].version = EntityVersion(c)]
  /\ UNCHANGED <<table, subscriptions, delivered>>

\* Either query may fail, and so may recreating the aggregate.
FindFails(c) ==
  /\ call[c].pc \in {"finding", "reading"}
  /\ GiveUp(c, call[c])
  /\ UNCHANGED <<table, subscriptions, delivered>>

-----------------------------------------------------------------------------
(* Processing the command *)

\* The command yields these events, or throws and an interceptor yields them
\* in its place.
Process(c, outcome) ==
  LET l == [call[c] EXCEPT !.ran = @ + 1, !.events = outcome]
  IN  /\ l.pc = "loaded"
      /\ call' = [call EXCEPT ![c] = IF outcome = <<>> THEN Settled(l, "old")
                                     ELSE [l EXCEPT !.pc = "updating"]]
      /\ UNCHANGED <<table, subscriptions, delivered>>

\* process throws and the interceptor does not handle it.  The methods that
\* are marked by ProcessCommand are never found: an aggregate that does not
\* override process throws at every command.
ProcessFails(c) ==
  /\ call[c].pc = "loaded"
  /\ GiveUp(c, [call[c] EXCEPT !.ran = @ + 1])
  /\ UNCHANGED <<table, subscriptions, delivered>>

StartSave(c, outcome) ==
  /\ call[c].pc = "idle"
  /\ call' = [call EXCEPT ![c] =
       [@ EXCEPT !.pc = "saving", !.op = "save", !.events = outcome,
                 !.ran = 1]]
  /\ UNCHANGED <<table, subscriptions, delivered>>

-----------------------------------------------------------------------------
(* The row of the entity *)

Change(c) ==
  /\ row' = fresh
  /\ fresh' = fresh + 1
  /\ history' = history \cup {[by |-> c, from |-> row, to |-> fresh]}
  /\ UNCHANGED <<stored, snapshot>>

\* Whatever an update throws from here on is swallowed, and the caller is
\* told the version that was found; save has no such handler.
Fail_Tells(c) == call' = [call EXCEPT ![c] = Settled(@, "rejected")]

Fail(c) ==
  call' = [call EXCEPT
    ![c] = Settled(@, IF @.op = "update" THEN "old" ELSE "rejected")]

\* entities.save: an insert, or an update if there is a row.  Without events
\* there is no version to save.
SaveRow(c) ==
  /\ call[c].pc = "saving" /\ call[c].op = "save"
  /\ IF call[c].events = <<>>
     THEN /\ Fail(c)
          /\ UNCHANGED table
     ELSE /\ Change(c)
          /\ call' = [call EXCEPT ![c].pc = "inserting"]
  /\ UNCHANGED <<subscriptions, delivered>>

Matches_AnyVersion(c) == row # NoRow

\* The version is the one in the row, so that one row is affected.  The query has
\* the class where the row has its name: where that is not taken for the name,
\* the statement fails, as in UpdateRowFails.
Matches(c) == row # NoRow /\ row = call[c].version

UpdateRow(c, snapshotting) ==
  /\ call[c].pc = "updating"
  /\ IF Matches(c)
     THEN /\ Change(c)
          /\ call' = [call EXCEPT
               ![c].pc = IF snapshotting THEN "snapshotting" ELSE "inserting"]
     ELSE /\ Fail(c)
          /\ UNCHANGED table
  /\ UNCHANGED <<subscriptions, delivered>>

\* The statement fails, before or after it has its effect.
UpdateRowFails(c) ==
  /\ call[c].pc \in {"updating", "saving"}
  /\ call[c].events # <<>>
  /\ \/ UNCHANGED table
     \/ /\ call[c].op = "save" \/ Matches(c)
        /\ Change(c)
  /\ Fail(c)
  /\ UNCHANGED <<subscriptions, delivered>>

\* The query for the previous snapshot names an alias that it does not have.
StoreSnapshot(c) ==
  /\ call[c].pc = "snapshotting"
  /\ Fail(c)
  /\ UNCHANGED <<table, subscriptions, delivered>>

\* The transaction creates entities and inserts none.
InsertEvents(c) ==
  /\ call[c].pc = "inserting"
  /\ call' = [call EXCEPT ![c] =
       IF subscriptions = <<>> THEN Settled(@, "new")
       ELSE [@ EXCEPT !.pc = "publishing", !.subs = Len(subscriptions),
                      !.sub = 1, !.at = 1]]
  /\ UNCHANGED <<table, subscriptions, delivered>>

InsertFails(c) ==
  /\ call[c].pc = "inserting"
  /\ Fail(c)
  /\ UNCHANGED <<table, subscriptions, delivered>>

-----------------------------------------------------------------------------
(* Publishing *)

IsInterestedIn(i, type) == type \in subscriptions[i]

\* The next [sub, at] to look at; past the last subscription there is none.
\* The set is walked as it is: a subscription added meanwhile is reached.
Following_PastTheLast(l) ==
  IF l.at <= Len(l.events) THEN [l EXCEPT !.at = @ + 1]
  ELSE IF l.sub < Len(subscriptions) THEN [l EXCEPT !.sub = @ + 1, !.at = 1]
  ELSE Settled(l, "new")

Following(l) ==
  IF l.at < Len(l.events) THEN [l EXCEPT !.at = @ + 1]
  ELSE IF l.sub < Len(subscriptions) THEN [l EXCEPT !.sub = @ + 1, !.at = 1]
  ELSE Settled(l, "new")

Publish(c) ==
  LET l == call[c]
  IN  /\ l.pc = "publishing"
      /\ delivered' = IF IsInterestedIn(l.sub, l.events[l.at])
                      THEN Append(delivered,
                                  [by |-> c, to |-> l.sub, at |-> l.at])
                      ELSE delivered
      /\ call' = [call EXCEPT ![c] = Following(l)]
      /\ UNCHANGED <<table, subscriptions>>

HandlerThrows_Ignored(c) ==
  /\ call[c].pc = "publishing"
  /\ IsInterestedIn(call[c].sub, call[c].events[call[c].at])
  /\ call' = [call EXCEPT ![c] = Following(@)]
  /\ UNCHANGED <<table, subscriptions, delivered>>

HandlerThrows(c) ==
  /\ call[c].pc = "publishing"
  /\ IsInterestedIn(call[c].sub, call[c].events[call[c].at])
  /\ Fail(c)
  /\ UNCHANGED <<table, subscriptions, delivered>>

Subscribe(types) ==
  /\ Len(subscriptions) < MaxSubscriptions
  /\ subscriptions' = Append(subscriptions, types)
  /\ UNCHANGED <<table, call, delivered>>

-----------------------------------------------------------------------------
(* The service that shares the tables *)

\* It creates the aggregate, or updates it from the version it can load, and
\* may store a snapshot with the event.
OutsideStores(t, snapshots) ==
  /\ Len(stored) < MaxOutside
  /\ row = IF stored = <<>> THEN NoRow ELSE stored[Len(stored)].id
  /\ row' = fresh
  /\ fresh' = fresh + 1
  /\ stored' = Append(stored, [id |-> fresh, trigger |-> t])
  /\ snapshot' = IF snapshots THEN fresh ELSE snapshot
  /\ UNCHANGED <<subscriptions, call, history, delivered>>

Init ==
  /\ row = NoRow /\ stored = <<>> /\ snapshot = NoRow /\ fresh = 1
  /\ subscriptions = <<>>
  /\ call = [c \in Call |-> Idle]
  /\ history = {} /\ delivered = <<>>

Next ==
  \/ \E c \in Call :
       \/ \E t \in Trigger \cup {NoTrigger} : StartUpdate(c, t)
       \/ \E o \in Outcomes : StartSave(c, o) \/ Process(c, o)
       \/ \E r \in Repository : ReadSnapshot(c, r)
       \/ ReadEvents(c) \/ FindFails(c)
       \/ ProcessFails(c)
       \/ SaveRow(c) \/ UpdateRowFails(c) \/ StoreSnapshot(c)
       \/ \E s \in BOOLEAN : UpdateRow(c, s)
       \/ InsertEvents(c) \/ InsertFails(c)
       \/ Publish(c) \/ HandlerThrows(c)
  \/ \E types \in Interests : Subscribe(types)
  \/ \E t \in Trigger \cup {NoTrigger}, s \in BOOLEAN : OutsideStores(t, s)

Spec == Init /\ [][Next]_arVars

-----------------------------------------------------------------------------
(* Properties *)

\* Versions are counted up, a call is at one of its steps, and one that
\* publishes is at an event of its own and a subscription there is.
AggregateTypeOK ==
  /\ row \in 0 .. fresh - 1 /\ snapshot \in 0 .. fresh - 1
  /\ fresh \in Nat
  /\ \A c \in Call :
       /\ call[c].pc \in {"idle", "finding", "reading", "loaded", "saving",
                         "updating", "snapshotting", "inserting",
                         "publishing", "done"}
       /\ call[c].result \in {"none", "new", "old", "rejected"}
       /\ call[c].pc = "publishing" =>
            /\ call[c].sub \in DOMAIN subscriptions
            /\ call[c].at \in DOMAIN call[c].events
  /\ \A i \in DOMAIN delivered : delivered[i].to \in DOMAIN subscriptions

Changed(c) == \E h \in history : h.by = c

\* Of the updates that have found the same version at most one changes the
\* row of the entity, however they interleave and whatever fails.
OneWinner ==
  \A c, d \in Call :
    /\ call[c].op = "update" /\ call[d].op = "update"
    /\ call[c].version = call[d].version
    /\ Changed(c) /\ Changed(d)
    => c = d

\* withRetry does not run a request again: a command is processed at most
\* once per update, also when the update fails.
ProcessedOnce == \A c \in Call : call[c].ran <= 1

\* The caller whose update is rejected may safely try again: the row was not
\* changed and no subscriber has seen an event.
RejectedUpdateLeavesNoTrace ==
  \A c \in Call :
    call[c].op = "update" /\ call[c].result = "rejected" =>
      /\ ~Changed(c)
      /\ \A i \in DOMAIN delivered : delivered[i].by # c

Deliveries(c, i) ==
  {j \in DOMAIN delivered : delivered[j].by = c /\ delivered[j].to = i}

\* When a caller is told a new version, the row has been changed and every
\* subscription there was has handled the events it is interested in, each
\* once and in order, whoever else subscribes or publishes meanwhile.
NewMeansDelivered ==
  \A c \in Call :
    call[c].result = "new" =>
      /\ Changed(c)
      /\ \A i \in 1 .. call[c].subs :
           LET events == call[c].events
               got == Deliveries(c, i)
           IN  /\ {delivered[j].at : j \in got} =
                    {k \in DOMAIN events : IsInterestedIn(i, events[k])}
               /\ \A j, k \in got : j < k => delivered[j].at < delivered[k].at
=============================================================================
