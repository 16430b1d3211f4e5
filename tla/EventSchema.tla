---------------------------- MODULE EventSchema -----------------------------
(***************************************************************************)
(* The versions of the events of an aggregate: the builder that declares   *)
(* them, the manager that keeps them, and the upcasting of stored events.  *)
(*                                                                         *)
(* The data of an event is the sequence of the upcasters it has been       *)
(* through, an upcaster being named <<version, event type>>.  An event     *)
(* stored under a version is written in the form that version gives it, so *)
(* it starts with the upcasters up to that version.                        *)
(***************************************************************************)
EXTENDS Integers, Sequences, FiniteSets, SequencesExt

CONSTANTS
  Aggregate,
  Calls,    \* of the builders, in order: records with a field call
  Stored    \* events handed to upcastEvents: [aggregate, eventType, version]

\* The version of an event without schema metadata.
NoVersion == -1

VARIABLES
  schemas,   \* aggregate -> its versions; <<>> when none was added
  builder,   \* [aggregate, versions, open]: the chain of builders
  made,      \* builder calls made so far
  upcasted   \* what upcastEvents has returned

esVars == <<schemas, builder, made, upcasted>>

-----------------------------------------------------------------------------
(* The builders *)

NewVersion(v) == [version |-> v, renames |-> <<>>, transforms |-> <<>>]
NotOpen == NewVersion(NoVersion)

\* AggregateSchemaVersionBuilder.finishForAggregate: to the parent.
Finished(b) ==
  IF b.open = NotOpen THEN b.versions ELSE Append(b.versions, b.open)

\* An aggregate that is already defined makes add throw.
Added(b) ==
  [a \in Aggregate |->
     IF a = b.aggregate /\ schemas[a] = <<>> THEN Finished(b) ELSE schemas[a]]

StartBuilder(a) == [aggregate |-> a, versions |-> <<>>, open |-> NotOpen]

BuilderCall ==
  /\ made < Len(Calls)
  /\ made' = made + 1
  /\ LET c == Calls[made + 1]
     IN  \/ /\ c.call = "forAggregate"
            /\ builder' = StartBuilder(c.aggregate)
            /\ schemas' = IF made = 0 THEN schemas ELSE Added(builder)
         \/ /\ c.call = "version"
            /\ builder' = [builder EXCEPT !.versions = Finished(builder),
                                          !.open = NewVersion(c.version)]
            /\ UNCHANGED schemas
         \/ /\ c.call = "rename"
            /\ builder' = [builder EXCEPT
                 !.open.renames = Append(@, [old |-> c.old, new |-> c.new])]
            /\ UNCHANGED schemas
         \/ /\ c.call = "transform"
            /\ builder' = [builder EXCEPT
                             !.open.transforms = Append(@, c.eventType)]
            /\ UNCHANGED schemas
         \/ /\ c.call = "customize"
            /\ schemas' = Added(builder)
            /\ UNCHANGED builder
  /\ UNCHANGED upcasted

-----------------------------------------------------------------------------
(* Upcasting *)

MaybeRename(v, type) ==
  LET found == SelectSeq(v.renames, LAMBDA r : r.old = type)
  IN  IF found = <<>> THEN type ELSE Head(found).new

HasUpcaster(v, type) == \E i \in DOMAIN v.transforms : v.transforms[i] = type

CurrentVersion(versions) == Last(versions).version

\* [eventType, upcasters] after all versions, whatever fromVersion is: the
\* loop that would look for it is commented out.
FindUpcasters(versions, eventType, fromVersion) ==
  LET through(acc, v) ==
        LET type == MaybeRename(v, acc.eventType)
        IN  [eventType |-> type,
             upcasters |-> IF HasUpcaster(v, type)
                           THEN Append(acc.upcasters, <<v.version, type>>)
                           ELSE acc.upcasters]
  IN  FoldLeft(through, [eventType |-> eventType, upcasters |-> <<>>],
               versions)

Upcast(versions, e) ==
  LET found == FindUpcasters(versions, e.eventType, e.version)
  IN  IF found.upcasters = <<>> /\ found.eventType = e.eventType THEN e
      ELSE [e EXCEPT !.eventType = found.eventType,
                     !.version = CurrentVersion(versions),
                     !.data = @ \o found.upcasters]

MaybeUpcast(versions, e) ==
  IF e.version # CurrentVersion(versions) THEN Upcast(versions, e) ELSE e

\* What a writer under version e.version has stored of such an event.
AsWritten(versions, e) ==
  [eventType |-> e.eventType, version |-> e.version,
   data |-> FindUpcasters(
              SelectSeq(versions, LAMBDA v : v.version <= e.version),
              e.eventType, NoVersion).upcasters]

UpcastEvents(e) ==
  LET versions == schemas[e.aggregate]
      stored == AsWritten(versions, e)
  IN  /\ made = Len(Calls)
      /\ upcasted' = upcasted \cup
           {IF versions = <<>> THEN stored ELSE MaybeUpcast(versions, stored)}
      /\ UNCHANGED <<schemas, builder, made>>

Init ==
  /\ schemas = [a \in Aggregate |-> <<>>]
  /\ builder = StartBuilder(CHOOSE a \in Aggregate : TRUE)
  /\ made = 0 /\ upcasted = {}

Next == BuilderCall \/ \E e \in Stored : UpcastEvents(e)

Spec == Init /\ [][Next]_esVars

-----------------------------------------------------------------------------
(* Properties *)

\* An event goes through each upcaster once: one that was stored under a
\* version is taken on from there, as AggregateSchema's fromVersion and the
\* test of the event schema manager ("should upcast once") have it.
UpcastOnce ==
  \A e \in upcasted :
    \A i, j \in DOMAIN e.data : e.data[i] = e.data[j] => i = j
=============================================================================
