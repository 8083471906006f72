----------------------------- MODULE EventManager ----------------------------
(***************************************************************************)
(* The event manager (event_manager.c): the subscribers of one event, and  *)
(* one publisher that walks their table.  Nothing protects the table: the  *)
(* publisher reads the count and then the handler, and another task may    *)
(* remove an entry in between, itself in two steps.                        *)
(***************************************************************************)
EXTENDS Integers, Sequences

CONSTANTS
  Handlers,
  Null,
  MaxSubscribers   \* MAX_EVENT_SUBSCRIBERS

ASSUME EventAssumption == MaxSubscribers \in Nat \ {0} /\ Null \notin Handlers

VARIABLES
  sub,     \* handlers (Null after the count), count
  walk     \* event_publish: step ("none", "test", "call"), i, called (the
           \* handlers called so far), moved (an entry was removed meanwhile)

evars == <<sub, walk>>

NoSubscribers == [handlers |-> [i \in 1..MaxSubscribers |-> Null], count |-> 0]
NoWalk == [step |-> "none", i |-> 1, called |-> <<>>, moved |-> FALSE]

Subscribed(t) == {t.handlers[i] : i \in 1..t.count}

-----------------------------------------------------------------------------
event_subscribe(t, f) ==
  IF f \in Subscribed(t) \/ t.count >= MaxSubscribers THEN t
  ELSE [handlers |-> [t.handlers EXCEPT ![t.count + 1] = f], count |-> t.count + 1]

\* Mutant: the entries behind it do not move down.
NotShifted(t, f) == t

\* event_unsubscribe: the entries behind it move down ...
Shifted(t, f) ==
  IF f \notin Subscribed(t) THEN t
  ELSE LET p == CHOOSE i \in 1..t.count : t.handlers[i] = f IN
       [t EXCEPT !.handlers =
          [i \in 1..MaxSubscribers |-> IF i \in p..(t.count - 1) THEN t.handlers[i + 1] ELSE t.handlers[i]]]

\* Mutant: the count stays.
CountKept(t) == [t EXCEPT !.handlers[t.count] = Null]

\* ... and then there is one less.
Shortened(t) ==
  [handlers |-> [t.handlers EXCEPT ![t.count] = Null], count |-> t.count - 1]

Meddled == [walk EXCEPT !.moved = walk.step # "none"]

-----------------------------------------------------------------------------
\* event_publish, removing: while an entry is being removed
Publish(removing) ==
  /\ walk.step \in {"none", "done"}
  /\ walk' = [NoWalk EXCEPT !.step = "test", !.moved = removing]
  /\ UNCHANGED sub

TestCount ==
  /\ walk.step = "test"
  /\ walk' = [walk EXCEPT !.step = IF walk.i <= sub.count THEN "call" ELSE "done"]
  /\ UNCHANGED sub

\* A Null here is a call through a null pointer.
CallHandler ==
  /\ walk.step = "call"
  /\ walk' = [walk EXCEPT !.step = IF sub.handlers[walk.i] = Null THEN "fault" ELSE "test",
                          !.i = @ + 1, !.called = Append(@, sub.handlers[walk.i])]
  /\ UNCHANGED sub

EventTypeOK ==
  /\ sub.count \in 0..MaxSubscribers
  /\ \A i \in 1..MaxSubscribers : (sub.handlers[i] # Null) <=> (i <= sub.count)

\* Unless one is removed during the walk, a publication calls exactly those
\* who have subscribed and not unsubscribed, once each and in the order of
\* subscription.  (A removal may make it skip one, call one twice, or call a
\* null pointer.)
ReachesAll(users) ==
  ~walk.moved => walk.step # "fault" /\ (walk.step = "done" => walk.called = users)

=============================================================================
