---------------------------- MODULE RoutingTable ----------------------------
(***************************************************************************)
(* What mqtt_subscription_manager.h promises its callers: a set of         *)
(* callbacks, each registered for a topic at most once, of a bounded size; *)
(* a publish is given to every callback registered for its topic.          *)
(***************************************************************************)
EXTENDS Naturals, FiniteSets

CONSTANTS
  Routes,    \* the pairs of topic and callback that tasks may register
  Capacity

VARIABLES
  table,     \* the registered pairs
  call,      \* the last call and what it was about
  result,    \* what it returned
  invoked    \* the callbacks that it invoked

vars == <<table, call, result, invoked>>

Init == table = {} /\ call = <<"none">> /\ result = "none" /\ invoked = {}

\* A pair already there is accepted again and stays there once.
Subscribe(pair) ==
  /\ \/ /\ pair \in table \/ Cardinality(table) < Capacity
        /\ table' = table \cup {pair}
        /\ result' = "true"
     \/ /\ pair \notin table /\ Cardinality(table) >= Capacity
        /\ table' = table
        /\ result' = "false"
  /\ call' = <<"subscribe", pair>>
  /\ invoked' = {}

\* Every callback of the topic is removed.
Unsubscribe(topic) ==
  /\ table' = {pair \in table : pair.topic # topic}
  /\ call' = <<"unsubscribe", topic>>
  /\ result' = "void"
  /\ invoked' = {}

\* Every callback of the topic is invoked.
Publish(topic) ==
  /\ call' = <<"publish", topic>>
  /\ invoked' = {pair.callback : pair \in {p \in table : p.topic = topic}}
  /\ result' = IF invoked' = {} THEN "false" ELSE "true"
  /\ UNCHANGED table

Next ==
  \/ \E pair \in Routes : Subscribe(pair)
  \/ \E pair \in Routes : Unsubscribe(pair.topic) \/ Publish(pair.topic)

Spec == Init /\ [][Next]_vars
=============================================================================
