----------------------------- MODULE SharedMap -----------------------------
(***************************************************************************)
(* What a hash table that threads share promises: every operation takes    *)
(* effect at one instant between its call and its return.                  *)
(*                                                                         *)
(* A store and a successful removal change the map once.  An operation     *)
(* that changes nothing returns what the map held for its key at some      *)
(* moment of the call; history remembers all that it held.                 *)
(***************************************************************************)
EXTENDS FiniteSets

CONSTANTS Threads, Keys, Values, None

VARIABLES
    map,      \* key -> value, or None
    request,  \* what each thread called: operation, key, value; or Idle
    done,     \* threads whose operation has changed the map
    history,  \* per thread: what the map held for its key during the call
    answer    \* what the last step returned: thread and value, if it did

vars == <<map, request, done, history, answer>>

NoAnswer == [thread |-> None, value |-> None]
Idle == [op |-> "idle", key |-> None, value |-> None]

Calls ==
    [op : {"get", "rem"}, key : Keys, value : {None}]
        \cup [op : {"put"}, key : Keys, value : Values]
        \cup [op : {"clr"}, key : {None}, value : {None}]

Init ==
    /\ map \in [Keys -> Values \cup {None}]
    /\ request = [t \in Threads |-> Idle]
    /\ done = {}
    /\ history = [t \in Threads |-> {}]
    /\ answer = NoAnswer

Busy(t) == request[t] # Idle

(* What an operation that may yet return what it saw sees of the map now.  *)
Recorded ==
    history' = [t \in Threads |->
        IF request'[t].op \notin {"get", "rem"} \/ t \in done' THEN {}
        ELSE {map'[request'[t].key]} \cup history[t]]

Call(t, call) ==
    /\ ~Busy(t)
    /\ request' = [request EXCEPT ![t] = call]
    /\ answer' = NoAnswer
    /\ UNCHANGED <<map, done>>

Change(t) ==
    LET key == request[t].key IN
    /\ Busy(t) /\ t \notin done
    /\ \/ request[t].op = "put"
       \/ request[t].op = "rem" /\ map[key] # None
       \/ request[t].op = "clr"
    /\ map' = IF request[t].op = "clr" THEN [k \in Keys |-> None]
              ELSE [map EXCEPT ![key] = request[t].value]
    /\ done' = done \cup {t}
    /\ answer' = NoAnswer
    /\ UNCHANGED request

(* A step inside an operation, which only ends the answer.                 *)
Proceed ==
    /\ answer' = NoAnswer
    /\ UNCHANGED <<map, request, done>>

Return(t, value) ==
    /\ Busy(t)
    /\ CASE t \in done -> value = "done"
         [] t \notin done /\ request[t].op = "get" -> value \in history[t]
         [] t \notin done /\ request[t].op = "rem" -> value = None /\ None \in history[t]
         [] OTHER -> FALSE
    /\ request' = [request EXCEPT ![t] = Idle]
    /\ done' = done \ {t}
    /\ answer' = [thread |-> t, value |-> value]
    /\ UNCHANGED map

Next ==
    /\ \/ \E t \in Threads : \/ \E call \in Calls : Call(t, call)
                            \/ Change(t)
                            \/ \E value \in Values \cup {None, "done"} : Return(t, value)
       \/ Proceed
    /\ Recorded

Spec == Init /\ [][Next]_vars
=============================================================================
