----------------------------- MODULE SkyMapSpec -----------------------------
(* What sky_map.c promises its caller: each handle is a map from keys to     *)
(* values with an optional filter.  A call is one atomic step between its    *)
(* invocation and its return, or it returns MAP_ERROR and has changed        *)
(* nothing but, perhaps, the filter of an empty map.                         *)
EXTENDS Naturals

CONSTANTS Map, Key, Value, NULL,
          Accepted   \* the pairs the filter callback lets through

VARIABLES content,   \* a handle's map; a key without a value has NULL
          filtered,  \* does the handle have its filter?
          call, result

vars == <<content, filtered, call, result>>

Empty == [k \in Key |-> NULL]
NoCall == [op |-> "none", map |-> NULL, key |-> NULL, value |-> NULL, to |-> NULL]

Code == {"MAP_OK", "MAP_ERROR", "MAP_KEYEXISTS", "MAP_KEYNOTFOUND", "MAP_FILTER_REJECT"}

Live == {m \in Map : content[m] # NULL}

Init == /\ content = [m \in Map |-> NULL] /\ filtered = [m \in Map |-> FALSE]
        /\ call = NoCall /\ result = "none"
----------------------------------------------------------------------------
Create(m, filter) ==
    /\ call = NoCall /\ m \notin Live
    /\ content' = [content EXCEPT ![m] = Empty]
    /\ filtered' = [filtered EXCEPT ![m] = filter]
    /\ UNCHANGED <<call, result>>

Destroy(m) ==
    /\ call = NoCall /\ m \in Live
    /\ content' = [content EXCEPT ![m] = NULL]
    /\ filtered' = [filtered EXCEPT ![m] = FALSE]
    /\ UNCHANGED <<call, result>>

Invoke ==
    /\ call = NoCall
    /\ call' \in [op : {"add", "addorupdate", "delete", "containskey", "containsvalue",
                        "getvaluefromkey", "clone"},
                  map : Live, key : Key \cup {NULL}, value : Value \cup {NULL},
                  to : Map \cup {NULL}]
    /\ result' = "none"
    /\ UNCHANGED <<content, filtered>>

Return(r) == call' = NoCall /\ result' = r
Answer(r) == Return(r) /\ UNCHANGED <<content, filtered>>

Now == content[call.map]
Rejected == filtered[call.map] /\ <<call.key, call.value>> \notin Accepted

Put == /\ content' = [content EXCEPT ![call.map][call.key] = call.value]
       /\ Return("MAP_OK")
       /\ UNCHANGED filtered

\* Without memory an insertion fails; a map without keys may lose its filter.
NoMemory == /\ Return("MAP_ERROR")
            /\ UNCHANGED content
            /\ \/ UNCHANGED filtered
               \/ Now = Empty /\ filtered' = [filtered EXCEPT ![call.map] = FALSE]

Add == /\ call.op = "add"
       /\ \/ Now[call.key] # NULL /\ Answer("MAP_KEYEXISTS")
          \/ Now[call.key] = NULL /\ Rejected /\ Answer("MAP_FILTER_REJECT")
          \/ Now[call.key] = NULL /\ ~Rejected /\ (Put \/ NoMemory)

AddOrUpdate == /\ call.op = "addorupdate"
               /\ \/ Rejected /\ Answer("MAP_FILTER_REJECT")
                  \/ ~Rejected /\ (Put \/ NoMemory)

\* Deleting the last key takes the filter with it.
Delete == /\ call.op = "delete"
          /\ \/ Now[call.key] = NULL /\ Answer("MAP_KEYNOTFOUND")
             \/ LET rest == [Now EXCEPT ![call.key] = NULL] IN
                   /\ Now[call.key] # NULL
                   /\ content' = [content EXCEPT ![call.map] = rest]
                   /\ filtered' = [filtered EXCEPT ![call.map] = @ /\ rest # Empty]
                   /\ Return("MAP_OK")

Truth(b) == IF b THEN "true" ELSE "false"

Look == \/ call.op = "containskey" /\ Answer(Truth(Now[call.key] # NULL))
        \/ call.op = "containsvalue" /\ Answer(Truth(\E k \in Key : Now[k] = call.value))
        \/ call.op = "getvaluefromkey" /\ Answer(Now[call.key])

\* A copy of a map without keys has no filter.
Clone == /\ call.op = "clone"
         /\ \/ Answer(NULL)
            \/ /\ content' = [content EXCEPT ![call.to] = Now]
               /\ filtered' = [filtered EXCEPT ![call.to] =
                                  filtered[call.map] /\ Now # Empty]
               /\ Return("handle")

Next == \/ \E m \in Map : Destroy(m) \/ \E filter \in BOOLEAN : Create(m, filter)
        \/ Invoke \/ Add \/ AddOrUpdate \/ Delete \/ Look \/ Clone

Spec == Init /\ [][Next]_vars
=============================================================================
