---- MODULE EdgeDictionary ----
(***************************************************************************)
(* What the edge map promises (edge_map.hpp): a dictionary from edges, in  *)
(* either direction, to the elements of that direction.  Several callers   *)
(* may ask at once; a request takes effect at one moment between its call  *)
(* and its return.                                                         *)
(***************************************************************************)
CONSTANTS Callers, Arcs,
          Yes, No, Absent   \* replies, and no element

VARIABLES dict,  \* the element of every arc, or Absent
          call,  \* the request of every caller, or Absent
          reply  \* what a call gave that has just returned

vars == <<dict, call, reply>>

(* An element is named by the arc it stands for.                           *)
Reverse(a) == <<a[2], a[1]>>

Init ==
  /\ dict = [a \in Arcs |-> Absent]
  /\ call = [c \in Callers |-> Absent]
  /\ reply = Absent

Call(c) ==
  /\ call[c] = Absent
  /\ call'[c] # Absent
  /\ call' = [call EXCEPT ![c] = call'[c]]
  /\ reply' = Absent
  /\ UNCHANGED dict

Serves(c, op) == call[c] # Absent /\ call[c].op = op

Returns(c, value) ==
  /\ call' = [call EXCEPT ![c] = Absent]
  /\ reply' = value

Insert(c) ==
  /\ Serves(c, "Insert")
  /\ LET e == call[c].edge
         isNew == dict[e] = Absent IN
     /\ Returns(c, IF isNew THEN Yes ELSE No)
     /\ dict' = IF isNew THEN [dict EXCEPT ![e] = e, ![Reverse(e)] = Reverse(e)]
                ELSE dict

Find(c) ==
  /\ Serves(c, "Find")
  /\ Returns(c, dict[call[c].arc])
  /\ UNCHANGED dict

Delete(c) ==
  /\ Serves(c, "Delete")
  /\ LET a == call[c].arc IN
     /\ Returns(c, IF dict[a] # Absent THEN Yes ELSE No)
     /\ dict' = [dict EXCEPT ![a] = Absent, ![Reverse(a)] = Absent]

(* Nobody asks when the dictionary is emptied.                             *)
Clear ==
  /\ \A c \in Callers : call[c] = Absent
  /\ dict' = [a \in Arcs |-> Absent]
  /\ UNCHANGED call
  /\ reply' = Absent

Forget == reply' = Absent /\ UNCHANGED <<dict, call>>

Next == Clear \/ Forget \/ \E c \in Callers : Call(c) \/ Insert(c) \/ Find(c) \/ Delete(c)

Spec == Init /\ [][Next]_vars
====
