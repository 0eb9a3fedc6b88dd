---- MODULE AtomicLists ----
(***************************************************************************)
(* What the sequence data structures promise: a set of lists, each a path  *)
(* or a cycle, on which Join and Split take effect at one instant between  *)
(* their call and their return.  Joins overlap with joins only and splits  *)
(* with splits only (skip_list_base.hpp, the comments of Join and Split).  *)
(***************************************************************************)
CONSTANTS Elements, Threads, Null

VARIABLES succ,  \* the successor of every element
          call   \* the call each thread is in

vars == <<succ, call>>

NoCall == [op |-> "none", x |-> Null, y |-> Null, taken |-> FALSE,
           result |-> Null]

Init == /\ succ = [x \in Elements |-> Null]
        /\ call = [t \in Threads |-> NoCall]

(* Join(x, y): x ends a list, y starts one, and no other call joins them.  *)
CallJoin(t, x, y) ==
  /\ call[t] = NoCall
  /\ succ[x] = Null
  /\ \A z \in Elements : succ[z] # y
  /\ \A u \in Threads : /\ call[u].op \in {"none", "join"}
                        /\ call[u].x # x
                        /\ call[u].y # y
  /\ call' = [call EXCEPT ![t] = [NoCall EXCEPT !.op = "join", !.x = x, !.y = y]]
  /\ UNCHANGED succ

(* Split(x): any number of calls for one element.                          *)
CallSplit(t, x) ==
  /\ call[t] = NoCall
  /\ \A u \in Threads : call[u].op \in {"none", "split"}
  /\ call' = [call EXCEPT ![t] = [NoCall EXCEPT !.op = "split", !.x = x]]
  /\ UNCHANGED succ

(* The instant at which a join takes effect: the lists are concatenated.   *)
Concatenate(t) ==
  /\ call[t].op = "join"
  /\ ~call[t].taken
  /\ succ' = [succ EXCEPT ![call[t].x] = call[t].y]
  /\ call' = [call EXCEPT ![t] = [@ EXCEPT !.taken = TRUE]]

(* The instant at which a split takes effect: it takes the successor away  *)
(* and will return it, or null when there is none (any more).              *)
Detach(t) ==
  /\ call[t].op = "split"
  /\ ~call[t].taken
  /\ succ' = [succ EXCEPT ![call[t].x] = Null]
  /\ call' = [call EXCEPT ![t] = [@ EXCEPT !.taken = TRUE,
                                           !.result = succ[call[t].x]]]

Return(t) ==
  /\ call[t].taken
  /\ call' = [call EXCEPT ![t] = NoCall]
  /\ UNCHANGED succ

Next ==
  \E t \in Threads :
    \/ \E x, y \in Elements : CallJoin(t, x, y)
    \/ \E x \in Elements : CallSplit(t, x)
    \/ Concatenate(t)
    \/ Detach(t)
    \/ Return(t)

Spec == Init /\ [][Next]_vars
====
