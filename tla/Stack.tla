---- MODULE Stack ----
(***************************************************************************)
(* What a concurrent stack promises: pushes and pops of several threads,   *)
(* each taking effect at one moment between its call and its return.  A    *)
(* pop gives the value pushed last, or Empty.                              *)
(***************************************************************************)
EXTENDS Sequences

CONSTANTS Threads, Values, Empty

VARIABLES contents,  \* the values, the one pushed last first
          task       \* what every thread is at

vars == <<contents, task>>

Idle == [at |-> "idle", value |-> Empty]

Init == contents \in Seq(Values) /\ task = [t \in Threads |-> Idle]

(* Thread t alone goes on, with one of some values.                        *)
Goes(t, from, to, values) ==
  /\ task[t].at = from
  /\ task'[t] \in [at : {to}, value : values]
  /\ \A u \in Threads \ {t} : task'[u] = task[u]

CallPush(t) == Goes(t, "idle", "push", Values) /\ UNCHANGED contents

CallPop(t) == Goes(t, "idle", "pop", {Empty}) /\ UNCHANGED contents

Push(t) ==
  /\ Goes(t, "push", "idle", {Empty})
  /\ contents' = <<task[t].value>> \o contents

Pop(t) ==
  /\ contents # <<>>
  /\ Goes(t, "pop", "popped", {Head(contents)})
  /\ contents' = Tail(contents)

PopNothing(t) ==
  /\ contents = <<>>
  /\ Goes(t, "pop", "popped", {Empty})
  /\ UNCHANGED contents

Return(t) == Goes(t, "popped", "idle", {Empty}) /\ UNCHANGED contents

Clear ==
  /\ \A t \in Threads : task[t] = Idle
  /\ contents' = <<>> /\ UNCHANGED task

Next ==
  \/ \E t \in Threads :
       CallPush(t) \/ CallPop(t) \/ Push(t) \/ Pop(t) \/ PopNothing(t) \/ Return(t)
  \/ Clear

Spec == Init /\ [][Next]_vars
====
