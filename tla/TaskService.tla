----------------------------- MODULE TaskService -----------------------------
(***************************************************************************)
(* What a thread pool promises to the thread that owns it, without queues,  *)
(* workers or condition variables: every submitted task yields one result,  *)
(* the results are collected in the order in which they were yielded, and   *)
(* the pool reports that it is done (WaitForResult returns nullptr) only    *)
(* when nothing is outstanding; nothing is submitted after that.            *)
(***************************************************************************)
EXTENDS Naturals, Sequences

CONSTANT Tasks

VARIABLES
  pending,   \* submitted, and no result yet
  ready,     \* the results that were yielded and not collected
  collected, \* the tasks whose result was collected
  reported   \* the pool has reported that it is done

serviceVars == <<pending, ready, collected, reported>>

Unused == {t \in Tasks : /\ t \notin pending \cup collected
                         /\ \A i \in 1..Len(ready) : ready[i] # t}

Init ==
  /\ pending = {}
  /\ ready = <<>>
  /\ collected = {}
  /\ reported = FALSE

Submit(t) ==
  /\ ~reported
  /\ t \in Unused
  /\ pending' = pending \cup {t}
  /\ UNCHANGED <<ready, collected, reported>>

Yield(t) ==
  /\ t \in pending
  /\ pending' = pending \ {t}
  /\ ready' = Append(ready, t)
  /\ UNCHANGED <<collected, reported>>

Collect ==
  /\ ready # <<>>
  /\ ready' = Tail(ready)
  /\ collected' = collected \cup {Head(ready)}
  /\ UNCHANGED <<pending, reported>>

Report ==
  /\ pending = {}
  /\ ready = <<>>
  /\ reported' = TRUE
  /\ UNCHANGED <<pending, ready, collected>>

Next == (\E t \in Tasks : Submit(t) \/ Yield(t)) \/ Collect \/ Report

Spec == Init /\ [][Next]_serviceVars
=============================================================================
