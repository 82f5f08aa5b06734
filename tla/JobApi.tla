------------------------------- MODULE JobApi -------------------------------
(***************************************************************************)
(* What the codex proxy's job endpoints promise a client, independent of   *)
(* threads and pipes: a job is created pending, starts running, collects   *)
(* output on each of its streams while it runs, and ends succeeded or      *)
(* failed with the output it has; the output a client sees never shrinks   *)
(* and never changes once the job is over.  Output is counted in lines,    *)
(* the n-th line of a stream being the same text for every observer.      *)
(***************************************************************************)
EXTENDS Naturals

CONSTANTS Jobs, Streams

VARIABLES state, out
vars == <<state, out>>

States   == {"none", "pending", "running", "succeeded", "failed"}
Terminal == {"succeeded", "failed"}

Init ==
  /\ state = [j \in Jobs |-> "none"]
  /\ out = [j \in Jobs |-> [s \in Streams |-> 0]]

Create(j) ==
  /\ state[j] = "none"
  /\ state' = [state EXCEPT ![j] = "pending"]
  /\ UNCHANGED out

Start(j) ==
  /\ state[j] = "pending"
  /\ state' = [state EXCEPT ![j] = "running"]
  /\ UNCHANGED out

Emit(j, s) ==
  /\ state[j] = "running"
  /\ out' = [out EXCEPT ![j][s] = @ + 1]
  /\ UNCHANGED state

Finish(j) ==
  /\ state[j] = "running"
  /\ \E t \in Terminal : state' = [state EXCEPT ![j] = t]
  /\ UNCHANGED out

Next ==
  \E j \in Jobs :
    \/ Create(j) \/ Start(j) \/ Finish(j)
    \/ \E s \in Streams : Emit(j, s)

Spec == Init /\ [][Next]_vars

\* A started job runs, and a running job is eventually over: a client that
\* keeps polling sees it end.
Fairness == \A j \in Jobs : WF_vars(Start(j)) /\ WF_vars(Finish(j))

FairSpec == Spec /\ Fairness
=============================================================================
