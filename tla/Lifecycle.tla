------------------------------ MODULE Lifecycle ------------------------------
(***************************************************************************)
(* What the engine promises about the containers of a name, without locks, *)
(* tasks, ports or files: Ps shows a status, at most one process of the    *)
(* name exists, it exists only while the name is building or running, and  *)
(* a name is shown as exited only after its process has died.              *)
(***************************************************************************)
CONSTANTS Names, Pids

VARIABLES
  status,  \* Names -> what Ps shows, "absent" when the name is not listed
  live     \* Names -> the processes of the name that are alive

vars == <<status, live>>

Init ==
  /\ status = [n \in Names |-> "absent"]
  /\ live = [n \in Names |-> {}]

SetStatus(n, from, to) ==
  /\ status[n] = from
  /\ status' = [status EXCEPT ![n] = to]

Idle(n) == live[n] = {} /\ UNCHANGED live

\* A Run or a Start is accepted.
Accept(n) == Idle(n) /\ (SetStatus(n, "absent", "building") \/
                         SetStatus(n, "exited", "building"))

\* Bringing the container up fails before it has a process.
GiveUp(n) == Idle(n) /\ SetStatus(n, "building", "absent")

Launch(n, p) ==
  /\ status[n] = "building"
  /\ live[n] = {}
  /\ live' = [live EXCEPT ![n] = {p}]
  /\ UNCHANGED status

\* The process may already have died when it is announced as running.
Announce(n) == SetStatus(n, "building", "running") /\ UNCHANGED live

Die(n) ==
  /\ live' = [live EXCEPT ![n] = {}]
  /\ UNCHANGED status

NoticeExit(n) == Idle(n) /\ SetStatus(n, "running", "exited")

Remove(n) == Idle(n) /\ SetStatus(n, "exited", "absent")

Next ==
  \E n \in Names :
    \/ Accept(n)
    \/ GiveUp(n)
    \/ \E p \in Pids : Launch(n, p)
    \/ Announce(n)
    \/ Die(n)
    \/ NoticeExit(n)
    \/ Remove(n)

Spec == Init /\ [][Next]_vars
=============================================================================
