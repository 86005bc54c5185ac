------------------------------- MODULE GetPid -------------------------------
(***************************************************************************)
(* The allocation of process ids: get_pid in kern/process/proc.c, with the *)
(* insertion of the new process by do_fork and the removal by do_wait.     *)
(*                                                                         *)
(* get_pid hands out last_pid + 1 without looking at the processes as long *)
(* as it stays below next_safe, and otherwise searches proc_list, starting *)
(* over whenever its candidate has used up the window it knows.  The model *)
(* takes one step per process looked at; interrupts are off during the     *)
(* search, so the list does not change under it.                           *)
(***************************************************************************)
EXTENDS Integers, Sequences, Limits

CONSTANT MAX_PID

(* The static_assert of get_pid.                                           *)
ASSUME PidAssumption == MAX_PID \in Nat /\ MAX_PID > MAX_PROCESS

VARIABLES
  proc_list,   \* the pids of all processes but idle, in the order of the list
  last_pid, next_safe,
  le           \* the place the search looks at next; 0 outside get_pid

pid_vars == <<proc_list, last_pid, next_safe, le>>

PidInit ==
  /\ proc_list = << >>
  /\ last_pid = MAX_PID
  /\ next_safe = MAX_PID
  /\ le = 0

(* list_add puts the new process in front; le leaves get_pid.              *)
Link(pid) ==
  /\ proc_list' = <<pid>> \o proc_list
  /\ le' = 0

HasRoom_Unchecked == TRUE
(* The check of nr_process, which counts idle too, at the start of do_fork. *)
HasRoom == Len(proc_list) + 1 < MAX_PROCESS

(* do_fork calls get_pid: the candidate is below next_safe and is taken,   *)
(* or the search starts with the widest window.                            *)
Begin ==
  /\ le = 0
  /\ HasRoom
  /\ last_pid' = IF last_pid + 1 >= MAX_PID THEN 1 ELSE last_pid + 1
  /\ IF last_pid + 1 < MAX_PID /\ last_pid + 1 < next_safe
     THEN Link(last_pid + 1) /\ UNCHANGED next_safe
     ELSE le' = 1 /\ next_safe' = MAX_PID /\ UNCHANGED proc_list

Searching == le \in 1..Len(proc_list)

WindowUsedUp_OffByOne == last_pid + 1 > next_safe
(* The candidate, once incremented, has reached the end of the window.     *)
WindowUsedUp == last_pid + 1 >= next_safe

(* The next candidate of a search that starts over.                        *)
Wrapped == IF last_pid + 1 >= MAX_PID THEN 1 ELSE last_pid + 1

(* The candidate is taken: try the next one, in the same pass as long as   *)
(* it is inside the window.                                                *)
Taken ==
  /\ Searching /\ proc_list[le] = last_pid
  /\ IF WindowUsedUp
     THEN last_pid' = Wrapped /\ next_safe' = MAX_PID /\ le' = 1
     ELSE last_pid' = last_pid + 1 /\ le' = le + 1 /\ UNCHANGED next_safe
  /\ UNCHANGED proc_list

(* The window ends at the smallest pid met above the candidate.            *)
Narrowed == IF proc_list[le] > last_pid /\ next_safe > proc_list[le] THEN proc_list[le]
            ELSE next_safe

NotTaken ==
  /\ Searching /\ proc_list[le] # last_pid
  /\ next_safe' = Narrowed
  /\ le' = le + 1
  /\ UNCHANGED <<proc_list, last_pid>>

(* The search has seen the whole list.                                     *)
Found ==
  /\ le = Len(proc_list) + 1
  /\ Link(last_pid)
  /\ UNCHANGED <<last_pid, next_safe>>

(* list_del of the process at place i.                                     *)
ListDel(s, i) == [j \in 1..(Len(s) - 1) |-> IF j < i THEN s[j] ELSE s[j + 1]]

(* do_wait frees some process; init and the KPU controller could never be  *)
(* freed, which only leaves out steps.                                     *)
Freed ==
  /\ le = 0
  /\ \E i \in 1..Len(proc_list) : proc_list' = ListDel(proc_list, i)
  /\ UNCHANGED <<last_pid, next_safe, le>>

Search == Taken \/ NotTaken \/ Found
PidNext == Begin \/ Search \/ Freed

PidSpec == PidInit /\ [][PidNext]_pid_vars
(* The loop of get_pid keeps running.                                      *)
PidFairSpec == PidSpec /\ WF_pid_vars(Search)

-----------------------------------------------------------------------------
(* Properties.                                                             *)

(* Pids are in 1..MAX_PID-1 (pid 0 is idle's, and find_proc refuses        *)
(* MAX_PID), and the window is an interval.                                *)
PidTypeOK ==
  /\ proc_list \in Seq(1..(MAX_PID - 1))
  /\ last_pid \in 1..MAX_PID
  /\ next_safe \in 1..MAX_PID
  /\ le \in 0..(Len(proc_list) + 1)
  /\ Len(proc_list) < MAX_PROCESS

(* get_pid - alloc a unique pid for process: no two processes ever share a *)
(* pid, also after the numbers have wrapped around.                        *)
UniquePids ==
  \A i, j \in 1..Len(proc_list) : i # j => proc_list[i] # proc_list[j]

(* Why get_pid may skip the search: outside it nobody uses a pid between   *)
(* last_pid and next_safe, and during a pass nobody of those already met   *)
(* uses one from the candidate up to the window's end, although the        *)
(* candidate moves while the pass goes on and is not compared with them    *)
(* again.                                                                  *)
SafeWindow ==
  /\ le = 0 => \A i \in 1..Len(proc_list) :
                 proc_list[i] <= last_pid \/ proc_list[i] >= next_safe
  /\ le > 0 => /\ last_pid < next_safe
               /\ \A i \in 1..(le - 1) :
                    proc_list[i] < last_pid \/ proc_list[i] >= next_safe

(* get_pid returns: with more pids than processes no search goes round and *)
(* round.                                                                  *)
SearchEnds == le > 0 ~> le = 0
=============================================================================
