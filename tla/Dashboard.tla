------------------------------ MODULE Dashboard ------------------------------
(***************************************************************************)
(* The terminal dashboard, ebpf_logs/tui.py, as the owner of collectors:   *)
(* its three slots, the handlers that launch, stop and restart collectors, *)
(* the refresh that looks after them, and the events files they share with *)
(* processes that go on after the dashboard has forgotten them.            *)
(*                                                                         *)
(* Handlers run one at a time, but not in one step: the collectors run     *)
(* between the parts of a handler.  Process identifiers are not reused.    *)
(***************************************************************************)
EXTENDS Integers, SequencesExt

CONSTANTS
  CmpSlots,     \* the slots of the compare tab: _slot_cmp_a, _slot_cmp_b
  Targets,      \* processes a user may select
  MaxProcs,     \* bound on the collectors launched
  MaxRows,      \* bound on the rows each of them buffers
  Inputs,       \* the paths that the input Events CSV path may hold
  Before,       \* the sets of files there may be when the dashboard is started
  Psutil        \* is psutil installed? requirements.txt does not list it

Main == "main"
Slots == CmpSlots \cup {Main}

(* The events files: that of each slot, "other", the ebpf_events.csv of a   *)
(* collector run by hand, which resolve_events_path falls back to, and what *)
(* a user may name besides.                                                 *)
Paths == Slots \cup {"other"} \cup Inputs
Procs == 1..MaxProcs

ASSUME DashboardAssumption ==
  /\ Main \notin CmpSlots /\ "other" \notin Slots
  /\ Targets \subseteq Nat \ {0}
  /\ MaxProcs \in Nat /\ MaxRows \in Nat /\ Psutil \in BOOLEAN
  /\ Before \subseteq SUBSET Paths

VARIABLES
  slot,      \* the CollectorSlot objects
  proc,      \* the collector processes
  file,      \* the events files
  ui,        \* the handler in progress: where it is, and what it works on
  selected,  \* _selected_pid, or 0
  quit,
  cleared    \* ghost, per file: the collectors that held a row in their buffers
             \* when a nice value was set, before the file was cleared for it

vars == <<slot, proc, file, ui, selected, quit, cleared>>

(* A line of a file is the header, the row of collector p (p itself), a row *)
(* of before the dashboard was started, or damaged.                         *)
Header == 0
OldRow == -1
Damaged == -2

(* As in the code, a target of 0 is all processes, and that of an empty slot. *)
EmptySlot == [pid |-> 0, target |-> 0, path |-> "none"]
Idle == [at |-> "idle", slot |-> "none", pid |-> 0, target |-> 0, path |-> "none", nice |-> FALSE,
         before |-> {}]
Reload == [Idle EXCEPT !.at = "reload"]
Unused == [state |-> "unused", told |-> FALSE, path |-> "none", inode |-> 0, rows |-> 0, buf |-> << >>]

Live == {"starting", "collecting"}     \* has not exited
Running(p) == proc[p].state \in Live
(* kill(pid, 0) finds a zombie too. *)
IsAlive(p) == p # 0 /\ proc[p].state \in Live \cup {"zombie"}

Init ==
  /\ slot = [s \in Slots |-> EmptySlot]
  /\ proc = [p \in Procs |-> Unused]
  /\ \E old \in Before :
       file = [f \in Paths |-> [exists |-> f \in old, inode |-> 0,
                               lines |-> IF f \in old THEN <<Header, OldRow>> ELSE << >>]]
  /\ ui = Idle
  /\ selected = 0
  /\ quit = FALSE
  /\ cleared = [f \in Paths |-> {}]

-----------------------------------------------------------------------------
(* The collector processes.  Starting: it opens its file for appending and  *)
(* takes an empty one to need a header, or fails and exits.                 *)
OpenFile(p) ==
  LET f == file[proc[p].path] IN
  /\ proc[p].state = "starting"
  /\ proc' = [proc EXCEPT ![p].state = "collecting", ![p].inode = f.inode,
                          ![p].buf = IF f.lines = << >> THEN <<Header>> ELSE << >>]
  /\ file' = [file EXCEPT ![proc[p].path].exists = TRUE]
  /\ UNCHANGED <<slot, ui, selected, quit, cleared>>

(* It exits before it collects, or is killed while it does: a zombie, as    *)
(* the dashboard does not wait for its children.                            *)
Die(p) ==
  /\ Running(p)
  /\ proc' = [proc EXCEPT ![p].state = "zombie", ![p].buf = << >>]
  /\ UNCHANGED <<slot, file, ui, selected, quit, cleared>>

Collect(p) ==
  /\ proc[p].state = "collecting" /\ proc[p].rows < MaxRows
  /\ proc' = [proc EXCEPT ![p].rows = @ + 1, ![p].buf = Append(@, p)]
  /\ UNCHANGED <<slot, file, ui, selected, quit, cleared>>

(* Appending reaches the file by its inode: a removed file is out of sight. *)
Written(p) ==
  [file EXCEPT ![proc[p].path].lines =
    IF file[proc[p].path].inode = proc[p].inode THEN @ \o proc[p].buf ELSE @]

Flush(p) ==
  /\ proc[p].state = "collecting" /\ proc[p].buf # << >>
  /\ file' = Written(p)
  /\ proc' = [proc EXCEPT ![p].buf = << >>]
  /\ UNCHANGED <<slot, ui, selected, quit, cleared>>

(* An interrupted collector writes out its buffer and exits. *)
Finish(p) ==
  /\ proc[p].state = "collecting" /\ proc[p].told
  /\ file' = Written(p)
  /\ proc' = [proc EXCEPT ![p].state = "zombie", ![p].buf = << >>]
  /\ UNCHANGED <<slot, ui, selected, quit, cleared>>

-----------------------------------------------------------------------------
(* Creating any child reaps the zombies whose Popen objects are gone. *)
Reaped == [p \in Procs |-> IF proc[p].state = "zombie" THEN [proc[p] EXCEPT !.state = "gone"]
                           ELSE proc[p]]

(* SIGINT: it kills a collector that has not called signal() yet, and is    *)
(* nothing to a zombie.                                                     *)
Interrupted(p) ==
  LET told == [proc EXCEPT ![p].told = TRUE] IN
  CASE proc[p].state = "starting" -> {told, [told EXCEPT ![p].state = "zombie"]}
    [] proc[p].state = "collecting" -> {told}
    [] OTHER -> {proc}

(* CollectorSlot.stop signals the process and forgets it. *)
Alive(s) == IsAlive(slot[s].pid)
StopForgets(s) == slot' = [slot EXCEPT ![s] = EmptySlot] /\ UNCHANGED proc   \* mutant: no signal
Stop(s) ==
  IF Alive(s)
  THEN proc' \in Interrupted(slot[s].pid) /\ slot' = [slot EXCEPT ![s] = EmptySlot]
  ELSE slot' = [slot EXCEPT ![s].pid = 0] /\ UNCHANGED proc

StopSlot(s) ==
  /\ ui = Idle /\ ~quit
  /\ Stop(s)
  /\ UNCHANGED <<file, ui, selected, quit, cleared>>

(* _events_path: the text of the input Events CSV path if there is such a   *)
(* file, else the first of the usual places that there is.                  *)
Resolve(path, files) ==
  IF ~files[path].exists /\ files[Main].exists THEN Main
  ELSE IF ~files[path].exists /\ files["other"].exists THEN "other"
  ELSE path

(* The first half of CollectorSlot.launch: Popen, or a failure before it or *)
(* in it.  What follows is nothing more, or the rest of _on_apply_nice.     *)
NextProc == CHOOSE p \in Procs : proc[p].state = "unused"
                                 /\ \A q \in 1..(p - 1) : proc[q].state # "unused"
After(nice) == IF nice THEN Reload ELSE Idle
Spawn(s, target, path, nice) ==
  \/ /\ \E p \in Procs : proc[p].state = "unused"
     /\ proc' = [Reaped EXCEPT ![NextProc].state = "starting", ![NextProc].path = path]
     /\ ui' = [at |-> "launched", slot |-> s, pid |-> NextProc, target |-> target,
               path |-> path, nice |-> nice, before |-> {}]
  \/ proc' \in {proc, Reaped} /\ ui' = After(nice)

(* The second half, 0.6 s later: a collector that has exited is reported as *)
(* failed, one that has not fills the slot.                                 *)
Launched ==
  /\ ui.at = "launched"
  /\ IF proc[ui.pid].state = "zombie"
     THEN /\ proc' = [proc EXCEPT ![ui.pid].state = "gone"]
          /\ slot' = [slot EXCEPT ![ui.slot].pid = 0]
     ELSE /\ slot' = [slot EXCEPT ![ui.slot] =
                       [pid |-> ui.pid, target |-> ui.target, path |-> ui.path]]
          /\ UNCHANGED proc
  /\ ui' = After(ui.nice)
  /\ UNCHANGED <<file, selected, quit, cleared>>

(* action_start_collector.  The input holds the path of the main slot until *)
(* the user types another one, that of a compare slot if he likes.  Reset   *)
(* CSV removes the file it resolves to, and then it is resolved again.      *)
Removed(path) ==
  [file EXCEPT ![path] = [exists |-> FALSE, inode |-> @.inode + 1, lines |-> << >>]]

StartMain(input, target, reset) ==
  LET path == Resolve(input, file) IN
  /\ ui = Idle /\ ~quit /\ ~Alive(Main)
  /\ target \in {0, selected}
  /\ file' = IF reset /\ file[path].exists THEN Removed(path) ELSE file
  /\ Spawn(Main, target, Resolve(input, file'), FALSE)
  /\ UNCHANGED <<slot, selected, quit, cleared>>

StartCmpAgain(s, target) ==   \* mutant: no look at slot.alive
  /\ ui = Idle /\ ~quit
  /\ Spawn(s, target, s, FALSE)
  /\ UNCHANGED <<slot, file, selected, quit, cleared>>

StartCmp(s, target) ==
  /\ ui = Idle /\ ~quit /\ ~Alive(s)
  /\ Spawn(s, target, s, FALSE)
  /\ UNCHANGED <<slot, file, selected, quit, cleared>>

(* Without psutil, to list processes, to read a nice value or to set one is *)
(* to run ps or renice, which reaps.                                        *)
Asked == IF Psutil THEN proc ELSE Reaped

Buffering == {p \in Procs : proc[p].rows = MaxRows /\ p \in Range(proc[p].buf)}

(* _on_apply_nice.  With psutil, renice is still run when it is denied.     *)
ApplyNice ==
  /\ ui = Idle /\ ~quit /\ selected # 0
  /\ proc' \in {Asked, Reaped}
  /\ ui' \in {Idle, [Idle EXCEPT !.at = "niced", !.before = Buffering]}
  /\ UNCHANGED <<slot, file, selected, quit, cleared>>

(* When the main collector follows the process, it is stopped and started   *)
(* again on a cleared file - unless one of the inputs it needs is no number. *)
ForProcess == slot[Main].target = selected /\ Alive(Main)
StopForNice ==
  /\ ui.at = "niced"
  /\ \/ /\ ForProcess
        /\ Stop(Main)
        /\ ui' = [at |-> "truncate", slot |-> Main, pid |-> 0, target |-> selected,
                  path |-> slot[Main].path, nice |-> TRUE, before |-> ui.before]
     \/ ui' = Reload /\ UNCHANGED <<slot, proc>>
  /\ UNCHANGED <<file, selected, quit, cleared>>

TruncateFile ==
  /\ ui.at = "truncate"
  /\ \/ /\ file' = [file EXCEPT ![ui.path].exists = TRUE, ![ui.path].lines = << >>]
        /\ ui' = [ui EXCEPT !.at = "header", !.before = {}]
        /\ cleared' = [cleared EXCEPT ![ui.path] = ui.before]
     \/ ui' = Reload /\ UNCHANGED <<file, cleared>>
  /\ UNCHANGED <<slot, proc, selected, quit>>

WriteHeaderAtEnd ==   \* mutant: the file is opened for appending
  /\ ui.at = "header"
  /\ file' = [file EXCEPT ![ui.path].lines = Append(@, Header)]
  /\ ui' = [ui EXCEPT !.at = "spawn"]
  /\ UNCHANGED <<slot, proc, selected, quit, cleared>>

(* The header goes to offset 0: over what a collector appended meanwhile. *)
WriteHeader ==
  /\ ui.at = "header"
  /\ file' = [file EXCEPT ![ui.path].lines =
                <<Header>> \o (IF Len(@) > 1 THEN [Tail(@) EXCEPT ![1] = Damaged] ELSE << >>)]
  /\ ui' = [ui EXCEPT !.at = "spawn"]
  /\ UNCHANGED <<slot, proc, selected, quit, cleared>>

Respawn ==
  /\ ui.at = "spawn"
  /\ Spawn(ui.slot, ui.target, ui.path, TRUE)
  /\ UNCHANGED <<slot, file, selected, quit, cleared>>

(* _load_data: the processes are listed; then the slots of processes that   *)
(* are gone are emptied.                                                    *)
NeverReaped ==   \* mutant: the processes are listed without running ps
  /\ proc' = proc
  /\ slot' = [s \in Slots |->
       IF slot[s].pid # 0 /\ proc'[slot[s].pid].state = "gone" THEN [slot[s] EXCEPT !.pid = 0]
       ELSE slot[s]]

LoadData ==
  /\ proc' = Asked
  /\ slot' = [s \in Slots |->
       IF slot[s].pid # 0 /\ proc'[slot[s].pid].state = "gone" THEN [slot[s] EXCEPT !.pid = 0]
       ELSE slot[s]]

(* From the timer or the user, and at the end of _on_apply_nice. *)
Refresh ==
  /\ ui = Idle /\ ~quit
  /\ LoadData
  /\ UNCHANGED <<file, ui, selected, quit, cleared>>

ReloadData ==
  /\ ui = Reload
  /\ LoadData
  /\ ui' = Idle
  /\ UNCHANGED <<file, selected, quit, cleared>>

(* The Reload button lists the processes, and no more. *)
ListProcesses ==
  /\ ui = Idle /\ ~quit
  /\ proc' = Asked
  /\ UNCHANGED <<slot, file, ui, selected, quit, cleared>>

Select(t) ==
  /\ ui = Idle /\ ~quit /\ selected # t
  /\ selected' = t
  /\ UNCHANGED <<slot, proc, file, ui, quit, cleared>>

(* The binding of q ends the dashboard and nothing else. *)
Quit ==
  /\ ui = Idle /\ ~quit
  /\ quit' = TRUE
  /\ UNCHANGED <<slot, proc, file, ui, selected, cleared>>

Handler == Launched \/ StopForNice \/ TruncateFile \/ WriteHeader \/ Respawn \/ ReloadData

Next ==
  \/ \E p \in Procs : OpenFile(p) \/ Die(p) \/ Collect(p) \/ Flush(p) \/ Finish(p)
  \/ \E s \in Slots : StopSlot(s)
  \/ \E f \in Inputs, t \in Targets \cup {0}, reset \in BOOLEAN : StartMain(f, t, reset)
  \/ \E s \in CmpSlots, t \in Targets : StartCmp(s, t)
  \/ \E t \in Targets : Select(t)
  \/ Handler \/ ApplyNice \/ Refresh \/ ListProcesses \/ Quit

Spec == Init /\ [][Next]_vars

(* A handler goes on, the refresh timer fires, and a collector that was     *)
(* interrupted ends.                                                        *)
FairSpec ==
  /\ Spec /\ WF_vars(Handler) /\ SF_vars(Refresh)
  /\ \A p \in Procs : WF_vars(OpenFile(p)) /\ WF_vars(Finish(p))

-----------------------------------------------------------------------------
(* As long as the dashboard runs, every collector that runs and has not     *)
(* been interrupted can be stopped: it is that of a slot, or is being       *)
(* launched.                                                                *)
Owned(p) == (\E s \in Slots : slot[s].pid = p) \/ ui.pid = p
NoOrphans == ~quit => \A p \in Procs : Running(p) /\ ~proc[p].told => Owned(p)

(* Two collectors that have not been interrupted append to the same file    *)
(* only if it is that of a compare slot, one of them is that slot's, and    *)
(* the other is the main one, started on a path that was typed in           *)
(* (tui.py:1937) - whatever was stopped, restarted, removed or left behind  *)
(* before.                                                                  *)
RunsFor(p, s) == slot[s].pid = p \/ (ui.pid = p /\ ui.slot = s)
Writing(p) == proc[p].state = "collecting" /\ ~proc[p].told
SharedOnlyIfTyped ==
  \A p, q \in Procs :
    /\ p # q /\ Writing(p) /\ Writing(q)
    /\ proc[p].path = proc[q].path /\ proc[p].inode = proc[q].inode
    => \E s \in CmpSlots :
         /\ s = proc[p].path
         /\ \/ RunsFor(p, s) /\ RunsFor(q, Main)
            \/ RunsFor(p, Main) /\ RunsFor(q, s)

(* load_ebpf_events takes the first line of a file for its header, and      *)
(* without it shows nothing: between handlers, a file that is not empty     *)
(* begins with one, though Apply Nice clears it under a collector that may  *)
(* still write.                                                             *)
HeaderFirst ==
  ui = Idle => \A f \in Paths : file[f].lines # << >> => Head(file[f].lines) = Header

(* A collector that ended by itself does not hold a slot for ever, so       *)
(* that another one can be started.                                         *)
DeadNoticed ==
  \A p \in Procs :
    ~Running(p) /\ (\E s \in Slots : slot[s].pid = p)
      ~> (\A s \in Slots : slot[s].pid # p) \/ quit

-----------------------------------------------------------------------------
(* tui.py:1465-1466, "reset the CSV to cleanly split": what was recorded    *)
(* with the nice value of before is not in the file that Apply Nice         *)
(* cleared.                                                                 *)
SplitClean == ui = Idle => \A f \in Paths : Range(file[f].lines) \cap cleared[f] = {}
=============================================================================
