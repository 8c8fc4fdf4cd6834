--------------------------- MODULE DashboardProofs ---------------------------
(***************************************************************************)
(* Proofs about Dashboard, for any compare slots, any number of collectors *)
(* and rows, with and without psutil, and whatever path is typed: no       *)
(* collector gets out of reach, and two that have not been interrupted     *)
(* write the same file only if the main one was started on that of a       *)
(* compare slot.                                                           *)
(*                                                                         *)
(* The argument: a collector that may write is that of one slot, or is     *)
(* being launched for one whose collector does not run; and a compare slot *)
(* launches on its own file only.                                          *)
(***************************************************************************)
EXTENDS Dashboard, SequenceTheorems, WellFoundedInduction, TLAPS

ProcType == [state : {"unused", "starting", "collecting", "zombie", "gone"}, told : BOOLEAN,
             path : Paths \cup {"none"}, inode : Int, rows : Int, buf : Seq(Int)]
FileType == [exists : BOOLEAN, inode : Int, lines : Seq(Int)]
SlotType == [pid : {0} \cup Procs, target : Nat, path : Paths \cup {"none"}]
UiType == [at : {"idle", "launched", "niced", "truncate", "header", "spawn", "reload"},
           slot : Slots \cup {"none"}, pid : {0} \cup Procs, target : Nat,
           path : Paths \cup {"none"}, nice : BOOLEAN, before : SUBSET Procs]

Types ==
  /\ slot \in [Slots -> SlotType] /\ proc \in [Procs -> ProcType]
  /\ file \in [Paths -> FileType] /\ ui \in UiType /\ selected \in Nat

(* The files a slot's collectors may write. *)
FilesOf(s) == IF s = Main THEN Paths ELSE {s}

(* The collector of a slot, and the one being launched, if any. *)
SlotsFit ==
  \A s \in Slots : slot[s].pid # 0 =>
    /\ slot[s].path \in FilesOf(s) /\ proc[slot[s].pid].path = slot[s].path
    /\ proc[slot[s].pid].state # "unused"

Replacing == {"launched", "truncate", "header", "spawn"}
UiFits ==
  /\ ui.at # "launched" => ui.pid = 0
  /\ ui.at \in Replacing \ {"launched"} => ui.slot = Main
  /\ ui.at \in Replacing =>
       /\ ui.slot \in Slots /\ ui.path \in FilesOf(ui.slot)
       /\ slot[ui.slot].pid # 0 => ~Running(slot[ui.slot].pid)
  /\ ui.at = "launched" =>
       ui.pid # 0 /\ proc[ui.pid].path = ui.path /\ proc[ui.pid].state # "unused"

UnusedAreFresh == \A p \in Procs : proc[p].state = "unused" => ~proc[p].told
UsedHavePath == \A p \in Procs : proc[p].state # "unused" => proc[p].path \in Paths

AllOwned == \A p \in Procs : Running(p) /\ ~proc[p].told => Owned(p)

OwnInv == Types /\ SlotsFit /\ UiFits /\ UnusedAreFresh /\ UsedHavePath /\ AllOwned

-----------------------------------------------------------------------------
LEMMA Constants ==
  /\ Main \in Slots /\ Main \in Paths /\ "other" \in Paths /\ "other" \notin Slots
  /\ Slots \subseteq Paths /\ Inputs \subseteq Paths /\ 0 \notin Procs /\ Main # "other"
  BY DashboardAssumption DEF Slots, Paths, Procs, Main

LEMMA FilesFacts ==
  ASSUME NEW s \in Slots
  PROVE  /\ FilesOf(s) \subseteq Paths
         /\ s # Main => s \in CmpSlots /\ FilesOf(s) = {s}
  BY Constants DEF FilesOf, Paths, Slots

(* A process grows older: it keeps its file, is not forgiven an interrupt,  *)
(* and does not rise from the dead.                                         *)
Older(p) ==
  /\ proc'[p].path = proc[p].path
  /\ Running(p)' => Running(p)
  /\ proc[p].told => proc'[p].told
  /\ proc'[p].state = "unused" <=> proc[p].state = "unused"
  /\ proc'[p].state = "unused" => proc'[p].told = proc[p].told

AllOlder == \A p \in Procs : Older(p)

(* What makes all of them older leaves the invariant alone, if the slots    *)
(* stay as they are.                                                        *)
LEMMA OlderKeeps ==
  ASSUME OwnInv, Types', AllOlder, slot' = slot, ui'.pid = ui.pid,
         ui' = ui \/ (ui'.at \notin Replacing /\ ui.at # "launched")
         \/ (ui.at \in Replacing /\ ui'.at \in Replacing /\ ui.at # "launched"
             /\ ui'.at # "launched" /\ ui'.slot = ui.slot /\ ui'.path = ui.path)
  PROVE  OwnInv'
<1>0. \A s \in Slots : slot[s].pid \in {0} \cup Procs
  BY DEF OwnInv, Types, SlotType
<1>1. SlotsFit'
  <2> SUFFICES ASSUME NEW s \in Slots, slot[s].pid # 0
               PROVE  /\ slot[s].path \in FilesOf(s) /\ proc'[slot[s].pid].path = slot[s].path
                      /\ proc'[slot[s].pid].state # "unused"
    BY DEF SlotsFit
  <2> QED
    BY <1>0 DEF OwnInv, SlotsFit, AllOlder, Older
<1>2. UiFits'
  <2>1. CASE ui' = ui
    BY <2>1 DEF OwnInv, UiFits, AllOlder, Older, Types, SlotType, UiType, Running
  <2>2. CASE ui'.at \notin Replacing /\ ui.at # "launched"
    BY <2>2 DEF OwnInv, UiFits, Replacing
  <2>3. CASE /\ ui.at \in Replacing /\ ui'.at \in Replacing /\ ui.at # "launched"
             /\ ui'.at # "launched" /\ ui'.slot = ui.slot /\ ui'.path = ui.path
    BY <2>3 DEF OwnInv, UiFits, AllOlder, Older, Types, SlotType, Running
  <2> QED
    BY <2>1, <2>2, <2>3
<1>3. UnusedAreFresh' /\ UsedHavePath'
  BY DEF OwnInv, UnusedAreFresh, UsedHavePath, AllOlder, Older
<1>4. AllOwned'
  BY DEF OwnInv, AllOwned, Owned, AllOlder, Older, Running
<1> QED
  BY <1>1, <1>2, <1>3, <1>4 DEF OwnInv

-----------------------------------------------------------------------------
(* The steps of a collector, and what the dashboard does to all of them or  *)
(* to one.                                                                  *)
LEMMA OneOlder ==
  ASSUME proc \in [Procs -> ProcType], NEW p \in Procs, NEW r \in ProcType,
         proc' = [proc EXCEPT ![p] = r],
         r.path = proc[p].path, r.told = proc[p].told \/ r.told = TRUE,
         r.state # "unused", proc[p].state # "unused",
         r.state \in Live => proc[p].state \in Live
  PROVE  proc' \in [Procs -> ProcType] /\ AllOlder
<1>1. proc'[p] = r /\ \A q \in Procs : q # p => proc'[q] = proc[q]
  OBVIOUS
<1> QED
  BY <1>1 DEF AllOlder, Older, Running

LEMMA Buffers == << >> \in Seq(Int) /\ <<Header>> \in Seq(Int)
  BY DEF Header

LEMMA WrittenType ==
  ASSUME Types, NEW p \in Procs, proc[p].path \in Paths
  PROVE  Written(p) \in [Paths -> FileType]
<1>1. file[proc[p].path] \in FileType /\ proc[p].buf \in Seq(Int)
  BY DEF Types, ProcType
<1>2. file[proc[p].path].lines \in Seq(Int) /\ file[proc[p].path].lines \o proc[p].buf \in Seq(Int)
  BY <1>1 DEF FileType
<1>3. \A l \in Seq(Int) : [file[proc[p].path] EXCEPT !.lines = l] \in FileType
  BY <1>1 DEF FileType
<1> QED
  BY <1>2, <1>3 DEF Written, Types

LEMMA CollectorStep ==
  ASSUME OwnInv, NEW p \in Procs,
         OpenFile(p) \/ Die(p) \/ Collect(p) \/ Flush(p) \/ Finish(p)
  PROVE  OwnInv'
<1>0. /\ proc \in [Procs -> ProcType] /\ proc[p] \in ProcType
      /\ file \in [Paths -> FileType] /\ slot' = slot /\ ui' = ui /\ selected' = selected
  BY DEF OwnInv, Types, OpenFile, Die, Collect, Flush, Finish
<1>1. proc[p].state # "unused" /\ proc[p].path \in Paths
  BY DEF OpenFile, Die, Collect, Flush, Finish, Running, Live, OwnInv, UsedHavePath
<1>2. file[proc[p].path] \in FileType
  BY <1>0, <1>1
<1>3. CASE OpenFile(p)
  <2> DEFINE r == [proc[p] EXCEPT !.state = "collecting", !.inode = file[proc[p].path].inode,
                     !.buf = IF file[proc[p].path].lines = << >> THEN <<Header>> ELSE << >>]
  <2>1. r \in ProcType /\ r.path = proc[p].path /\ r.told = proc[p].told /\ r.state = "collecting"
    BY <1>0, <1>2, Buffers DEF ProcType, FileType
  <2>2. proc' = [proc EXCEPT ![p] = r] /\ proc[p].state \in Live
    BY <1>0, <1>3 DEF OpenFile, Live
  <2> HIDE DEF r
  <2>3. proc' \in [Procs -> ProcType] /\ AllOlder
    BY <1>0, <1>1, <2>1, <2>2, OneOlder
  <2>4. file' \in [Paths -> FileType]
    BY <1>0, <1>2, <1>3 DEF OpenFile, FileType
  <2> QED
    BY <1>0, <2>3, <2>4, OlderKeeps DEF Types, OwnInv
<1>4. CASE Die(p)
  <2> DEFINE r == [proc[p] EXCEPT !.state = "zombie", !.buf = << >>]
  <2>1. r \in ProcType /\ r.path = proc[p].path /\ r.told = proc[p].told /\ r.state = "zombie"
    BY <1>0, Buffers DEF ProcType
  <2>2. proc' = [proc EXCEPT ![p] = r] /\ file' = file
    BY <1>0, <1>4 DEF Die
  <2> HIDE DEF r
  <2>3. proc' \in [Procs -> ProcType] /\ AllOlder
    BY <1>0, <1>1, <2>1, <2>2, OneOlder DEF Live
  <2> QED
    BY <1>0, <2>2, <2>3, OlderKeeps DEF Types, OwnInv
<1>5. CASE Collect(p)
  <2> DEFINE r == [proc[p] EXCEPT !.rows = @ + 1, !.buf = Append(@, p)]
  <2>1. r \in ProcType /\ r.path = proc[p].path /\ r.told = proc[p].told
        /\ r.state = proc[p].state
    <3>1. proc[p].rows + 1 \in Int /\ Append(proc[p].buf, p) \in Seq(Int)
      <4>1. proc[p].rows \in Int /\ proc[p].buf \in Seq(Int)
        BY <1>0 DEF ProcType
      <4>2. p \in Int
        BY DashboardAssumption DEF Procs
      <4> QED
        BY <4>1, <4>2
    <3> QED
      BY <1>0, <3>1 DEF ProcType
  <2>2. proc' = [proc EXCEPT ![p] = r] /\ file' = file
    BY <1>5 DEF Collect
  <2> HIDE DEF r
  <2>3. proc' \in [Procs -> ProcType] /\ AllOlder
    BY <1>0, <1>1, <2>1, <2>2, OneOlder
  <2> QED
    BY <1>0, <2>2, <2>3, OlderKeeps DEF Types, OwnInv
<1>6. CASE Flush(p)
  <2> DEFINE r == [proc[p] EXCEPT !.buf = << >>]
  <2>1. r \in ProcType /\ r.path = proc[p].path /\ r.told = proc[p].told
        /\ r.state = proc[p].state
    BY <1>0, Buffers DEF ProcType
  <2>2. proc' = [proc EXCEPT ![p] = r] /\ file' \in [Paths -> FileType]
    BY <1>0, <1>1, <1>6, WrittenType DEF Flush, OwnInv
  <2> HIDE DEF r
  <2>3. proc' \in [Procs -> ProcType] /\ AllOlder
    BY <1>0, <1>1, <2>1, <2>2, OneOlder
  <2> QED
    BY <1>0, <2>2, <2>3, OlderKeeps DEF Types, OwnInv
<1>7. CASE Finish(p)
  <2> DEFINE r == [proc[p] EXCEPT !.state = "zombie", !.buf = << >>]
  <2>1. r \in ProcType /\ r.path = proc[p].path /\ r.told = proc[p].told /\ r.state = "zombie"
    BY <1>0, Buffers DEF ProcType
  <2>2. proc' = [proc EXCEPT ![p] = r] /\ file' \in [Paths -> FileType]
    BY <1>0, <1>1, <1>7, WrittenType DEF Finish, OwnInv
  <2> HIDE DEF r
  <2>3. proc' \in [Procs -> ProcType] /\ AllOlder
    BY <1>0, <1>1, <2>1, <2>2, OneOlder DEF Live
  <2> QED
    BY <1>0, <2>2, <2>3, OlderKeeps DEF Types, OwnInv
<1> QED
  BY <1>3, <1>4, <1>5, <1>6, <1>7

-----------------------------------------------------------------------------
LEMMA AskedOlder ==
  ASSUME Types, proc' \in {proc, Reaped}
  PROVE  proc' \in [Procs -> ProcType] /\ AllOlder
<1>1. proc \in [Procs -> ProcType]
  BY DEF Types
<1>2. CASE proc' = proc
  BY <1>1, <1>2 DEF AllOlder, Older, Running
<1>3. CASE proc' = Reaped
  <2>1. ASSUME NEW p \in Procs
        PROVE  proc'[p] \in ProcType /\ Older(p)
    <3>1. proc[p] \in ProcType
      BY <1>1
    <3>2. CASE proc[p].state = "zombie"
      <4>1. proc'[p] = [proc[p] EXCEPT !.state = "gone"]
        BY <1>3, <3>2 DEF Reaped
      <4>2. proc'[p] \in ProcType /\ proc'[p].path = proc[p].path
            /\ proc'[p].told = proc[p].told /\ proc'[p].state = "gone"
        BY <3>1, <4>1 DEF ProcType
      <4> QED
        BY <3>2, <4>2 DEF Older, Running, Live
    <3>3. CASE proc[p].state # "zombie"
      <4>1. proc'[p] = proc[p]
        BY <1>3, <3>3 DEF Reaped
      <4> QED
        BY <3>1, <4>1 DEF Older, Running
    <3> QED
      BY <3>2, <3>3
  <2>2. proc' = [p \in Procs |-> proc'[p]]
    BY <1>3 DEF Reaped
  <2> QED
    BY <2>1, <2>2 DEF AllOlder
<1> QED
  BY <1>2, <1>3

(* An interrupted collector is told, or does not run any more. *)
LEMMA InterruptedOlder ==
  ASSUME Types, NEW p \in Procs, proc' \in Interrupted(p), proc[p].state # "unused"
  PROVE  /\ proc' \in [Procs -> ProcType] /\ AllOlder
         /\ Running(p)' => proc'[p].told
<1>0. proc \in [Procs -> ProcType] /\ proc[p] \in ProcType
  BY DEF Types
<1> DEFINE t == [proc[p] EXCEPT !.told = TRUE]
           z == [t EXCEPT !.state = "zombie"]
<1>1. /\ t \in ProcType /\ t.path = proc[p].path /\ t.told = TRUE /\ t.state = proc[p].state
      /\ z \in ProcType /\ z.path = proc[p].path /\ z.told = TRUE /\ z.state = "zombie"
  BY <1>0 DEF ProcType
<1>2. \/ proc' = [proc EXCEPT ![p] = t]
      \/ proc' = [proc EXCEPT ![p] = z]
      \/ proc' = proc /\ ~Running(p)
  BY <1>0 DEF Interrupted, Running, Live
<1> HIDE DEF t, z
<1>3. CASE proc' = [proc EXCEPT ![p] = t]
  <2>1. proc'[p] = t
    BY <1>0, <1>3
  <2> QED
    BY <1>0, <1>1, <1>3, <2>1, OneOlder
<1>4. CASE proc' = [proc EXCEPT ![p] = z]
  <2>1. proc'[p] = z
    BY <1>0, <1>4
  <2> QED
    BY <1>0, <1>1, <1>4, <2>1, OneOlder DEF Live
<1>5. CASE proc' = proc /\ ~Running(p)
  BY <1>0, <1>5 DEF AllOlder, Older, Running
<1> QED
  BY <1>2, <1>3, <1>4, <1>5

(* A slot whose collector does not run, or is told to end, can be emptied. *)
LEMMA EmptiedKeeps ==
  ASSUME OwnInv, Types', AllOlder, NEW E \in SUBSET Slots,
         \A s \in Slots \ E : slot'[s] = slot[s],
         \A s \in E : /\ slot'[s].pid = 0
                      /\ \/ slot[s].pid = 0
                         \/ proc'[slot[s].pid].state \notin Live
                         \/ proc'[slot[s].pid].told,
         ui'.pid = ui.pid,
         \/ ui' = ui
         \/ ui'.at \notin Replacing /\ ui.at # "launched"
         \/ /\ ui.at # "launched" /\ ui'.at \in Replacing \ {"launched"}
            /\ ui'.slot = Main /\ Main \in E /\ ui'.path \in FilesOf(Main)
  PROVE  OwnInv'
<1>0. \A s \in Slots : slot[s].pid \in {0} \cup Procs
  BY DEF OwnInv, Types, SlotType
<1>1. SlotsFit'
  <2> SUFFICES ASSUME NEW s \in Slots, slot'[s].pid # 0
               PROVE  /\ slot'[s].path \in FilesOf(s) /\ proc'[slot'[s].pid].path = slot'[s].path
                      /\ proc'[slot'[s].pid].state # "unused"
    BY DEF SlotsFit
  <2>1. s \notin E /\ slot'[s] = slot[s]
    OBVIOUS
  <2> QED
    BY <1>0, <2>1 DEF OwnInv, SlotsFit, AllOlder, Older
<1>2. UiFits'
  <2>1. CASE ui' = ui
    <3>1. CASE ui.at \in Replacing
      <4>1. ui.slot \in Slots /\ (slot[ui.slot].pid # 0 => ~Running(slot[ui.slot].pid))
        BY <3>1 DEF OwnInv, UiFits
      <4>2. slot'[ui.slot].pid # 0 =>
              slot'[ui.slot].pid \in Procs /\ proc'[slot'[ui.slot].pid].state \notin Live
        <5>1. slot'[ui.slot].pid # 0 => slot'[ui.slot] = slot[ui.slot]
          BY <4>1
        <5> QED
          BY <1>0, <4>1, <5>1 DEF AllOlder, Older, Running
      <4>3. ui.at = "launched" => ui.pid \in Procs
        BY DEF OwnInv, UiFits, Types, UiType
      <4> QED
        BY <2>1, <4>2, <4>3 DEF OwnInv, UiFits, AllOlder, Older, Running
    <3>2. CASE ui.at \notin Replacing
      BY <2>1, <3>2 DEF OwnInv, UiFits, Replacing
    <3> QED
      BY <3>1, <3>2
  <2>2. CASE ui'.at \notin Replacing /\ ui.at # "launched"
    BY <2>2 DEF OwnInv, UiFits, Replacing
  <2>3. CASE /\ ui.at # "launched" /\ ui'.at \in Replacing \ {"launched"}
             /\ ui'.slot = Main /\ Main \in E /\ ui'.path \in FilesOf(Main)
    BY <2>3, Constants DEF OwnInv, UiFits
  <2> QED
    BY <2>1, <2>2, <2>3
<1>3. UnusedAreFresh' /\ UsedHavePath'
  BY DEF OwnInv, UnusedAreFresh, UsedHavePath, AllOlder, Older
<1>4. AllOwned'
  <2> SUFFICES ASSUME NEW p \in Procs, Running(p)', ~proc'[p].told
               PROVE  Owned(p)'
    BY DEF AllOwned
  <2>1. Owned(p) /\ p # 0 /\ proc'[p].state \in Live
    BY Constants DEF OwnInv, AllOwned, AllOlder, Older, Running
  <2>2. ASSUME NEW s \in Slots, slot[s].pid = p PROVE slot'[s].pid = p
    <3>1. s \notin E
      BY <2>1, <2>2
    <3> QED
      BY <2>2, <3>1
  <2> QED
    BY <2>1, <2>2 DEF Owned
<1> QED
  BY <1>1, <1>2, <1>3, <1>4 DEF OwnInv

-----------------------------------------------------------------------------
(* A handler that stops a collector. *)
LEMMA Stopped ==
  ASSUME OwnInv, NEW s \in Slots, Stop(s)
  PROVE  /\ proc' \in [Procs -> ProcType] /\ AllOlder /\ slot' \in [Slots -> SlotType]
         /\ \A t \in Slots \ {s} : slot'[t] = slot[t]
         /\ slot'[s].pid = 0
         /\ \/ slot[s].pid = 0
            \/ proc'[slot[s].pid].state \notin Live
            \/ proc'[slot[s].pid].told
<1>0. /\ slot \in [Slots -> SlotType] /\ slot[s] \in SlotType /\ proc \in [Procs -> ProcType]
      /\ slot[s].pid \in {0} \cup Procs
  BY DEF OwnInv, Types, SlotType
<1>1. EmptySlot \in SlotType /\ EmptySlot.pid = 0 /\ [slot[s] EXCEPT !.pid = 0] \in SlotType
  BY <1>0 DEF EmptySlot, SlotType
<1>2. CASE Alive(s)
  <2>1. /\ slot[s].pid \in Procs /\ proc' \in Interrupted(slot[s].pid)
        /\ slot' = [slot EXCEPT ![s] = EmptySlot] /\ proc[slot[s].pid].state # "unused"
    BY <1>0, <1>2 DEF Stop, Alive, IsAlive, Live
  <2>2. PICK q \in Procs : q = slot[s].pid
    BY <2>1
  <2>3. /\ proc' \in [Procs -> ProcType] /\ AllOlder
        /\ proc'[q].state \in Live => proc'[q].told
    BY <2>1, <2>2, InterruptedOlder DEF OwnInv, Running
  <2> QED
    BY <1>0, <1>1, <2>1, <2>2, <2>3
<1>3. CASE ~Alive(s)
  <2>1. slot' = [slot EXCEPT ![s].pid = 0] /\ proc' = proc
    BY <1>3 DEF Stop
  <2>2. slot[s].pid = 0 \/ proc[slot[s].pid].state \notin Live
    BY <1>3 DEF Alive, IsAlive
  <2> QED
    BY <1>0, <1>1, <2>1, <2>2 DEF AllOlder, Older, Running
<1> QED
  BY <1>2, <1>3

LEMMA Handlers ==
  ASSUME OwnInv
  PROVE  /\ Idle \in UiType /\ Reload \in UiType /\ Idle.at = "idle" /\ Reload.at = "reload"
         /\ Idle.pid = 0 /\ Reload.pid = 0
         /\ \A nice \in BOOLEAN : After(nice) \in {Idle, Reload}
         /\ "idle" \notin Replacing /\ "reload" \notin Replacing
<1>1. Idle \in UiType /\ Idle.at = "idle" /\ Idle.pid = 0
  BY DEF Idle, UiType
<1>2. Reload \in UiType /\ Reload.at = "reload" /\ Reload.pid = 0
  BY <1>1 DEF Idle, Reload, UiType
<1> QED
  BY <1>1, <1>2 DEF After, Replacing

LEMMA StopSlotStep ==
  ASSUME OwnInv, NEW s \in Slots, StopSlot(s)
  PROVE  OwnInv'
<1>1. Stop(s) /\ file' = file /\ ui' = ui /\ selected' = selected
  BY DEF StopSlot
<1>2. Types'
  BY <1>1, Stopped DEF OwnInv, Types
<1>3. {s} \in SUBSET Slots
  OBVIOUS
<1>4. AllOlder /\ slot'[s].pid = 0 /\ \A t \in Slots \ {s} : slot'[t] = slot[t]
  BY <1>1, Stopped
<1>5. \/ slot[s].pid = 0
      \/ proc'[slot[s].pid].state \notin Live
      \/ proc'[slot[s].pid].told
  BY <1>1, Stopped
<1> QED
  BY <1>1, <1>2, <1>3, <1>4, <1>5, EmptiedKeeps

LEMMA StopForNiceStep ==
  ASSUME OwnInv, StopForNice
  PROVE  OwnInv'
<1>0. /\ ui.at = "niced" /\ file' = file /\ selected' = selected /\ ui \in UiType
      /\ ui.pid = 0 /\ selected \in Nat /\ slot \in [Slots -> SlotType]
  BY DEF StopForNice, OwnInv, Types, UiFits
<1>1. CASE /\ ForProcess /\ Stop(Main)
           /\ ui' = [at |-> "truncate", slot |-> Main, pid |-> 0, target |-> selected,
                     path |-> slot[Main].path, nice |-> TRUE, before |-> ui.before]
  <2>1. slot[Main].pid # 0 /\ slot[Main].path \in FilesOf(Main)
    BY <1>1, Constants DEF ForProcess, Alive, IsAlive, OwnInv, SlotsFit
  <2>2. ui' \in UiType
    <3>1. slot[Main].path \in Paths /\ ui.before \in SUBSET Procs /\ Main \in Slots
      BY <1>0, <2>1, Constants, FilesFacts DEF UiType
    <3> QED
      BY <1>0, <1>1, <3>1, Constants DEF UiType
  <2>3. Types'
    BY <1>0, <1>1, <2>2, Constants, Stopped DEF OwnInv, Types
  <2>4. /\ AllOlder /\ slot'[Main].pid = 0 /\ \A t \in Slots \ {Main} : slot'[t] = slot[t]
        /\ \/ slot[Main].pid = 0
           \/ proc'[slot[Main].pid].state \notin Live
           \/ proc'[slot[Main].pid].told
    BY <1>1, Constants, Stopped
  <2>5. ui'.at = "truncate" /\ ui'.pid = 0 /\ ui'.slot = Main /\ ui'.path \in FilesOf(Main)
    BY <1>1, <2>1
  <2>6. /\ {Main} \in SUBSET Slots /\ \A t \in {Main} : t = Main
        /\ "truncate" \in Replacing \ {"launched"}
    BY Constants DEF Replacing
  <2> QED
    BY <1>0, <2>3, <2>4, <2>5, <2>6, EmptiedKeeps
<1>2. CASE ui' = Reload /\ slot' = slot /\ proc' = proc
  <2>1. Types' /\ AllOlder
    BY <1>0, <1>2, Handlers DEF OwnInv, Types, AllOlder, Older, Running
  <2> QED
    BY <1>0, <1>2, <2>1, Handlers, OlderKeeps
<1> QED
  BY <1>1, <1>2 DEF StopForNice

LEMMA TruncateStep ==
  ASSUME OwnInv, TruncateFile
  PROVE  OwnInv'
<1>0. /\ ui.at = "truncate" /\ slot' = slot /\ proc' = proc /\ selected' = selected
      /\ ui \in UiType /\ ui.pid = 0 /\ file \in [Paths -> FileType] /\ AllOlder
  BY DEF TruncateFile, OwnInv, Types, UiFits, AllOlder, Older, Running
<1>1. CASE /\ file' = [file EXCEPT ![ui.path].exists = TRUE, ![ui.path].lines = << >>]
           /\ ui' = [ui EXCEPT !.at = "header", !.before = {}]
  <2>1. file' \in [Paths -> FileType]
    BY <1>0, <1>1, Buffers DEF FileType
  <2>2. /\ ui' \in UiType /\ ui'.at = "header" /\ ui'.pid = 0
        /\ ui'.slot = ui.slot /\ ui'.path = ui.path
    BY <1>0, <1>1 DEF UiType
  <2>3. Types'
    BY <1>0, <2>1, <2>2 DEF OwnInv, Types
  <2>4. "truncate" \in Replacing /\ "header" \in Replacing
    BY DEF Replacing
  <2> QED
    BY <1>0, <2>2, <2>3, <2>4, OlderKeeps
<1>2. CASE ui' = Reload /\ file' = file
  <2>1. Types'
    BY <1>0, <1>2, Handlers DEF OwnInv, Types
  <2> QED
    BY <1>0, <1>2, <2>1, Handlers, OlderKeeps
<1> QED
  BY <1>1, <1>2 DEF TruncateFile

LEMMA WriteHeaderStep ==
  ASSUME OwnInv, WriteHeader
  PROVE  OwnInv'
<1>0. /\ ui.at = "header" /\ slot' = slot /\ proc' = proc /\ selected' = selected
      /\ ui' = [ui EXCEPT !.at = "spawn"] /\ ui.path \in Paths
      /\ ui \in UiType /\ ui.pid = 0 /\ file \in [Paths -> FileType] /\ AllOlder
  BY FilesFacts DEF WriteHeader, OwnInv, Types, UiFits, AllOlder, Older, Running, Replacing
<1>1. file' \in [Paths -> FileType]
  <2> DEFINE L == file[ui.path].lines
             rest == IF Len(L) > 1 THEN [Tail(L) EXCEPT ![1] = Damaged] ELSE << >>
  <2>1. L \in Seq(Int) /\ file[ui.path] \in FileType
    BY <1>0 DEF FileType
  <2>2. rest \in Seq(Int)
    <3>1. CASE Len(L) > 1
      <4>1. Tail(L) \in Seq(Int) /\ 1 \in 1 .. Len(Tail(L)) /\ Damaged \in Int
        BY <2>1, <3>1 DEF Damaged
      <4> HIDE DEF L
      <4>2. [Tail(L) EXCEPT ![1] = Damaged] \in Seq(Int)
        BY <4>1, ExceptSeq
      <4> QED
        BY <3>1, <4>2
    <3>2. CASE ~(Len(L) > 1)
      BY <3>2, Buffers
    <3> QED
      BY <3>1, <3>2
  <2>3. file' = [file EXCEPT ![ui.path].lines = <<Header>> \o rest]
    BY DEF WriteHeader
  <2> HIDE DEF L, rest
  <2>4. <<Header>> \o rest \in Seq(Int)
    BY <2>2, Buffers
  <2>5. [file[ui.path] EXCEPT !.lines = <<Header>> \o rest] \in FileType
    BY <2>1, <2>4 DEF FileType
  <2> QED
    BY <1>0, <2>3, <2>5
<1>2. /\ ui' \in UiType /\ ui'.at = "spawn" /\ ui'.pid = 0
      /\ ui'.slot = ui.slot /\ ui'.path = ui.path
  BY <1>0 DEF UiType
<1>3. Types'
  BY <1>0, <1>1, <1>2 DEF OwnInv, Types
<1>4. "spawn" \in Replacing /\ "header" \in Replacing
  BY DEF Replacing
<1> QED
  BY <1>0, <1>2, <1>3, <1>4, OlderKeeps

(* Listing processes reaps, and empties the slots of those that are gone. *)
LEMMA LoadDataKeeps ==
  ASSUME OwnInv, LoadData, file' = file, selected' = selected, ui.at # "launched",
         ui' \in {ui, Idle}
  PROVE  OwnInv'
<1>0. /\ slot \in [Slots -> SlotType] /\ proc' \in {proc, Reaped} /\ Types /\ ui.pid = 0
      /\ ui \in UiType /\ \A s \in Slots : slot[s] \in SlotType
  BY DEF OwnInv, Types, LoadData, Asked, UiFits
<1>1. proc' \in [Procs -> ProcType] /\ AllOlder
  BY <1>0, AskedOlder
<1> DEFINE E == {s \in Slots : slot[s].pid # 0 /\ proc'[slot[s].pid].state = "gone"}
<1>2. \A s \in Slots : slot'[s] = IF s \in E THEN [slot[s] EXCEPT !.pid = 0] ELSE slot[s]
  BY DEF LoadData
<1>3. \A s \in Slots : [slot[s] EXCEPT !.pid = 0] \in SlotType
  BY <1>0 DEF SlotType
<1>4. slot' \in [Slots -> SlotType]
  <2>1. slot' = [s \in Slots |-> slot'[s]]
    BY DEF LoadData
  <2> QED
    BY <1>0, <1>2, <1>3, <2>1
<1>5. \A s \in E : slot'[s].pid = 0 /\ proc'[slot[s].pid].state \notin Live
  BY <1>0, <1>2 DEF Live, SlotType
<1>6. E \in SUBSET Slots /\ \A s \in Slots \ E : slot'[s] = slot[s]
  BY <1>2
<1>7. Types'
  BY <1>0, <1>1, <1>4, Handlers DEF OwnInv, Types
<1>8. ui'.pid = ui.pid /\ (ui' = ui \/ ui'.at \notin Replacing)
  BY <1>0, Handlers
<1> HIDE DEF E
<1> QED
  BY <1>0, <1>1, <1>5, <1>6, <1>7, <1>8, EmptiedKeeps

(* The steps that leave the slots as they are, and at most reap. *)
LEMMA QuietStep ==
  ASSUME OwnInv, UNCHANGED <<slot, file>>, proc' \in {proc, Reaped}, selected' \in Nat,
         \/ ui' = ui
         \/ ui = Idle /\ ui' \in UiType /\ ui'.pid = 0 /\ ui'.at \notin Replacing
  PROVE  OwnInv'
<1>1. proc' \in [Procs -> ProcType] /\ AllOlder /\ Types'
  BY AskedOlder DEF OwnInv, Types
<1> QED
  BY <1>1, Handlers, OlderKeeps

LEMMA ApplyNiceStep ==
  ASSUME OwnInv, ApplyNice
  PROVE  OwnInv'
<1> DEFINE u == [Idle EXCEPT !.at = "niced", !.before = Buffering]
<1>1. Buffering \in SUBSET Procs
  BY DEF Buffering
<1>2. u \in UiType /\ u.pid = 0 /\ u.at = "niced"
  BY <1>1, Handlers DEF UiType
<1>3. /\ slot' = slot /\ file' = file /\ ui = Idle /\ ui' \in {Idle, u}
      /\ proc' \in {proc, Reaped} /\ selected' \in Nat
  BY DEF ApplyNice, Asked, OwnInv, Types
<1>4. "niced" \notin Replacing
  BY DEF Replacing
<1> HIDE DEF u
<1> QED
  BY <1>2, <1>3, <1>4, QuietStep

-----------------------------------------------------------------------------
(* A new collector is a process that was not used before. *)
LEMMA Least ==
  ASSUME NEW T, T \subseteq Nat, T # {}
  PROVE  \E x \in T : \A y \in T : x <= y
<1>1. IsWellFoundedOn(OpToRel(<, Nat), Nat)
  BY NatLessThanWellFounded
<1> DEFINE R == OpToRel(<, Nat)
<1>2. \A x, y \in Nat : <<x, y>> \in R <=> x < y
  BY DEF OpToRel
<1> HIDE DEF R
<1>3. IsWellFoundedOn(R, Nat)
  BY <1>1 DEF R
<1>4. PICK x \in T : \A y \in T : ~(<<y, x>> \in R)
  BY <1>3, WFMin
<1>5. ASSUME NEW y \in T PROVE x <= y
  <2>1. x \in Nat /\ y \in Nat /\ ~(<<y, x>> \in R)
    BY <1>4
  <2>2. ~(y < x)
    BY <1>2, <2>1
  <2> QED
    BY <2>1, <2>2
<1> QED
  BY <1>5

LEMMA NextProcFree ==
  ASSUME Types, \E p \in Procs : proc[p].state = "unused"
  PROVE  NextProc \in Procs /\ proc[NextProc].state = "unused"
<1> DEFINE T == {p \in Procs : proc[p].state = "unused"}
<1>1. T \subseteq Nat /\ T # {}
  BY DashboardAssumption DEF Procs
<1> HIDE DEF T
<1>2. PICK p \in T : \A q \in T : p <= q
  BY <1>1, Least
<1>3. p \in Procs /\ proc[p].state = "unused"
  BY DEF T
<1>4. ASSUME NEW q \in 1 .. (p - 1) PROVE proc[q].state # "unused"
  <2>1. q \in Procs /\ ~(p <= q)
    BY <1>3, DashboardAssumption DEF Procs
  <2>2. q \notin T
    BY <1>2, <2>1
  <2> QED
    BY <2>1, <2>2 DEF T
<1> QED
  BY <1>3, <1>4 DEF NextProc

LEMMA SpawnKeeps ==
  ASSUME OwnInv, NEW s \in Slots, NEW target \in Nat, NEW path \in FilesOf(s),
         NEW nice \in BOOLEAN, Spawn(s, target, path, nice),
         ui.at # "launched", slot[s].pid # 0 => ~Running(slot[s].pid),
         slot' = slot, selected' = selected, file' \in [Paths -> FileType]
  PROVE  OwnInv'
<1>0. /\ proc \in [Procs -> ProcType] /\ slot \in [Slots -> SlotType] /\ ui.pid = 0
      /\ selected \in Nat /\ path \in Paths /\ \A t \in Slots : slot[t].pid \in {0} \cup Procs
  BY FilesFacts DEF OwnInv, Types, SlotType, UiFits
<1>1. CASE proc' \in {proc, Reaped} /\ ui' = After(nice)
  <2>1. proc' \in [Procs -> ProcType] /\ AllOlder
    BY <1>1, AskedOlder DEF OwnInv
  <2>2. ui' \in UiType /\ ui'.pid = 0 /\ ui'.at \notin Replacing
    BY <1>1, Handlers
  <2>3. Types'
    BY <1>0, <2>1, <2>2 DEF OwnInv, Types
  <2> QED
    BY <1>0, <2>1, <2>2, <2>3, OlderKeeps
<1>2. CASE /\ \E p \in Procs : proc[p].state = "unused"
           /\ proc' = [Reaped EXCEPT ![NextProc].state = "starting", ![NextProc].path = path]
           /\ ui' = [at |-> "launched", slot |-> s, pid |-> NextProc, target |-> target,
                     path |-> path, nice |-> nice, before |-> {}]
  <2>1. PICK n \in Procs : n = NextProc /\ proc[n].state = "unused"
    BY <1>2, NextProcFree DEF OwnInv
  <2>2. /\ Reaped \in [Procs -> ProcType] /\ Reaped[n] = proc[n]
        /\ \A q \in Procs : /\ Reaped[q].path = proc[q].path /\ Reaped[q].told = proc[q].told
                            /\ Reaped[q].state \in Live => proc[q].state \in Live
                            /\ Reaped[q].state = "unused" <=> proc[q].state = "unused"
    <3>1. ASSUME NEW q \in Procs, proc[q].state # "zombie"
          PROVE  Reaped[q] = proc[q]
      BY <3>1 DEF Reaped
    <3>2. ASSUME NEW q \in Procs, proc[q].state = "zombie"
          PROVE  /\ Reaped[q] \in ProcType /\ Reaped[q].path = proc[q].path
                 /\ Reaped[q].told = proc[q].told /\ Reaped[q].state = "gone"
      <4>1. Reaped[q] = [proc[q] EXCEPT !.state = "gone"] /\ proc[q] \in ProcType
        BY <1>0, <3>2 DEF Reaped
      <4> QED
        BY <4>1 DEF ProcType
    <3>3. Reaped = [q \in Procs |-> Reaped[q]]
      BY DEF Reaped
    <3>4. Reaped \in [Procs -> ProcType]
      BY <1>0, <3>1, <3>2, <3>3
    <3> QED
      BY <2>1, <3>1, <3>2, <3>4 DEF Live
  <2>3. /\ proc' \in [Procs -> ProcType]
        /\ proc'[n].state = "starting" /\ proc'[n].path = path /\ proc'[n].told = proc[n].told
        /\ \A q \in Procs : q # n => proc'[q] = Reaped[q]
    <3> DEFINE r == [proc[n] EXCEPT !.state = "starting", !.path = path]
    <3>1. r \in ProcType /\ r.state = "starting" /\ r.path = path /\ r.told = proc[n].told
      BY <1>0 DEF ProcType
    <3>2. proc' = [Reaped EXCEPT ![n] = r]
      BY <1>2, <2>1, <2>2
    <3> HIDE DEF r
    <3> QED
      BY <2>2, <3>1, <3>2
  <2>4. /\ ui' \in UiType /\ ui'.at = "launched" /\ ui'.slot = s /\ ui'.pid = n /\ ui'.path = path
    BY <1>0, <1>2, <2>1 DEF UiType
  <2>5. Types'
    BY <1>0, <2>3, <2>4 DEF OwnInv, Types
  <2>6. \A q \in Procs : q # n => Older(q)
    BY <2>2, <2>3 DEF Older, Running
  <2>7. \A t \in Slots : slot[t].pid # 0 => slot[t].pid \in Procs /\ slot[t].pid # n
    BY <1>0, <2>1 DEF OwnInv, SlotsFit
  <2>8. SlotsFit'
    BY <2>6, <2>7 DEF OwnInv, SlotsFit, Older
  <2>9. UiFits'
    <3>1. slot[s].pid # 0 => proc'[slot[s].pid].state \notin Live
      BY <2>6, <2>7 DEF Older, Running
    <3>2. n # 0
      BY Constants
    <3> QED
      BY <2>3, <2>4, <3>1, <3>2 DEF UiFits, Running, Replacing
  <2>10. UnusedAreFresh' /\ UsedHavePath'
    BY <1>0, <2>3, <2>6 DEF OwnInv, UnusedAreFresh, UsedHavePath, Older
  <2>11. AllOwned'
    <3> SUFFICES ASSUME NEW q \in Procs, Running(q)', ~proc'[q].told PROVE Owned(q)'
      BY DEF AllOwned
    <3>1. CASE q = n
      BY <2>4, <3>1 DEF Owned
    <3>2. CASE q # n
      <4>1. Owned(q) /\ q # 0
        BY <2>6, <3>2, Constants DEF OwnInv, AllOwned, Older, Running
      <4> QED
        BY <1>0, <4>1 DEF Owned
    <3> QED
      BY <3>1, <3>2
  <2> QED
    BY <2>5, <2>8, <2>9, <2>10, <2>11 DEF OwnInv
<1> QED
  BY <1>1, <1>2 DEF Spawn

LEMMA StartMainStep ==
  ASSUME OwnInv, NEW input \in Inputs, NEW target, NEW reset \in BOOLEAN,
         StartMain(input, target, reset)
  PROVE  OwnInv'
<1>0. /\ ui = Idle /\ ~Alive(Main) /\ slot' = slot /\ selected' = selected /\ selected \in Nat
      /\ target \in Nat /\ file \in [Paths -> FileType] /\ Main \in Slots
  BY Constants DEF StartMain, OwnInv, Types
<1>1. \A files : Resolve(input, files) \in FilesOf(Main) /\ Resolve(input, files) \in Paths
  BY Constants DEF Resolve, FilesOf
<1>2. \A path \in Paths : Removed(path) \in [Paths -> FileType]
  <2> TAKE path \in Paths
  <2>1. file[path] \in FileType /\ file[path].inode + 1 \in Int
    BY <1>0 DEF FileType
  <2>2. [exists |-> FALSE, inode |-> file[path].inode + 1, lines |-> << >>] \in FileType
    BY <2>1, Buffers DEF FileType
  <2> QED
    BY <1>0, <2>2 DEF Removed
<1>3. file' \in [Paths -> FileType]
  BY <1>0, <1>1, <1>2 DEF StartMain
<1>4. PICK path \in FilesOf(Main) : path = Resolve(input, file')
  BY <1>1
<1>5. Spawn(Main, target, path, FALSE)
  BY <1>4 DEF StartMain
<1>6. ui.at # "launched" /\ (slot[Main].pid # 0 => ~Running(slot[Main].pid))
  BY <1>0, Handlers DEF Alive, IsAlive, Running
<1> QED
  BY <1>0, <1>3, <1>5, <1>6, SpawnKeeps

LEMMA StartCmpStep ==
  ASSUME OwnInv, NEW s \in CmpSlots, NEW target \in Targets, StartCmp(s, target)
  PROVE  OwnInv'
<1>0. /\ ui = Idle /\ ~Alive(s) /\ slot' = slot /\ selected' = selected
      /\ file' \in [Paths -> FileType] /\ Spawn(s, target, s, FALSE)
  BY DEF StartCmp, OwnInv, Types
<1>1. s \in Slots /\ target \in Nat /\ s \in FilesOf(s)
  BY DashboardAssumption DEF Slots, FilesOf
<1>2. ui.at # "launched" /\ (slot[s].pid # 0 => ~Running(slot[s].pid))
  BY <1>0, Handlers DEF Alive, IsAlive, Running
<1> QED
  BY <1>0, <1>1, <1>2, SpawnKeeps

LEMMA RespawnStep ==
  ASSUME OwnInv, Respawn
  PROVE  OwnInv'
<1>0. /\ ui.at = "spawn" /\ slot' = slot /\ selected' = selected /\ ui \in UiType
      /\ file' \in [Paths -> FileType] /\ Spawn(ui.slot, ui.target, ui.path, TRUE)
  BY DEF Respawn, OwnInv, Types
<1>1. /\ ui.slot \in Slots /\ ui.path \in FilesOf(ui.slot)
      /\ slot[ui.slot].pid # 0 => ~Running(slot[ui.slot].pid)
  BY <1>0 DEF OwnInv, UiFits, Replacing
<1>2. ui.target \in Nat
  BY <1>0 DEF UiType
<1> QED
  BY <1>0, <1>1, <1>2, SpawnKeeps

LEMMA LaunchedStep ==
  ASSUME OwnInv, Launched
  PROVE  OwnInv'
<1>0. /\ ui.at = "launched" /\ file' = file /\ selected' = selected /\ ui \in UiType
      /\ slot \in [Slots -> SlotType] /\ proc \in [Procs -> ProcType]
      /\ \A t \in Slots : slot[t].pid \in {0} \cup Procs
  BY DEF Launched, OwnInv, Types, SlotType
<1>1. PICK n \in Procs : n = ui.pid
  BY <1>0 DEF OwnInv, UiFits, UiType
<1>2. PICK s \in Slots : s = ui.slot
  BY <1>0 DEF OwnInv, UiFits, Replacing
<1>3. /\ ui.path \in FilesOf(s) /\ (slot[s].pid # 0 => ~Running(slot[s].pid))
      /\ proc[n].path = ui.path /\ proc[n].state # "unused" /\ n # 0
  BY <1>0, <1>1, <1>2 DEF OwnInv, UiFits, Replacing
<1>4. /\ ui' \in UiType /\ ui'.pid = 0 /\ ui'.at \notin Replacing
  <2>1. ui' = After(ui.nice) /\ ui.nice \in BOOLEAN
    BY <1>0 DEF Launched, UiType
  <2> QED
    BY <2>1, Handlers
<1>5. \A t \in Slots : t # s => slot'[t] = slot[t]
  BY <1>0, <1>2 DEF Launched
<1>6. /\ proc' \in [Procs -> ProcType] /\ AllOlder /\ slot' \in [Slots -> SlotType]
      /\ \/ slot'[s].pid = 0 /\ proc'[n].state \notin Live
         \/ slot'[s].pid = n /\ slot'[s].path = ui.path
  <2>1. CASE proc[n].state = "zombie"
    <3> DEFINE r == [proc[n] EXCEPT !.state = "gone"]
               e == [slot[s] EXCEPT !.pid = 0]
    <3>1. r \in ProcType /\ r.path = proc[n].path /\ r.told = proc[n].told /\ r.state = "gone"
      BY <1>0 DEF ProcType
    <3>2. e \in SlotType /\ e.pid = 0
      BY <1>0 DEF SlotType
    <3>3. proc' = [proc EXCEPT ![n] = r] /\ slot' = [slot EXCEPT ![s] = e]
      BY <1>1, <1>2, <2>1 DEF Launched
    <3> HIDE DEF r, e
    <3>4. proc' \in [Procs -> ProcType] /\ AllOlder
      BY <1>0, <1>3, <3>1, <3>3, OneOlder DEF Live
    <3> QED
      BY <1>0, <3>1, <3>2, <3>3, <3>4 DEF Live
  <2>2. CASE proc[n].state # "zombie"
    <3> DEFINE e == [pid |-> ui.pid, target |-> ui.target, path |-> ui.path]
    <3>1. e \in SlotType /\ e.pid = n /\ e.path = ui.path
      BY <1>0, <1>1 DEF SlotType, UiType
    <3>2. slot' = [slot EXCEPT ![s] = e] /\ proc' = proc
      BY <1>1, <1>2, <2>2 DEF Launched
    <3> HIDE DEF e
    <3> QED
      BY <1>0, <3>1, <3>2 DEF AllOlder, Older, Running
  <2> QED
    BY <2>1, <2>2
<1>7. Types'
  BY <1>0, <1>4, <1>6 DEF OwnInv, Types
<1>8. SlotsFit'
  <2> SUFFICES ASSUME NEW t \in Slots, slot'[t].pid # 0
               PROVE  /\ slot'[t].path \in FilesOf(t) /\ proc'[slot'[t].pid].path = slot'[t].path
                      /\ proc'[slot'[t].pid].state # "unused"
    BY DEF SlotsFit
  <2>1. CASE t = s
    BY <1>3, <1>6, <2>1 DEF AllOlder, Older
  <2>2. CASE t # s
    BY <1>0, <1>5, <1>6, <2>2 DEF OwnInv, SlotsFit, AllOlder, Older
  <2> QED
    BY <2>1, <2>2
<1>9. UiFits' /\ UnusedAreFresh' /\ UsedHavePath'
  BY <1>4, <1>6 DEF OwnInv, UiFits, UnusedAreFresh, UsedHavePath, AllOlder, Older, Replacing
<1>10. AllOwned'
  <2> SUFFICES ASSUME NEW q \in Procs, Running(q)', ~proc'[q].told PROVE Owned(q)'
    BY DEF AllOwned
  <2>1. Owned(q) /\ Running(q) /\ q # 0 /\ proc'[q].state \in Live
    BY <1>6, Constants DEF OwnInv, AllOwned, AllOlder, Older, Running
  <2>2. CASE ui.pid = q
    BY <1>1, <1>6, <2>1, <2>2 DEF Owned
  <2>3. CASE \E t \in Slots : slot[t].pid = q
    <3>1. PICK t \in Slots : slot[t].pid = q
      BY <2>3
    <3>2. t # s
      BY <1>3, <2>1, <3>1
    <3> QED
      BY <1>5, <3>1, <3>2 DEF Owned
  <2> QED
    BY <2>1, <2>2, <2>3 DEF Owned
<1> QED
  BY <1>7, <1>8, <1>9, <1>10 DEF OwnInv

-----------------------------------------------------------------------------
LEMMA OwnInit == Init => OwnInv
<1> SUFFICES ASSUME Init PROVE OwnInv
  OBVIOUS
<1>1. EmptySlot \in SlotType /\ EmptySlot.pid = 0
  BY DEF EmptySlot, SlotType
<1>2. Unused \in ProcType /\ Unused.state = "unused" /\ Unused.told = FALSE
  BY Buffers DEF Unused, ProcType
<1>3. file \in [Paths -> FileType]
  <2>1. <<Header, OldRow>> \in Seq(Int)
    BY DEF Header, OldRow
  <2>2. PICK old \in Before :
          file = [f \in Paths |-> [exists |-> f \in old, inode |-> 0,
                                   lines |-> IF f \in old THEN <<Header, OldRow>> ELSE << >>]]
    BY DEF Init
  <2>3. ASSUME NEW f \in Paths
        PROVE  [exists |-> f \in old, inode |-> 0,
                lines |-> IF f \in old THEN <<Header, OldRow>> ELSE << >>] \in FileType
    <3>1. (IF f \in old THEN <<Header, OldRow>> ELSE << >>) \in Seq(Int)
      BY <2>1, Buffers
    <3>2. (f \in old) \in BOOLEAN
      OBVIOUS
    <3> QED
      BY <3>1, <3>2 DEF FileType
  <2> QED
    BY <2>2, <2>3
<1>4. Types /\ ui.pid = 0 /\ ui.at = "idle"
  <2>1. Idle \in UiType /\ Idle.pid = 0 /\ Idle.at = "idle"
    BY DEF Idle, UiType
  <2> QED
    BY <1>1, <1>2, <1>3, <2>1 DEF Init, Types
<1>5. /\ \A s \in Slots : slot[s].pid = 0
      /\ \A p \in Procs : proc[p].state = "unused" /\ ~proc[p].told
  BY <1>1, <1>2 DEF Init
<1> QED
  BY <1>4, <1>5 DEF OwnInv, SlotsFit, UiFits, UnusedAreFresh, UsedHavePath, AllOwned, Replacing,
                    Running, Live

LEMMA OwnNext == OwnInv /\ [Next]_vars => OwnInv'
<1> SUFFICES ASSUME OwnInv, [Next]_vars PROVE OwnInv'
  OBVIOUS
<1>1. ASSUME NEW p \in Procs, OpenFile(p) \/ Die(p) \/ Collect(p) \/ Flush(p) \/ Finish(p)
      PROVE  OwnInv'
  BY <1>1, CollectorStep
<1>2. ASSUME NEW s \in Slots, StopSlot(s) PROVE OwnInv'
  BY <1>2, StopSlotStep
<1>3. ASSUME NEW f \in Inputs, NEW t \in Targets \cup {0}, NEW reset \in BOOLEAN,
             StartMain(f, t, reset)
      PROVE  OwnInv'
  BY <1>3, StartMainStep
<1>4. ASSUME NEW s \in CmpSlots, NEW t \in Targets, StartCmp(s, t) PROVE OwnInv'
  BY <1>4, StartCmpStep
<1>5. ASSUME NEW t \in Targets, Select(t) PROVE OwnInv'
  <2>1. t \in Nat
    BY DashboardAssumption
  <2> QED
    BY <1>5, <2>1, QuietStep DEF Select
<1>6. CASE Handler
  <2>1. CASE ReloadData
    <3>1. ui.at # "launched"
      BY <2>1, Handlers DEF ReloadData
    <3> QED
      BY <2>1, <3>1, LoadDataKeeps DEF ReloadData
  <2> QED
    BY <1>6, <2>1, LaunchedStep, StopForNiceStep, TruncateStep, WriteHeaderStep, RespawnStep
    DEF Handler
<1>7. CASE Refresh
  <2>1. ui.at # "launched"
    BY <1>7, Handlers DEF Refresh
  <2> QED
    BY <1>7, <2>1, LoadDataKeeps DEF Refresh
<1>8. CASE ApplyNice
  BY <1>8, ApplyNiceStep
<1>9. CASE ListProcesses \/ Quit \/ UNCHANGED vars
  <2>1. UNCHANGED <<slot, file, ui, selected>> /\ proc' \in {proc, Reaped} /\ selected \in Nat
    BY <1>9 DEF ListProcesses, Asked, Quit, vars, OwnInv, Types
  <2> QED
    BY <2>1, QuietStep
<1> QED
  BY <1>1, <1>2, <1>3, <1>4, <1>5, <1>6, <1>7, <1>8, <1>9 DEF Next

LEMMA AlwaysOwn == Spec => []OwnInv
  BY OwnInit, OwnNext, PTL DEF Spec

-----------------------------------------------------------------------------
(* Whatever is started, stopped, restarted for a nice value, listed or      *)
(* reaped, and whichever collectors die in between, as long as the          *)
(* dashboard runs a collector that runs and was not interrupted is that of  *)
(* a slot, where it can be stopped, or is being launched for one.           *)
THEOREM NeverOrphaned == Spec => []NoOrphans
<1>1. OwnInv => NoOrphans
  BY DEF OwnInv, AllOwned, NoOrphans
<1> QED
  BY <1>1, AlwaysOwn, PTL

(* Two collectors that run and were not interrupted write the same file     *)
(* only if one is the main one, started on the file of a compare slot, and  *)
(* the other is that slot's: they are of different slots, and no compare    *)
(* slot has a collector on another file than its own.                       *)
THEOREM SharedIfTyped == Spec => []SharedOnlyIfTyped
<1>1. OwnInv => SharedOnlyIfTyped
  <2> SUFFICES ASSUME OwnInv, NEW p \in Procs, NEW q \in Procs, p # q,
                      Writing(p), Writing(q), proc[p].path = proc[q].path
               PROVE  \E s \in CmpSlots :
                        /\ s = proc[p].path
                        /\ \/ RunsFor(p, s) /\ RunsFor(q, Main)
                           \/ RunsFor(p, Main) /\ RunsFor(q, s)
    BY DEF SharedOnlyIfTyped
  <2>0. /\ Running(p) /\ ~proc[p].told /\ Running(q) /\ ~proc[q].told
    BY DEF Writing, Running, Live
  <2> DEFINE In(r, s) == /\ proc[r].path \in FilesOf(s)
                         /\ \/ slot[s].pid = r
                            \/ ui.pid = r /\ ui.slot = s /\ ui.at = "launched"
  <2>1. ASSUME NEW r \in Procs, Running(r), ~proc[r].told
        PROVE  \E s \in Slots : In(r, s)
    <3>1. Owned(r) /\ r # 0
      BY <2>1, Constants DEF OwnInv, AllOwned
    <3>2. CASE ui.pid = r
      BY <3>1, <3>2 DEF OwnInv, UiFits, Replacing
    <3>3. CASE \E s \in Slots : slot[s].pid = r
      BY <3>1, <3>3 DEF OwnInv, SlotsFit
    <3> QED
      BY <3>1, <3>2, <3>3 DEF Owned
  <2>2. PICK s \in Slots : In(p, s)
    BY <2>0, <2>1
  <2>3. PICK t \in Slots : In(q, t)
    BY <2>0, <2>1
  <2>4. s # t
    <3>1. ui.at = "launched" /\ slot[ui.slot].pid # 0 => ~Running(slot[ui.slot].pid)
      BY DEF OwnInv, UiFits, Replacing
    <3> QED
      BY <2>0, <2>2, <2>3, <3>1, Constants
  <2>5. RunsFor(p, s) /\ RunsFor(q, t)
    BY <2>2, <2>3 DEF RunsFor
  <2>6. CASE s # Main /\ t # Main
    BY <2>2, <2>3, <2>4, <2>6, FilesFacts
  <2>7. CASE s # Main /\ t = Main
    BY <2>2, <2>5, <2>7, FilesFacts
  <2>8. CASE s = Main
    BY <2>3, <2>4, <2>5, <2>8, FilesFacts
  <2> QED
    BY <2>6, <2>7, <2>8
<1> QED
  BY <1>1, AlwaysOwn, PTL

-----------------------------------------------------------------------------
(* Headers: but for the file that Apply Nice is about to give its header, a *)
(* file that is not empty begins with one, and one that is empty gets it    *)
(* with the first buffer of any collector that has it open.                 *)
HeaderDue(f) == ui.at = "header" /\ ui.path = f
FileGood(f) == file[f].lines # << >> /\ ~HeaderDue(f) => Head(file[f].lines) = Header
BufferGood(p) ==
  LET f == file[proc[p].path] IN
  /\ proc[p].inode <= f.inode
  /\ proc[p].inode = f.inode /\ f.lines = << >> /\ ~HeaderDue(proc[p].path) =>
       proc[p].buf # << >> /\ Head(proc[p].buf) = Header
HeadersInv ==
  /\ \A f \in Paths : FileGood(f)
  /\ \A p \in Procs : proc[p].state = "collecting" => BufferGood(p)

(* What collects after the step did so before it, with the same buffer. *)
Kept(p) ==
  proc'[p].state = "collecting" =>
    /\ proc[p].state = "collecting" /\ proc'[p].path = proc[p].path
    /\ proc'[p].inode = proc[p].inode /\ proc'[p].buf = proc[p].buf
AllKept == \A p \in Procs : Kept(p)

LEMMA KeptHeaders ==
  ASSUME OwnInv, HeadersInv, AllKept, file' = file,
         ui.at # "header" \/ ui' = ui, ui'.at # "header" \/ ui' = ui
  PROVE  HeadersInv'
<1>1. \A f \in Paths : FileGood(f)'
  BY DEF HeadersInv, FileGood, HeaderDue
<1>2. ASSUME NEW p \in Procs, proc'[p].state = "collecting"
      PROVE  BufferGood(p)'
  <2>1. /\ proc[p].state = "collecting" /\ proc'[p].path = proc[p].path
        /\ proc'[p].inode = proc[p].inode /\ proc'[p].buf = proc[p].buf
    BY <1>2 DEF AllKept, Kept
  <2> QED
    BY <2>1 DEF HeadersInv, BufferGood, HeaderDue
<1> QED
  BY <1>1, <1>2 DEF HeadersInv

(* An update of one process that does not collect afterwards. *)
LEMMA OneKept ==
  ASSUME proc \in [Procs -> ProcType], NEW p \in Procs, NEW r,
         proc' = [proc EXCEPT ![p] = r],
         \/ r.state # "collecting"
         \/ /\ proc[p].state = "collecting" /\ r.path = proc[p].path
            /\ r.inode = proc[p].inode /\ r.buf = proc[p].buf
  PROVE  AllKept
<1>1. proc'[p] = r /\ \A q \in Procs : q # p => proc'[q] = proc[q]
  OBVIOUS
<1> QED
  BY <1>1 DEF AllKept, Kept

LEMMA InterruptedKept ==
  ASSUME Types, NEW p \in Procs, proc' \in Interrupted(p)
  PROVE  AllKept
<1>0. proc \in [Procs -> ProcType] /\ proc[p] \in ProcType
  BY DEF Types
<1> DEFINE t == [proc[p] EXCEPT !.told = TRUE]
           z == [t EXCEPT !.state = "zombie"]
<1>1. /\ t.path = proc[p].path /\ t.inode = proc[p].inode /\ t.buf = proc[p].buf
      /\ t.state = proc[p].state /\ z.state = "zombie"
  BY <1>0 DEF ProcType
<1>2. \/ proc' = [proc EXCEPT ![p] = t]
      \/ proc' = [proc EXCEPT ![p] = z]
      \/ proc' = proc
  BY <1>0 DEF Interrupted
<1> HIDE DEF t, z
<1> QED
  BY <1>0, <1>1, <1>2, OneKept DEF AllKept, Kept

LEMMA AskedKept ==
  ASSUME Types, proc' \in {proc, Reaped}
  PROVE  AllKept
<1>1. ASSUME NEW p \in Procs PROVE Kept(p)
  <2>1. proc[p] \in ProcType
    BY DEF Types
  <2>2. CASE proc' = Reaped /\ proc[p].state = "zombie"
    <3>1. proc'[p] = [proc[p] EXCEPT !.state = "gone"]
      BY <2>2 DEF Reaped
    <3>2. proc'[p].state = "gone"
      BY <2>1, <3>1 DEF ProcType
    <3> QED
      BY <3>2 DEF Kept
  <2>3. CASE proc' = proc \/ proc[p].state # "zombie"
    <3>1. proc'[p] = proc[p]
      BY <2>3 DEF Reaped
    <3> QED
      BY <3>1 DEF Kept
  <2> QED
    BY <2>2, <2>3
<1> QED
  BY <1>1 DEF AllKept

LEMMA StopKept ==
  ASSUME OwnInv, NEW s \in Slots, Stop(s)
  PROVE  AllKept
<1>1. CASE Alive(s)
  <2>1. PICK p \in Procs : p = slot[s].pid
    BY <1>1 DEF Alive, IsAlive, OwnInv, Types, SlotType
  <2> QED
    BY <1>1, <2>1, InterruptedKept DEF Stop, OwnInv
<1>2. CASE ~Alive(s)
  BY <1>2 DEF Stop, AllKept, Kept
<1> QED
  BY <1>1, <1>2

LEMMA SpawnKept ==
  ASSUME OwnInv, NEW s, NEW target, NEW path, NEW nice \in BOOLEAN, Spawn(s, target, path, nice)
  PROVE  AllKept /\ ui'.at # "header"
<1>1. CASE proc' \in {proc, Reaped} /\ ui' = After(nice)
  BY <1>1, AskedKept, Handlers DEF OwnInv
<1>2. CASE /\ \E p \in Procs : proc[p].state = "unused"
           /\ proc' = [Reaped EXCEPT ![NextProc].state = "starting", ![NextProc].path = path]
           /\ ui' = [at |-> "launched", slot |-> s, pid |-> NextProc, target |-> target,
                     path |-> path, nice |-> nice, before |-> {}]
  <2>1. PICK n \in Procs : n = NextProc /\ proc[n].state = "unused"
    BY <1>2, NextProcFree DEF OwnInv
  <2>2. ASSUME NEW q \in Procs PROVE Kept(q)
    <3>0. proc[q] \in ProcType
      BY DEF OwnInv, Types
    <3>1. Reaped[q] = IF proc[q].state = "zombie" THEN [proc[q] EXCEPT !.state = "gone"]
                      ELSE proc[q]
      BY DEF Reaped
    <3>2. CASE q = n
      <4>1. proc'[q] = [Reaped[q] EXCEPT !.state = "starting", !.path = path]
        BY <1>2, <2>1, <3>2 DEF Reaped
      <4>2. proc'[q].state = "starting"
        BY <2>1, <3>0, <3>1, <3>2, <4>1 DEF ProcType
      <4> QED
        BY <4>2 DEF Kept
    <3>3. CASE q # n
      <4>1. proc'[q] = Reaped[q]
        BY <1>2, <2>1, <3>3 DEF Reaped
      <4> QED
        BY <3>0, <3>1, <4>1 DEF Kept, ProcType
    <3> QED
      BY <3>2, <3>3
  <2> QED
    BY <1>2, <2>2 DEF AllKept
<1> QED
  BY <1>1, <1>2 DEF Spawn

(* What is appended to a file, and what a collector does to its buffer. *)
LEMMA HeadOfConcat ==
  ASSUME NEW a \in Seq(Int), NEW b \in Seq(Int)
  PROVE  /\ a \o b \in Seq(Int)
         /\ a # << >> => a \o b # << >> /\ Head(a \o b) = Head(a)
         /\ a = << >> => a \o b = b
  OBVIOUS

LEMMA BuffersOf ==
  ASSUME OwnInv, NEW p \in Procs, proc[p].state # "unused"
  PROVE  /\ proc[p] \in ProcType /\ proc[p].path \in Paths /\ proc[p].buf \in Seq(Int)
         /\ file[proc[p].path] \in FileType /\ file[proc[p].path].lines \in Seq(Int)
  BY DEF OwnInv, UsedHavePath, Types, ProcType, FileType

LEMMA WriteOut ==
  ASSUME OwnInv, HeadersInv, NEW p \in Procs, proc[p].state = "collecting",
         file' = Written(p), ui' = ui, NEW r \in ProcType, proc' = [proc EXCEPT ![p] = r],
         r.path = proc[p].path, r.inode = proc[p].inode
  PROVE  HeadersInv'
<1> DEFINE f == proc[p].path
           l == file[f].lines
           m == IF file[f].inode = proc[p].inode THEN l \o proc[p].buf ELSE l
<1>0. /\ proc \in [Procs -> ProcType] /\ file \in [Paths -> FileType]
      /\ f \in Paths /\ file[f] \in FileType /\ l \in Seq(Int) /\ proc[p].buf \in Seq(Int)
  BY BuffersOf DEF OwnInv, Types
<1>1. /\ file'[f].inode = file[f].inode /\ file'[f].lines = m
      /\ \A g \in Paths : g # f => file'[g] = file[g]
  BY <1>0 DEF Written, FileType
<1>2. /\ proc'[p] = r /\ \A q \in Procs : q # p => proc'[q] = proc[q]
  BY <1>0
<1>3. /\ m = << >> => l = << >>
      /\ l # << >> => Head(m) = Head(l)
      /\ l = << >> /\ m # << >> => m = proc[p].buf /\ file[f].inode = proc[p].inode
      /\ m = << >> /\ file[f].inode = proc[p].inode => proc[p].buf = << >>
  BY <1>0, HeadOfConcat
<1>4. BufferGood(p)
  BY DEF HeadersInv
<1> HIDE DEF m
<1>5. ASSUME NEW g \in Paths PROVE FileGood(g)'
  <2>1. CASE g = f
    BY <1>0, <1>1, <1>3, <1>4, <2>1 DEF HeadersInv, FileGood, BufferGood, HeaderDue
  <2>2. CASE g # f
    BY <1>1, <2>2 DEF HeadersInv, FileGood, HeaderDue
  <2> QED
    BY <2>1, <2>2
<1>6. ASSUME NEW q \in Procs, proc'[q].state = "collecting" PROVE BufferGood(q)'
  <2>1. CASE q = p
    <3>1. proc'[q].path = f /\ proc'[q].inode = proc[p].inode
      BY <1>2, <2>1
    <3> QED
      BY <1>1, <1>3, <1>4, <3>1 DEF BufferGood, HeaderDue
  <2>2. CASE q # p
    <3>1. proc'[q] = proc[q] /\ BufferGood(q) /\ proc[q].path \in Paths
      BY <1>2, <1>6, <2>2, BuffersOf DEF HeadersInv
    <3>2. CASE proc[q].path = f
      BY <1>1, <1>3, <3>1, <3>2 DEF BufferGood, HeaderDue
    <3>3. CASE proc[q].path # f
      BY <1>1, <3>1, <3>3 DEF BufferGood, HeaderDue
    <3> QED
      BY <3>2, <3>3
  <2> QED
    BY <2>1, <2>2
<1> QED
  BY <1>5, <1>6 DEF HeadersInv

LEMMA CollectorHeaders ==
  ASSUME OwnInv, HeadersInv, NEW p \in Procs,
         OpenFile(p) \/ Die(p) \/ Collect(p) \/ Flush(p) \/ Finish(p)
  PROVE  HeadersInv'
<1>0. /\ proc \in [Procs -> ProcType] /\ file \in [Paths -> FileType] /\ ui' = ui
      /\ proc[p].state # "unused"
  BY DEF OwnInv, Types, OpenFile, Die, Collect, Flush, Finish, Running, Live
<1>1. /\ proc[p] \in ProcType /\ proc[p].path \in Paths /\ proc[p].buf \in Seq(Int)
      /\ file[proc[p].path] \in FileType
  BY <1>0, BuffersOf
<1>2. CASE OpenFile(p)
  <2> DEFINE b == IF file[proc[p].path].lines = << >> THEN <<Header>> ELSE << >>
             r == [proc[p] EXCEPT !.state = "collecting", !.inode = file[proc[p].path].inode,
                     !.buf = b]
  <2>1. r.path = proc[p].path /\ r.inode = file[proc[p].path].inode /\ r.buf = b
    BY <1>1 DEF ProcType
  <2>2. proc' = [proc EXCEPT ![p] = r]
    BY <1>0, <1>2 DEF OpenFile
  <2>3. \A g \in Paths : file'[g].inode = file[g].inode /\ file'[g].lines = file[g].lines
    BY <1>0, <1>1, <1>2 DEF OpenFile, FileType
  <2>4. file[proc[p].path].lines = << >> => b # << >> /\ Head(b) = Header
    OBVIOUS
  <2>5. file[proc[p].path].inode \in Int
    BY <1>1 DEF FileType
  <2> HIDE DEF b, r
  <2>6. proc'[p] = r /\ \A q \in Procs : q # p => proc'[q] = proc[q]
    BY <1>0, <2>2
  <2>7. BufferGood(p)'
    BY <1>0, <1>1, <2>1, <2>3, <2>4, <2>5, <2>6 DEF BufferGood, HeaderDue
  <2>8. ASSUME NEW q \in Procs, q # p, proc'[q].state = "collecting" PROVE BufferGood(q)'
    <3>1. proc'[q] = proc[q] /\ BufferGood(q) /\ proc[q].path \in Paths
      BY <2>6, <2>8, BuffersOf DEF HeadersInv
    <3> QED
      BY <1>0, <2>3, <3>1 DEF BufferGood, HeaderDue
  <2>9. \A g \in Paths : FileGood(g)'
    BY <1>0, <2>3 DEF HeadersInv, FileGood, HeaderDue
  <2> QED
    BY <2>7, <2>8, <2>9 DEF HeadersInv
<1>3. CASE Die(p)
  <2> DEFINE r == [proc[p] EXCEPT !.state = "zombie", !.buf = << >>]
  <2>1. r.state = "zombie"
    BY <1>1 DEF ProcType
  <2>2. proc' = [proc EXCEPT ![p] = r] /\ file' = file
    BY <1>0, <1>3 DEF Die
  <2> HIDE DEF r
  <2>3. AllKept
    BY <1>0, <2>1, <2>2, OneKept
  <2> QED
    BY <1>0, <2>2, <2>3, KeptHeaders
<1>4. CASE Collect(p)
  <2> DEFINE r == [proc[p] EXCEPT !.rows = @ + 1, !.buf = Append(@, p)]
  <2>1. /\ r.path = proc[p].path /\ r.inode = proc[p].inode /\ r.buf = Append(proc[p].buf, p)
        /\ proc[p].state = "collecting"
    BY <1>1, <1>4 DEF ProcType, Collect
  <2>2. proc' = [proc EXCEPT ![p] = r] /\ file' = file
    BY <1>4 DEF Collect
  <2>3. /\ r.buf # << >>
        /\ proc[p].buf # << >> => Head(r.buf) = Head(proc[p].buf)
    <3>1. p \in Int
      BY DashboardAssumption DEF Procs
    <3> QED
      BY <1>1, <2>1, <3>1
  <2> HIDE DEF r
  <2>4. proc'[p] = r /\ \A q \in Procs : q # p => proc'[q] = proc[q]
    BY <1>0, <2>2
  <2>5. BufferGood(p)'
    BY <1>0, <2>1, <2>2, <2>3, <2>4 DEF HeadersInv, BufferGood, HeaderDue
  <2>6. ASSUME NEW q \in Procs, q # p, proc'[q].state = "collecting" PROVE BufferGood(q)'
    BY <1>0, <2>2, <2>4, <2>6 DEF HeadersInv, BufferGood, HeaderDue
  <2>7. \A g \in Paths : FileGood(g)'
    BY <1>0, <2>2 DEF HeadersInv, FileGood, HeaderDue
  <2> QED
    BY <2>5, <2>6, <2>7 DEF HeadersInv
<1>5. CASE Flush(p)
  <2> DEFINE r == [proc[p] EXCEPT !.buf = << >>]
  <2>1. r \in ProcType /\ r.path = proc[p].path /\ r.inode = proc[p].inode
    BY <1>1, Buffers DEF ProcType
  <2>2. proc' = [proc EXCEPT ![p] = r] /\ file' = Written(p) /\ proc[p].state = "collecting"
    BY <1>5 DEF Flush
  <2> HIDE DEF r
  <2> QED
    BY <1>0, <2>1, <2>2, WriteOut
<1>6. CASE Finish(p)
  <2> DEFINE r == [proc[p] EXCEPT !.state = "zombie", !.buf = << >>]
  <2>1. r \in ProcType /\ r.path = proc[p].path /\ r.inode = proc[p].inode
    BY <1>1, Buffers DEF ProcType
  <2>2. proc' = [proc EXCEPT ![p] = r] /\ file' = Written(p) /\ proc[p].state = "collecting"
    BY <1>0, <1>6 DEF Finish
  <2> HIDE DEF r
  <2> QED
    BY <1>0, <2>1, <2>2, WriteOut
<1> QED
  BY <1>2, <1>3, <1>4, <1>5, <1>6

LEMMA TruncateHeaders ==
  ASSUME OwnInv, HeadersInv, TruncateFile
  PROVE  HeadersInv'
<1>0. /\ ui.at = "truncate" /\ proc' = proc /\ ui \in UiType /\ file \in [Paths -> FileType]
      /\ ui.path \in Paths /\ AllKept
  BY FilesFacts DEF TruncateFile, OwnInv, Types, UiFits, Replacing, AllKept, Kept
<1>1. CASE /\ file' = [file EXCEPT ![ui.path].exists = TRUE, ![ui.path].lines = << >>]
           /\ ui' = [ui EXCEPT !.at = "header", !.before = {}]
  <2>1. /\ file'[ui.path].lines = << >> /\ file'[ui.path].inode = file[ui.path].inode
        /\ \A g \in Paths : g # ui.path => file'[g] = file[g]
    BY <1>0, <1>1 DEF FileType
  <2>2. ui'.at = "header" /\ ui'.path = ui.path
    BY <1>0, <1>1 DEF UiType
  <2>3. \A g \in Paths : FileGood(g)'
    BY <1>0, <2>1, <2>2 DEF HeadersInv, FileGood, HeaderDue
  <2>4. ASSUME NEW p \in Procs, proc'[p].state = "collecting" PROVE BufferGood(p)'
    <3>1. proc'[p] = proc[p] /\ BufferGood(p) /\ proc[p].path \in Paths
      BY <1>0, <2>4, BuffersOf DEF HeadersInv
    <3> QED
      BY <1>0, <2>1, <2>2, <3>1 DEF BufferGood, HeaderDue
  <2> QED
    BY <2>3, <2>4 DEF HeadersInv
<1>2. CASE ui' = Reload /\ file' = file
  BY <1>0, <1>2, Handlers, KeptHeaders
<1> QED
  BY <1>1, <1>2 DEF TruncateFile

LEMMA WriteHeaderHeaders ==
  ASSUME OwnInv, HeadersInv, WriteHeader
  PROVE  HeadersInv'
<1>0. /\ ui.at = "header" /\ proc' = proc /\ ui \in UiType /\ file \in [Paths -> FileType]
      /\ ui.path \in Paths /\ ui' = [ui EXCEPT !.at = "spawn"]
  BY FilesFacts DEF WriteHeader, OwnInv, Types, UiFits, Replacing
<1> DEFINE l == file[ui.path].lines
           rest == IF Len(l) > 1 THEN [Tail(l) EXCEPT ![1] = Damaged] ELSE << >>
<1>1. /\ file'[ui.path].lines = <<Header>> \o rest
      /\ file'[ui.path].inode = file[ui.path].inode
      /\ \A g \in Paths : g # ui.path => file'[g] = file[g]
  BY <1>0 DEF WriteHeader, FileType
<1>2. rest \in Seq(Int)
  <2>1. l \in Seq(Int)
    BY <1>0 DEF FileType
  <2>2. CASE Len(l) > 1
    <3>1. Tail(l) \in Seq(Int) /\ 1 \in 1 .. Len(Tail(l)) /\ Damaged \in Int
      BY <2>1, <2>2 DEF Damaged
    <3> HIDE DEF l
    <3>2. [Tail(l) EXCEPT ![1] = Damaged] \in Seq(Int)
      BY <3>1, ExceptSeq
    <3> QED
      BY <2>2, <3>2
  <2>3. CASE ~(Len(l) > 1)
    BY <2>3, Buffers
  <2> QED
    BY <2>2, <2>3
<1> HIDE DEF rest
<1>3. file'[ui.path].lines # << >> /\ Head(file'[ui.path].lines) = Header
  <2>1. <<Header>> # << >> /\ Head(<<Header>>) = Header
    OBVIOUS
  <2> QED
    BY <1>1, <1>2, <2>1, Buffers, HeadOfConcat
<1>4. ui'.at = "spawn"
  BY <1>0 DEF UiType
<1>5. ASSUME NEW g \in Paths PROVE FileGood(g)'
  BY <1>0, <1>1, <1>3 DEF HeadersInv, FileGood, HeaderDue
<1>6. ASSUME NEW p \in Procs, proc'[p].state = "collecting" PROVE BufferGood(p)'
  <2>1. proc'[p] = proc[p] /\ BufferGood(p) /\ proc[p].path \in Paths
    BY <1>0, <1>6, BuffersOf DEF HeadersInv
  <2>2. CASE proc[p].path = ui.path
    BY <1>1, <1>3, <2>1, <2>2 DEF BufferGood
  <2>3. CASE proc[p].path # ui.path
    BY <1>1, <2>1, <2>3 DEF BufferGood, HeaderDue
  <2> QED
    BY <2>2, <2>3
<1> QED
  BY <1>5, <1>6 DEF HeadersInv

LEMMA StartMainHeaders ==
  ASSUME OwnInv, HeadersInv, NEW input \in Inputs, NEW target, NEW reset \in BOOLEAN,
         StartMain(input, target, reset)
  PROVE  HeadersInv'
<1>0. ui = Idle /\ ui.at # "header" /\ file \in [Paths -> FileType]
  BY Handlers DEF StartMain, OwnInv, Types
<1>1. PICK path : path = Resolve(input, file')
  OBVIOUS
<1>2. Spawn(Main, target, path, FALSE)
  BY <1>1 DEF StartMain
<1>3. AllKept /\ ui'.at # "header"
  BY <1>2, SpawnKept
<1>4. CASE file' = file
  BY <1>0, <1>3, <1>4, KeptHeaders
<1>5. CASE file' = Removed(Resolve(input, file))
  <2>1. PICK g \in Paths : g = Resolve(input, file)
    BY Constants DEF Resolve
  <2>2. /\ file'[g].lines = << >> /\ file'[g].inode = file[g].inode + 1
        /\ \A h \in Paths : h # g => file'[h] = file[h]
    BY <1>0, <1>5, <2>1 DEF Removed
  <2>3. \A h \in Paths : FileGood(h)'
    BY <1>0, <2>2 DEF HeadersInv, FileGood, HeaderDue
  <2>4. ASSUME NEW p \in Procs, proc'[p].state = "collecting" PROVE BufferGood(p)'
    <3>1. /\ proc[p].state = "collecting" /\ proc'[p].path = proc[p].path
          /\ proc'[p].inode = proc[p].inode /\ proc'[p].buf = proc[p].buf
      BY <1>3, <2>4 DEF AllKept, Kept
    <3>2. /\ BufferGood(p) /\ proc[p].path \in Paths
          /\ proc[p].inode \in Int /\ file[g].inode \in Int
      BY <1>0, <3>1, BuffersOf DEF HeadersInv, ProcType, FileType
    <3>3. CASE proc[p].path = g
      BY <2>2, <3>1, <3>2, <3>3 DEF BufferGood
    <3>4. CASE proc[p].path # g
      BY <1>0, <2>2, <3>1, <3>2, <3>4 DEF BufferGood, HeaderDue
    <3> QED
      BY <3>3, <3>4
  <2> QED
    BY <2>3, <2>4 DEF HeadersInv
<1> QED
  BY <1>4, <1>5 DEF StartMain

LEMMA LaunchedHeaders ==
  ASSUME OwnInv, HeadersInv, Launched
  PROVE  HeadersInv'
<1>0. /\ ui.at = "launched" /\ file' = file /\ proc \in [Procs -> ProcType]
      /\ ui' = After(ui.nice) /\ ui.nice \in BOOLEAN
  BY DEF Launched, OwnInv, Types, UiType
<1>1. PICK n \in Procs : n = ui.pid
  BY <1>0 DEF OwnInv, Types, UiFits, UiType
<1>2. AllKept
  <2> DEFINE r == [proc[n] EXCEPT !.state = "gone"]
  <2>1. r.state = "gone"
    BY <1>0 DEF ProcType
  <2>2. proc' = [proc EXCEPT ![n] = r] \/ proc' = proc
    BY <1>1 DEF Launched
  <2> HIDE DEF r
  <2> QED
    BY <1>0, <2>1, <2>2, OneKept DEF AllKept, Kept
<1>3. ui'.at # "header"
  BY <1>0, Handlers
<1> QED
  BY <1>0, <1>2, <1>3, KeptHeaders

LEMMA HeadersInit == Init => HeadersInv
<1> SUFFICES ASSUME Init PROVE HeadersInv
  OBVIOUS
<1>1. \A f \in Paths : file[f].lines # << >> => file[f].lines = <<Header, OldRow>>
  BY DEF Init
<1>2. Head(<<Header, OldRow>>) = Header
  OBVIOUS
<1>3. \A p \in Procs : proc[p].state = "unused"
  BY DEF Init, Unused
<1> QED
  BY <1>1, <1>2, <1>3 DEF HeadersInv, FileGood

LEMMA HeadersNext == OwnInv /\ HeadersInv /\ [Next]_vars => HeadersInv'
<1> SUFFICES ASSUME OwnInv, HeadersInv, [Next]_vars PROVE HeadersInv'
  OBVIOUS
<1>1. ASSUME NEW p \in Procs, OpenFile(p) \/ Die(p) \/ Collect(p) \/ Flush(p) \/ Finish(p)
      PROVE  HeadersInv'
  BY <1>1, CollectorHeaders
<1>2. ASSUME NEW s \in Slots, StopSlot(s) PROVE HeadersInv'
  BY <1>2, StopKept, KeptHeaders DEF StopSlot
<1>3. ASSUME NEW f \in Inputs, NEW t \in Targets \cup {0}, NEW reset \in BOOLEAN,
             StartMain(f, t, reset)
      PROVE  HeadersInv'
  BY <1>3, StartMainHeaders
<1>4. ASSUME NEW s \in CmpSlots, NEW t \in Targets, StartCmp(s, t) PROVE HeadersInv'
  <2>1. AllKept /\ ui'.at # "header" /\ ui.at # "header" /\ file' = file
    BY <1>4, SpawnKept, Handlers DEF StartCmp
  <2> QED
    BY <2>1, KeptHeaders
<1>5. ASSUME NEW t \in Targets, Select(t) PROVE HeadersInv'
  BY <1>5, KeptHeaders DEF Select, AllKept, Kept
<1>6. CASE Respawn
  <2>1. AllKept /\ ui'.at # "header" /\ ui.at # "header" /\ file' = file
    BY <1>6, SpawnKept DEF Respawn
  <2> QED
    BY <2>1, KeptHeaders
<1>7. CASE StopForNice
  <2>1. ui.at # "header" /\ file' = file
    BY <1>7 DEF StopForNice
  <2>2. ui'.at # "header"
    BY <1>7, Handlers DEF StopForNice
  <2>3. AllKept
    BY <1>7, StopKept, Constants DEF StopForNice, AllKept, Kept
  <2> QED
    BY <2>1, <2>2, <2>3, KeptHeaders
<1>8. CASE ReloadData \/ Refresh \/ ListProcesses
  <2>1. /\ file' = file /\ proc' \in {proc, Reaped} /\ ui.at # "header" /\ ui'.at # "header"
    BY <1>8, Handlers DEF ReloadData, Refresh, ListProcesses, LoadData, Asked
  <2> QED
    BY <2>1, AskedKept, KeptHeaders DEF OwnInv
<1>9. CASE ApplyNice
  <2> DEFINE u == [Idle EXCEPT !.at = "niced", !.before = Buffering]
  <2>1. u.at = "niced"
    BY Handlers DEF UiType
  <2>2. /\ file' = file /\ proc' \in {proc, Reaped} /\ ui = Idle /\ ui' \in {Idle, u}
    BY <1>9 DEF ApplyNice, Asked
  <2> HIDE DEF u
  <2> QED
    BY <2>1, <2>2, Handlers, AskedKept, KeptHeaders DEF OwnInv
<1>10. CASE Quit \/ UNCHANGED vars
  BY <1>10, KeptHeaders DEF Quit, vars, AllKept, Kept
<1> QED
  BY <1>1, <1>2, <1>3, <1>4, <1>5, <1>6, <1>7, <1>8, <1>9, <1>10, LaunchedHeaders,
     TruncateHeaders, WriteHeaderHeaders DEF Next, Handler

(* Between handlers, a file that is not empty begins with its header, for   *)
(* any number of collectors: Apply Nice clears a file that interrupted ones *)
(* still append to, but writes the header over what they left at its start; *)
(* and one that was removed is not the file they have open.                 *)
THEOREM HeadersFirst == Spec => []HeaderFirst
<1>1. OwnInv /\ HeadersInv => HeaderFirst
  BY Handlers DEF HeadersInv, FileGood, HeaderDue, HeaderFirst
<1>2. Spec => []HeadersInv
  BY HeadersInit, HeadersNext, AlwaysOwn, PTL DEF Spec
<1> QED
  BY <1>1, <1>2, AlwaysOwn, PTL
=============================================================================
