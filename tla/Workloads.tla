------------------------------ MODULE Workloads ------------------------------
(***************************************************************************)
(* The load generators of workload/: a main thread that creates threads,   *)
(* joins them one after the other and says that the workload is completed; *)
(* and threads that go through the same few operations for some rounds.    *)
(* A program is a record of its threads' operations; what they share is a  *)
(* mutex and a counter, a pipe, or a directory of temporary files.         *)
(***************************************************************************)
EXTENDS Integers, Sequences

CONSTANTS
  MaxThreads,   \* bound on the threads of a program
  MaxRounds,    \* bound on the rounds of a thread
  Capacity      \* messages a pipe holds

ASSUME WorkloadsAssumption ==
  /\ MaxThreads \in Nat /\ MaxThreads >= 2   \* two ends of a pipe
  /\ MaxRounds \in Nat \ {0} /\ Capacity \in Nat \ {0}

VARIABLES
  program,   \* the program that runs
  main,      \* where main() is, and the thread it creates or joins next
  phase,     \* the iteration of main()'s loop over pipes
  state,     \* per thread: none, running, ended, or missing
  round,     \* per thread: its loop counter; modulo 2 in an endless loop
  op,        \* per thread: the operation it does next
  holder,    \* the thread that holds the mutex, or 0
  counter,   \* shared_counter
  register,  \* per thread: the value of shared_counter it adds to
  stored,    \* ghost: how many times something was added
  pipe,      \* the messages in the pipe
  files,     \* the temporary files there are
  wrote      \* threads whose last attempt to write their file succeeded

vars == <<program, main, phase, state, round, op, holder, counter, register, stored,
          pipe, files, wrote>>

-----------------------------------------------------------------------------
Forever == 0
Capped(n, bound) == IF n < bound THEN n ELSE bound

ThreadIds == 1..MaxThreads

Program(n, bodies, rounds) ==
  [threads |-> n, bodies |-> bodies, rounds |-> Capped(rounds, MaxRounds), phases |-> 1,
   pipes |-> FALSE, reads |-> 1, unlinks |-> FALSE, self |-> 0]
Pool(n, rounds, body) ==
  Program(Capped(n, MaxThreads), [t \in ThreadIds |-> body], rounds)
Pair(first, second, rounds) == Program(2, <<first, second>>, rounds)

Baseline         == Pool(1, 1000, <<"work", "sleep">>)
CpuContention    == Pool(8, 5000, <<"work">>)
HeavyContention  == Pool(16, 20000, <<"work">>)
MemoryPressure   == Pool(2, 50, <<"allocate", "sleep">>)
ContextSwitching == Pool(16, 2000, <<"yield", "work">>)
Generic          == Pool(2, 20, <<"work", "sleep">>)
Contended        == Pool(4, Forever, <<"sleep">>)

DiskIo == Pool(4, 100, <<"writefile", "readfile", "unlink", "sleep">>)

MixedLeavesFile == Pool(4, 100, <<"work", "writefile", "yield", "sleep">>)   \* mutant: no unlink
Mixed == [Pool(4, 100, <<"work", "writefile", "yield", "sleep">>) EXCEPT !.unlinks = TRUE]

(* Mutant: the work is half outside the critical section. *)
LockTooShort == Pool(8, 1000, <<"lock", "load", "unlock", "store", "sleep">>)
LockContention == Pool(8, 1000, <<"lock", "load", "store", "unlock", "sleep">>)

(* A message is 1024 bytes, and so is the reader's buffer. *)
IpcLargeBuffer ==   \* mutant: the buffer holds two messages
  [Pair(<<"read">>, <<"write", "sleep">>, 500) EXCEPT
     !.phases = 2, !.pipes = TRUE, !.reads = 2]
IpcCommunication ==
  [Pair(<<"read">>, <<"write", "sleep">>, 500) EXCEPT !.phases = 2, !.pipes = TRUE]

(* A child reads up to ten bytes, its parent writes five, without end. Here *)
(* the threads are processes, and the second one is main() itself.          *)
PipeIoReadsOnly ==   \* mutant: both read
  [Pair(<<"read">>, <<"read">>, Forever) EXCEPT !.reads = 2, !.self = 2]
PipeIo == [Pair(<<"read">>, <<"write">>, Forever) EXCEPT !.reads = 2, !.self = 2]

Programs ==
  {Baseline, CpuContention, HeavyContention, DiskIo, MemoryPressure, LockContention,
   IpcCommunication, ContextSwitching, Mixed, Generic, Contended, PipeIo}

-----------------------------------------------------------------------------
Members == 1..program.threads
Stopped == {"done", "failed", "crashed"}
At(where, t) == [at |-> where, next |-> t]

Init ==
  /\ program \in Programs
  /\ main = At("create", 1) /\ phase = 1
  /\ state = [t \in ThreadIds |-> "none"]
  /\ round = [t \in ThreadIds |-> 0] /\ op = [t \in ThreadIds |-> 1]
  /\ holder = 0 /\ counter = 0 /\ register = [t \in ThreadIds |-> 0] /\ stored = 0
  /\ pipe = 0 /\ files = {} /\ wrote = {}

threadVars == <<round, op, holder, counter, register, stored, pipe, files, wrote>>

(* The loop over threads: to the next one, or from the last one on. *)
JoinedShort(t) == t + 1 >= program.threads   \* mutant: i < num_threads - 1
Last(t) == t = program.threads
CreatesOneMore(t) ==   \* mutant: i <= num_threads
  IF t > program.threads THEN At("join", 1) ELSE At("create", t + 1)
AfterCreate(t) == IF t = program.threads THEN At("join", 1) ELSE At("create", t + 1)
AfterJoin(t)   == IF Last(t) THEN At("close", 1) ELSE At("join", t + 1)

(* pthread_create, whose result is not looked at: where it fails, the       *)
(* thread is missing and its pthread_t has no value. fork may fail too.     *)
Create ==
  LET t == main.next IN
  /\ main.at = "create"
  /\ \E outcome \in {"running", "missing"} :
       /\ t = program.self => outcome = "running"
       /\ state' = [state EXCEPT ![t] = outcome]
  /\ main' = AfterCreate(t)
  /\ UNCHANGED <<program, phase, threadVars>>

(* pipe() may fail, and main() then returns. *)
PipeFails ==
  /\ program.pipes /\ main = At("create", 1)
  /\ main' = At("failed", 1)
  /\ UNCHANGED <<program, phase, state, threadVars>>

(* pthread_join; of a thread that was never created it may do anything. *)
Join ==
  LET t == main.next IN
  /\ main.at = "join" /\ program.self = 0
  /\ \/ state[t] = "ended" /\ main' = AfterJoin(t)
     \/ state[t] = "missing" /\ main' \in {AfterJoin(t), At("crashed", t)}
  /\ UNCHANGED <<program, phase, state, threadVars>>

(* The pipe is closed, and another one opened, or it is all over. *)
Close ==
  /\ main.at = "close"
  /\ IF phase < program.phases
     THEN /\ main' = At("create", 1) /\ phase' = phase + 1
          /\ state' = [t \in ThreadIds |-> "none"] /\ round' = [t \in ThreadIds |-> 0]
          /\ pipe' = 0
     ELSE main' = At("done", 1) /\ UNCHANGED <<phase, state, round, pipe>>
  /\ UNCHANGED <<program, op, holder, counter, register, stored, files, wrote>>

-----------------------------------------------------------------------------
(* Thread t does one of the operations in ops, and goes on to the next one, *)
(* or to its next round.                                                    *)
Active(t) ==
  /\ main.at \notin Stopped /\ state[t] = "running"
  /\ program.rounds = Forever \/ round[t] < program.rounds
Op(t) == program.bodies[t][op[t]]
NextRound(t) ==
  /\ op' = [op EXCEPT ![t] = 1]
  /\ round' = [round EXCEPT ![t] = IF program.rounds = Forever THEN 1 - @ ELSE @ + 1]
Does(t, ops) ==
  /\ Active(t) /\ Op(t) \in ops
  /\ IF op[t] < Len(program.bodies[t])
     THEN op' = [op EXCEPT ![t] = @ + 1] /\ UNCHANGED round
     ELSE NextRound(t)
  /\ UNCHANGED <<program, main, phase, state>>

lockVars == <<holder, counter, register, stored>>
fileVars == <<files, wrote>>

(* Computing, usleep, sched_yield, and malloc that succeeds. *)
Pass(t) ==
  /\ Does(t, {"work", "sleep", "yield", "allocate"})
  /\ UNCHANGED <<lockVars, pipe, fileVars>>

(* malloc returns NULL: continue, without the sleep. *)
NoMemory(t) ==
  /\ Active(t) /\ Op(t) = "allocate"
  /\ NextRound(t)
  /\ UNCHANGED <<program, main, phase, state, lockVars, pipe, fileVars>>

Lock(t) ==
  /\ Does(t, {"lock"}) /\ holder = 0 /\ holder' = t
  /\ UNCHANGED <<counter, register, stored, pipe, fileVars>>

(* shared_counter += ...: the counter is volatile, so that it is loaded and *)
(* stored, but not in one step.                                             *)
Load(t) ==
  /\ Does(t, {"load"}) /\ register' = [register EXCEPT ![t] = counter]
  /\ UNCHANGED <<holder, counter, stored, pipe, fileVars>>

Store(t) ==
  /\ Does(t, {"store"}) /\ counter' = register[t] + 1 /\ stored' = stored + 1
  /\ UNCHANGED <<holder, register, pipe, fileVars>>

Unlock(t) ==
  /\ Does(t, {"unlock"}) /\ holder' = 0
  /\ UNCHANGED <<counter, register, stored, pipe, fileVars>>

(* read blocks while the pipe is empty, write while it has no room. *)
Read(t) ==
  /\ Does(t, {"read"}) /\ pipe > 0 /\ pipe' = pipe - Capped(program.reads, pipe)
  /\ UNCHANGED <<lockVars, fileVars>>

Write(t) ==
  /\ Does(t, {"write"}) /\ pipe < Capacity /\ pipe' = pipe + 1
  /\ UNCHANGED <<lockVars, fileVars>>

(* The name of a thread's file has its number in it. *)
SharedName(t) == 0   \* mutant: it has not
FileName(t) == t

(* open with O_CREAT, or its failure, which skips the writing. *)
WriteFile(t) ==
  /\ Does(t, {"writefile"})
  /\ \/ files' = files \cup {FileName(t)} /\ wrote' = wrote \cup {t}
     \/ wrote' = wrote \ {t} /\ UNCHANGED files
  /\ UNCHANGED <<lockVars, pipe>>

ReadFile(t) == Does(t, {"readfile"}) /\ UNCHANGED <<lockVars, pipe, fileVars>>

Unlink(t) ==
  /\ Does(t, {"unlink"}) /\ files' = files \ {FileName(t)} /\ wrote' = wrote \ {t}
  /\ UNCHANGED <<lockVars, pipe>>

(* The loop is over; the mixed workload unlinks its file only now. *)
End(t) ==
  /\ main.at \notin Stopped /\ state[t] = "running"
  /\ program.rounds # Forever /\ round[t] = program.rounds
  /\ state' = [state EXCEPT ![t] = "ended"]
  /\ files' = IF program.unlinks THEN files \ {FileName(t)} ELSE files
  /\ UNCHANGED <<program, main, phase, round, op, lockVars, pipe, wrote>>

ThreadStep(t) ==
  \/ Pass(t) \/ NoMemory(t) \/ Lock(t) \/ Load(t) \/ Store(t) \/ Unlock(t)
  \/ Read(t) \/ Write(t) \/ WriteFile(t) \/ ReadFile(t) \/ Unlink(t) \/ End(t)

MainStep == Create \/ PipeFails \/ Join \/ Close

Next == MainStep \/ \E t \in ThreadIds : ThreadStep(t)

Spec == Init /\ [][Next]_vars

(* The kernel runs every thread that can run, sooner or later. *)
FairSpec == Spec /\ WF_vars(MainStep) /\ \A t \in ThreadIds : WF_vars(ThreadStep(t))

-----------------------------------------------------------------------------
TypeOK ==
  /\ program \in Programs
  /\ main.at \in {"create", "join", "close"} \cup Stopped /\ main.next \in Members
  /\ phase \in 1..program.phases
  /\ state \in [ThreadIds -> {"none", "running", "ended", "missing"}]
  /\ round \in [ThreadIds -> Nat]
  /\ program.rounds = Forever => \A t \in ThreadIds : round[t] \in {0, 1}
  /\ op \in [ThreadIds -> Nat \ {0}]
  /\ holder \in {0} \cup ThreadIds /\ counter \in Nat /\ stored \in Nat
  /\ register \in [ThreadIds -> Nat]
  /\ pipe \in 0..Capacity /\ files \subseteq ThreadIds /\ wrote \subseteq ThreadIds

(* 6_lock_contention.c:48 prints shared_counter as what the threads added   *)
(* up: no addition is lost, although the counter is only volatile.          *)
NoLostUpdate == counter = stored

AllCreated == \A t \in Members : state[t] # "missing"

(* "workload completed" is printed only when every thread has ended all of  *)
(* its rounds; what they shared is as if it had never been used: the mutex  *)
(* free, the pipe read empty, no temporary file left in /tmp.               *)
CompletedClean ==
  main.at \in {"close", "done"} /\ AllCreated =>
    /\ \A t \in Members : state[t] = "ended" /\ round[t] = program.rounds
    /\ holder = 0 /\ pipe = 0 /\ files = {}

(* 4_disk_io.c:34: what a thread has just written is there to be read, no   *)
(* matter which files the other threads create and unlink.                  *)
ReadsBack ==
  \A t \in Members :
    state[t] = "running" /\ Op(t) = "readfile" /\ t \in wrote => FileName(t) \in files

(* A workload that is made to end does so, if its threads could be created: *)
(* the mutex, though unfair, and the pipe block nobody for ever, and the    *)
(* reader finds a message for each of its reads.                            *)
Completes ==
  program.rounds # Forever =>
    <>(main.at \in Stopped \/ \E t \in ThreadIds : state[t] = "missing")

(* In the endless ones no thread stops for good, if all could be created:   *)
(* a full or an empty pipe is always used by the other side.                *)
GoesOn ==
  \A t \in ThreadIds, n \in {0, 1} :
    program.rounds = Forever /\ state[t] = "running" /\ round[t] = n
      ~> round[t] # n \/ \E u \in ThreadIds : state[u] = "missing"
=============================================================================
