--------------------------- MODULE WorkloadsProofs ---------------------------
(***************************************************************************)
(* Proofs about Workloads, for any number of threads and of rounds and any *)
(* capacity of the pipes.                                                  *)
(*                                                                         *)
(* The argument for the lock: a thread between the lock and the unlock of  *)
(* its body is the holder, so that there is only one, and what it loaded   *)
(* is still the counter when it stores. The other programs leave the       *)
(* counter alone. For the files: their names are the threads' own.         *)
(***************************************************************************)
EXTENDS Workloads, TLAPS

InBody == \A t \in Members : op[t] <= Len(program.bodies[t])

RunningMember == \A t \in ThreadIds : state[t] # "none" => t \in Members

(* The holder is the one thread in the critical section, and what it loaded *)
(* there is the counter.                                                    *)
HolderInside ==
  program = LockContention =>
    \A t \in Members :
      /\ op[t] \in {2, 3, 4} => holder = t
      /\ op[t] = 3 => register[t] = counter

FilesOfRunning ==
  /\ \A t \in ThreadIds : state[t] = "running" /\ t \in wrote => t \in files
  /\ \A t \in ThreadIds : state[t] = "none" => t \notin wrote

OnePhaseOfFiles == program.phases > 1 => wrote = {}

AheadIsNone ==
  main.at = "create" => \A t \in ThreadIds : t >= main.next => state[t] = "none"

TypeInv == TypeOK /\ InBody /\ RunningMember
LockInv == HolderInside /\ NoLostUpdate
FileInv == FilesOfRunning /\ OnePhaseOfFiles /\ AheadIsNone

(* A thread that does not run is at the beginning of its body, and so is one *)
(* whose rounds are over; main() has joined the threads up to the next one.  *)
AtStart ==
  /\ \A t \in ThreadIds : state[t] # "running" => op[t] = 1
  /\ program.rounds # Forever =>
       \A t \in ThreadIds : round[t] = program.rounds => op[t] = 1

EndedRounds ==
  \A t \in ThreadIds :
    state[t] = "ended" => program.rounds # Forever /\ round[t] = program.rounds

Joined(t) == state[t] \in {"ended", "missing"}
JoinedBefore ==
  /\ main.at = "join" /\ program.self = 0 => \A t \in Members : t < main.next => Joined(t)
  /\ main.at \in {"close", "done"} => program.self = 0 /\ \A t \in Members : Joined(t)

PlaceInv == AtStart /\ EndedRounds /\ JoinedBefore

(* What is shared is in use only while a thread is in the part of its body   *)
(* that uses it; a pipe holds what was written and not yet read.             *)
LockFree == holder # 0 => program = LockContention /\ op[holder] \in {2, 3, 4}

FilesInUse ==
  \A t \in files :
    /\ state[t] = "running"
    /\ program.unlinks \/ (program = DiskIo /\ op[t] \in {2, 3})

PipeBalance ==
  /\ program = IpcCommunication =>
       pipe = round[2] + (IF op[2] = 2 THEN 1 ELSE 0) - round[1]
  /\ program # IpcCommunication /\ program.self = 0 => pipe = 0

CleanInv == LockFree /\ FilesInUse /\ PipeBalance

-----------------------------------------------------------------------------
LEMMA PoolFacts ==
  ASSUME NEW n \in Nat \ {0}, NEW r \in Nat, NEW body
  PROVE  /\ Pool(n, r, body).threads \in Nat \ {0}
         /\ Pool(n, r, body).threads <= MaxThreads
         /\ Pool(n, r, body).rounds \in Nat
         /\ Pool(n, r, body).phases = 1 /\ Pool(n, r, body).reads = 1
         /\ \A t \in 1..Pool(n, r, body).threads : Pool(n, r, body).bodies[t] = body
<1> USE WorkloadsAssumption
<1>1. /\ Capped(n, MaxThreads) \in Nat \ {0}
      /\ Capped(n, MaxThreads) <= MaxThreads /\ Capped(r, MaxRounds) \in Nat
  BY DEF Capped
<1>2. Pool(n, r, body).threads = Capped(n, MaxThreads)
  BY DEF Pool, Program
<1>3. \A t \in ThreadIds : Pool(n, r, body).bodies[t] = body
  BY DEF Pool, Program
<1>4. Pool(n, r, body).rounds \in Nat /\ Pool(n, r, body).phases = 1 /\ Pool(n, r, body).reads = 1
  BY <1>1 DEF Pool, Program
<1> QED
  BY <1>1, <1>2, <1>3, <1>4 DEF ThreadIds

LEMMA PairFacts ==
  ASSUME NEW r \in Nat, NEW first, NEW second
  PROVE  /\ Pair(first, second, r).threads = 2
         /\ Pair(first, second, r).rounds \in Nat
         /\ Pair(first, second, r).phases = 1 /\ Pair(first, second, r).reads = 1
         /\ Pair(first, second, r).bodies[1] = first
         /\ Pair(first, second, r).bodies[2] = second
  BY WorkloadsAssumption DEF Pair, Program, Capped

(* What all of the programs have in common: the bodies are not empty; only *)
(* the lock workload touches the counter; no workload with several pipes   *)
(* writes files.                                                           *)
LockOps == {"lock", "load", "store", "unlock"}

Sound(p) ==
  /\ p.threads \in Nat \ {0} /\ p.threads <= MaxThreads
  /\ p.rounds \in Nat /\ p.phases \in Nat \ {0} /\ p.reads \in Nat
  /\ \A t \in 1..p.threads : Len(p.bodies[t]) \in Nat \ {0}

NoLocks(p) ==
  \A t \in 1..p.threads : \A i \in 1..Len(p.bodies[t]) : p.bodies[t][i] \notin LockOps
NoWrites(p) ==
  \A t \in 1..p.threads : \A i \in 1..Len(p.bodies[t]) : p.bodies[t][i] # "writefile"

(* A body without operations of the lock. *)
Lockless(body) == \A i \in 1..Len(body) : body[i] \notin LockOps

LEMMA SoundPool ==
  ASSUME NEW n \in Nat \ {0}, NEW r \in Nat, NEW body, Len(body) \in Nat \ {0}
  PROVE  /\ Sound(Pool(n, r, body)) /\ Pool(n, r, body).phases = 1
         /\ Lockless(body) => NoLocks(Pool(n, r, body))
<1>1. Sound(Pool(n, r, body)) /\ Pool(n, r, body).phases = 1
  BY PoolFacts DEF Sound
<1>2. Lockless(body) => NoLocks(Pool(n, r, body))
  BY PoolFacts DEF NoLocks, Lockless
<1> QED
  BY <1>1, <1>2

LEMMA BodyOfOne ==
  ASSUME NEW a
  PROVE  /\ Len(<<a>>) \in Nat \ {0}
         /\ a \notin LockOps => Lockless(<<a>>)
  BY DEF Lockless

LEMMA BodyOfTwo ==
  ASSUME NEW a, NEW b
  PROVE  /\ Len(<<a, b>>) \in Nat \ {0}
         /\ a \notin LockOps /\ b \notin LockOps => Lockless(<<a, b>>)
<1>1. \A i \in 1..2 : <<a, b>>[i] \in {a, b}
  OBVIOUS
<1> QED
  BY <1>1 DEF Lockless

LEMMA BodyOfFour ==
  ASSUME NEW a, NEW b, NEW c, NEW d
  PROVE  /\ Len(<<a, b, c, d>>) \in Nat \ {0}
         /\ {a, b, c, d} \cap LockOps = {} => Lockless(<<a, b, c, d>>)
<1>1. Len(<<a, b, c, d>>) = 4
  OBVIOUS
<1>2. \A i \in 1..4 : <<a, b, c, d>>[i] \in {a, b, c, d}
  OBVIOUS
<1> QED
  BY <1>1, <1>2 DEF Lockless

(* The workloads whose threads all do the same, and those of two sides. *)
Proper(p) == Sound(p) /\ p.phases = 1 /\ NoLocks(p)

LEMMA ProperOne ==
  ASSUME NEW n \in Nat \ {0}, NEW r \in Nat, NEW a, a \notin LockOps
  PROVE  Proper(Pool(n, r, <<a>>))
  BY BodyOfOne, SoundPool DEF Proper

LEMMA ProperTwo ==
  ASSUME NEW n \in Nat \ {0}, NEW r \in Nat, NEW a, NEW b,
         a \notin LockOps, b \notin LockOps
  PROVE  Proper(Pool(n, r, <<a, b>>))
  BY BodyOfTwo, SoundPool DEF Proper

LEMMA ProperFour ==
  ASSUME NEW n \in Nat \ {0}, NEW r \in Nat, NEW a, NEW b, NEW c, NEW d,
         a \notin LockOps, b \notin LockOps, c \notin LockOps, d \notin LockOps
  PROVE  Proper(Pool(n, r, <<a, b, c, d>>))
<1>1. {a, b, c, d} \cap LockOps = {}
  OBVIOUS
<1> QED
  BY <1>1, BodyOfFour, SoundPool DEF Proper

LEMMA ProperPools ==
  /\ Proper(Baseline) /\ Proper(CpuContention) /\ Proper(HeavyContention)
  /\ Proper(DiskIo) /\ Proper(MemoryPressure) /\ Proper(ContextSwitching)
  /\ Proper(Mixed) /\ Proper(Generic) /\ Proper(Contended)
<1>1. Proper(CpuContention) /\ Proper(HeavyContention)
  BY ProperOne DEF CpuContention, HeavyContention, LockOps
<1>2. Proper(Contended)
  BY ProperOne DEF Contended, Forever, LockOps
<1>3. Proper(Baseline) /\ Proper(Generic)
  BY ProperTwo DEF Baseline, Generic, LockOps
<1>4. Proper(MemoryPressure) /\ Proper(ContextSwitching)
  BY ProperTwo DEF MemoryPressure, ContextSwitching, LockOps
<1>a. 4 \in Nat \ {0} /\ 100 \in Nat
  OBVIOUS
<1>b. /\ "work" \notin LockOps /\ "sleep" \notin LockOps /\ "yield" \notin LockOps
      /\ "writefile" \notin LockOps /\ "readfile" \notin LockOps
      /\ "unlink" \notin LockOps
  BY DEF LockOps
<1>5. Proper(Pool(4, 100, <<"writefile", "readfile", "unlink", "sleep">>))
  BY <1>a, <1>b, ProperFour, Zenon
<1>6. Proper(Pool(4, 100, <<"work", "writefile", "yield", "sleep">>))
  BY <1>a, <1>b, ProperFour, Zenon
<1>7. Proper(DiskIo)
  BY <1>5 DEF DiskIo
<1>8. Proper(Mixed)
  BY <1>6 DEF Mixed, Proper, Sound, NoLocks, Pool, Program
<1> QED
  BY <1>1, <1>2, <1>3, <1>4, <1>7, <1>8

LEMMA ProperPairs ==
  /\ Proper(PipeIo)
  /\ Sound(IpcCommunication) /\ NoLocks(IpcCommunication) /\ NoWrites(IpcCommunication)
<1> USE WorkloadsAssumption
<1>1. /\ PipeIo.threads = 2 /\ PipeIo.rounds = 0 /\ PipeIo.phases = 1 /\ PipeIo.reads = 2
      /\ PipeIo.bodies[1] = <<"read">> /\ PipeIo.bodies[2] = <<"write">>
  BY DEF PipeIo, Pair, Program, Capped, Forever
<1>2. Proper(PipeIo)
  BY <1>1 DEF Proper, Sound, NoLocks, LockOps
<1>3. /\ IpcCommunication.threads = 2 /\ IpcCommunication.rounds \in Nat
      /\ IpcCommunication.phases = 2 /\ IpcCommunication.reads = 1
      /\ IpcCommunication.bodies[1] = <<"read">>
      /\ IpcCommunication.bodies[2] = <<"write", "sleep">>
  BY DEF IpcCommunication, Pair, Program, Capped
<1>4. \A i \in 1..2 : <<"write", "sleep">>[i] \in {"write", "sleep"}
  OBVIOUS
<1>5. \A t \in 1..2 : \A i \in 1..Len(IpcCommunication.bodies[t]) :
        IpcCommunication.bodies[t][i] \in {"read", "write", "sleep"}
  BY <1>3, <1>4
<1>6. NoLocks(IpcCommunication) /\ NoWrites(IpcCommunication)
  BY <1>3, <1>5 DEF NoLocks, NoWrites, LockOps
<1>7. \A t \in 1..2 : Len(IpcCommunication.bodies[t]) \in Nat \ {0}
<2>1. /\ Len(IpcCommunication.bodies[1]) \in Nat \ {0}
      /\ Len(IpcCommunication.bodies[2]) \in Nat \ {0}
  BY <1>3, BodyOfOne, BodyOfTwo, Zenon
<2> QED
  BY <2>1
<1>8. Sound(IpcCommunication)
  BY <1>3, <1>7 DEF Sound
<1> QED
  BY <1>2, <1>6, <1>8

LockBody == <<"lock", "load", "store", "unlock", "sleep">>

LEMMA LockProgram ==
  /\ Sound(LockContention) /\ LockContention.phases = 1
  /\ \A t \in 1..LockContention.threads : LockContention.bodies[t] = LockBody
<1>1. Len(LockBody) \in Nat \ {0}
  BY DEF LockBody
<1>2. LockContention = Pool(8, 1000, LockBody)
  BY DEF LockContention, LockBody
<1> QED
  BY <1>1, <1>2, PoolFacts, SoundPool

LEMMA ProgramFacts ==
  ASSUME NEW p \in Programs
  PROVE  /\ Sound(p)
         /\ p # LockContention => NoLocks(p)
         /\ p.phases > 1 => NoWrites(p)
  BY ProperPools, ProperPairs, LockProgram DEF Programs, Proper

-----------------------------------------------------------------------------
LEMMA MembersFacts ==
  ASSUME program \in Programs
  PROVE  Members \subseteq ThreadIds /\ 1 \in Members /\ Sound(program)
<1>1. Sound(program)
  BY ProgramFacts
<1>2. program.threads \in Nat \ {0} /\ program.threads <= MaxThreads
  BY <1>1 DEF Sound
<1> QED
  BY <1>1, <1>2, WorkloadsAssumption DEF Members, ThreadIds

LEMMA TypeInit == Init => TypeInv
<1> SUFFICES ASSUME Init PROVE TypeInv
  OBVIOUS
<1>1. program \in Programs
  BY DEF Init
<1>2. Members \subseteq ThreadIds /\ 1 \in Members /\ Sound(program)
  BY <1>1, MembersFacts
<1>3. main.at = "create" /\ main.next \in Members
  BY <1>2 DEF Init, At
<1>4. phase \in 1..program.phases
  BY <1>2 DEF Init, Sound
<1>5. InBody /\ RunningMember
  BY <1>2 DEF Init, InBody, RunningMember, Members, Sound
<1>6. TypeOK
  BY <1>1, <1>3, <1>4, WorkloadsAssumption DEF Init, TypeOK
<1> QED
  BY <1>5, <1>6 DEF TypeInv

(* What is known of a thread that does one of its operations. *)
LEMMA ActiveFacts ==
  ASSUME TypeInv, NEW t \in ThreadIds, Active(t)
  PROVE  /\ t \in Members /\ op[t] \in 1..Len(program.bodies[t])
         /\ Len(program.bodies[t]) \in Nat \ {0}
  BY MembersFacts DEF TypeInv, TypeOK, InBody, RunningMember, Active, Members, Sound

LEMMA DoesFacts ==
  ASSUME TypeInv, NEW t \in ThreadIds, NEW ops, Does(t, ops)
  PROVE  /\ Active(t) /\ Op(t) \in ops
         /\ UNCHANGED <<program, main, phase, state>>
         /\ round' \in [ThreadIds -> Nat] /\ op' \in [ThreadIds -> Nat \ {0}]
         /\ program.rounds = Forever => \A u \in ThreadIds : round'[u] \in {0, 1}
         /\ op'[t] = IF op[t] < Len(program.bodies[t]) THEN op[t] + 1 ELSE 1
         /\ \A u \in ThreadIds \ {t} : op'[u] = op[u]
         /\ InBody'
<1>1. Active(t) /\ Op(t) \in ops /\ UNCHANGED <<program, main, phase, state>>
  BY DEF Does
<1>2. op[t] \in 1..Len(program.bodies[t]) /\ Len(program.bodies[t]) \in Nat \ {0}
  BY <1>1, ActiveFacts
<1>3. op \in [ThreadIds -> Nat \ {0}] /\ round \in [ThreadIds -> Nat] /\ program.rounds \in Nat
  BY ProgramFacts DEF TypeInv, TypeOK, Sound
<1>4. program.rounds = Forever => \A u \in ThreadIds : round[u] \in {0, 1}
  BY DEF TypeInv, TypeOK
<1>5. op' = [op EXCEPT ![t] = IF op[t] < Len(program.bodies[t]) THEN op[t] + 1 ELSE 1]
  BY DEF Does, NextRound
<1>a. \/ UNCHANGED round
      \/ round' = [round EXCEPT ![t] = IF program.rounds = Forever THEN 1 - @ ELSE @ + 1]
  BY DEF Does, NextRound
<1>b. /\ round' \in [ThreadIds -> Nat]
      /\ program.rounds = Forever => \A u \in ThreadIds : round'[u] \in {0, 1}
<2>1. CASE UNCHANGED round
  BY <1>3, <1>4, <2>1
<2>2. CASE program.rounds = Forever /\ round' = [round EXCEPT ![t] = 1 - @]
  BY <1>3, <1>4, <2>2
<2>3. CASE program.rounds # Forever /\ round' = [round EXCEPT ![t] = @ + 1]
  BY <1>3, <2>3
<2> QED
  BY <1>a, <2>1, <2>2, <2>3
<1>6. op' \in [ThreadIds -> Nat \ {0}]
  BY <1>2, <1>3, <1>5
<1>7. /\ op'[t] = IF op[t] < Len(program.bodies[t]) THEN op[t] + 1 ELSE 1
      /\ \A u \in ThreadIds \ {t} : op'[u] = op[u]
  BY <1>3, <1>5
<1>8. Members \subseteq ThreadIds
  BY MembersFacts DEF TypeInv, TypeOK
<1>9. InBody'
  BY <1>1, <1>2, <1>7, <1>8 DEF InBody, Members, TypeInv
<1> QED
  BY <1>1, <1>b, <1>6, <1>7, <1>9

(* malloc fails: the same for the loop. *)
LEMMA NoMemoryFacts ==
  ASSUME TypeInv, NEW t \in ThreadIds, NoMemory(t)
  PROVE  /\ Active(t) /\ Op(t) = "allocate"
         /\ round' \in [ThreadIds -> Nat] /\ op' \in [ThreadIds -> Nat \ {0}]
         /\ program.rounds = Forever => \A u \in ThreadIds : round'[u] \in {0, 1}
         /\ InBody'
<1>1. /\ Active(t) /\ Op(t) = "allocate" /\ NextRound(t)
      /\ UNCHANGED <<program, main, phase, state>>
  BY DEF NoMemory
<1>2. /\ op \in [ThreadIds -> Nat \ {0}] /\ round \in [ThreadIds -> Nat]
      /\ program.rounds = Forever => \A u \in ThreadIds : round[u] \in {0, 1}
  BY DEF TypeInv, TypeOK
<1>3. op' = [op EXCEPT ![t] = 1] /\ op' \in [ThreadIds -> Nat \ {0}]
  BY <1>1, <1>2 DEF NextRound
<1>4. Members \subseteq ThreadIds /\ Sound(program)
  BY MembersFacts DEF TypeInv, TypeOK
<1>5. InBody'
  BY <1>1, <1>2, <1>3, <1>4 DEF InBody, Members, TypeInv, Sound
<1>6. /\ round' \in [ThreadIds -> Nat]
      /\ program.rounds = Forever => \A u \in ThreadIds : round'[u] \in {0, 1}
<2>1. CASE program.rounds = Forever /\ round' = [round EXCEPT ![t] = 1 - @]
  BY <1>2, <2>1
<2>2. CASE program.rounds # Forever /\ round' = [round EXCEPT ![t] = @ + 1]
  BY <1>2, <2>2
<2> QED
  BY <1>1, <2>1, <2>2 DEF NextRound
<1> QED
  BY <1>1, <1>3, <1>5, <1>6

(* The types are kept by a step of a thread that leaves main() alone. *)
DataTypes ==
  /\ holder \in {0} \cup ThreadIds /\ counter \in Nat /\ stored \in Nat
  /\ register \in [ThreadIds -> Nat]
  /\ pipe \in 0..Capacity /\ files \subseteq ThreadIds /\ wrote \subseteq ThreadIds

LEMMA ThreadKeepsTypes ==
  ASSUME TypeInv, UNCHANGED <<program, main, phase, state>>, DataTypes', InBody',
         round' \in [ThreadIds -> Nat], op' \in [ThreadIds -> Nat \ {0}],
         program.rounds = Forever => \A u \in ThreadIds : round'[u] \in {0, 1}
  PROVE  TypeInv'
  BY DEF TypeInv, TypeOK, DataTypes, RunningMember, Members

LEMMA DoesKeepsTypes ==
  ASSUME TypeInv, NEW t \in ThreadIds, NEW ops, Does(t, ops), DataTypes'
  PROVE  TypeInv'
  BY DoesFacts, ThreadKeepsTypes

LEMMA ThreadTypeStep ==
  ASSUME TypeInv, NEW t \in ThreadIds, ThreadStep(t)
  PROVE  TypeInv'
<1> USE DEF lockVars, fileVars
<1>0. DataTypes
  BY DEF TypeInv, TypeOK, DataTypes
<1>1. CASE Pass(t)
  BY <1>0, <1>1, DoesKeepsTypes DEF Pass, DataTypes
<1>2. CASE NoMemory(t)
<2>1. DataTypes' /\ UNCHANGED <<program, main, phase, state>>
  BY <1>0, <1>2 DEF NoMemory, DataTypes
<2> QED
  BY <1>2, <2>1, NoMemoryFacts, ThreadKeepsTypes
<1>3. CASE Lock(t)
  BY <1>0, <1>3, DoesKeepsTypes DEF Lock, DataTypes
<1>4. CASE Load(t)
  BY <1>0, <1>4, DoesKeepsTypes DEF Load, DataTypes
<1>5. CASE Store(t)
  BY <1>0, <1>5, DoesKeepsTypes DEF Store, DataTypes
<1>6. CASE Unlock(t)
  BY <1>0, <1>6, DoesKeepsTypes DEF Unlock, DataTypes
<1>7. CASE Read(t)
<2>1. program.reads \in Nat
  BY MembersFacts DEF TypeInv, TypeOK, Sound
<2>2. pipe' \in 0..Capacity
  BY <1>0, <1>7, <2>1, WorkloadsAssumption DEF Read, Capped, DataTypes
<2> QED
  BY <1>0, <1>7, <2>2, DoesKeepsTypes DEF Read, DataTypes
<1>8. CASE Write(t)
<2>1. pipe' \in 0..Capacity
  BY <1>0, <1>8, WorkloadsAssumption DEF Write, DataTypes
<2> QED
  BY <1>0, <1>8, <2>1, DoesKeepsTypes DEF Write, DataTypes
<1>9. CASE WriteFile(t)
  BY <1>0, <1>9, DoesKeepsTypes DEF WriteFile, FileName, DataTypes
<1>10. CASE ReadFile(t)
  BY <1>0, <1>10, DoesKeepsTypes DEF ReadFile, DataTypes
<1>11. CASE Unlink(t)
  BY <1>0, <1>11, DoesKeepsTypes DEF Unlink, DataTypes
<1>12. CASE End(t)
<2>1. UNCHANGED <<program, main, phase, round, op>>
  BY <1>12 DEF End
<2>2. DataTypes'
  BY <1>0, <1>12 DEF End, FileName, DataTypes
<2>3. RunningMember' /\ InBody'
  BY <1>12, <2>1 DEF End, RunningMember, InBody, TypeInv, TypeOK, Members
<2>4. state' \in [ThreadIds -> {"none", "running", "ended", "missing"}]
  BY <1>12 DEF End, TypeInv, TypeOK
<2> QED
  BY <2>1, <2>2, <2>3, <2>4 DEF TypeInv, TypeOK, DataTypes, Members
<1> QED
  BY <1>1, <1>2, <1>3, <1>4, <1>5, <1>6, <1>7, <1>8, <1>9, <1>10, <1>11, <1>12 DEF ThreadStep

LEMMA MainTypeStep ==
  ASSUME TypeInv, MainStep
  PROVE  TypeInv'
<1>0. /\ Members \subseteq ThreadIds /\ 1 \in Members /\ Sound(program)
      /\ main.next \in Members
  BY MembersFacts DEF TypeInv, TypeOK
<1>1. CASE Create
<2>1. UNCHANGED <<program, phase, threadVars>> /\ main' = AfterCreate(main.next)
  BY <1>1 DEF Create
<2>2. /\ main'.at \in {"create", "join"} /\ main'.next \in Members
  BY <1>0, <2>1 DEF AfterCreate, At, Members, Sound
<2>3. \E outcome \in {"running", "missing"} : state' = [state EXCEPT ![main.next] = outcome]
  BY <1>1 DEF Create
<2>4. /\ state' \in [ThreadIds -> {"none", "running", "ended", "missing"}]
      /\ RunningMember'
  BY <1>0, <2>1, <2>3 DEF TypeInv, TypeOK, RunningMember, Members
<2> QED
  BY <2>1, <2>2, <2>4 DEF threadVars, TypeInv, TypeOK, InBody, Members
<1>2. CASE PipeFails
  BY <1>0, <1>2 DEF PipeFails, At, threadVars, TypeInv, TypeOK, InBody, RunningMember, Members, Stopped
<1>3. CASE Join
<2>1. UNCHANGED <<program, phase, state, threadVars>>
  BY <1>3 DEF Join
<2>2. main' \in {AfterJoin(main.next), At("crashed", main.next)}
  BY <1>3 DEF Join
<2>3. main'.at \in {"join", "close", "crashed"} /\ main'.next \in Members
  BY <1>0, <2>2 DEF AfterJoin, Last, At, Members, Sound
<2> QED
  BY <2>1, <2>3 DEF threadVars, TypeInv, TypeOK, InBody, RunningMember, Members, Stopped
<1>4. CASE Close
<2>1. UNCHANGED <<program, op, holder, counter, register, stored, files, wrote>>
  BY <1>4 DEF Close
<2>2. main'.at \in {"create", "done"} /\ main'.next \in Members
  BY <1>0, <1>4, <2>1 DEF Close, At, Members
<2>3. phase' \in 1..program.phases
<3>1. phase \in 1..program.phases /\ program.phases \in Nat
  BY <1>0 DEF TypeInv, TypeOK, Sound
<3>2. phase' = phase \/ (phase < program.phases /\ phase' = phase + 1)
  BY <1>4 DEF Close
<3> QED
  BY <2>1, <3>1, <3>2
<2>4. /\ state' \in [ThreadIds -> {"none", "running", "ended", "missing"}]
      /\ \A t \in ThreadIds : state'[t] # "none" => state[t] # "none"
      /\ round' \in [ThreadIds -> Nat]
      /\ program.rounds = Forever => \A t \in ThreadIds : round'[t] \in {0, 1}
      /\ pipe' \in 0..Capacity
  BY <1>4, WorkloadsAssumption DEF Close, TypeInv, TypeOK
<2>5. InBody' /\ RunningMember'
  BY <2>1, <2>4 DEF TypeInv, InBody, RunningMember, Members
<2> QED
  BY <2>1, <2>2, <2>3, <2>4, <2>5 DEF TypeInv, TypeOK, Stopped, Members
<1> QED
  BY <1>1, <1>2, <1>3, <1>4 DEF MainStep

LEMMA TypeStep == TypeInv /\ [Next]_vars => TypeInv'
<1>1. ASSUME TypeInv, UNCHANGED vars PROVE TypeInv'
  BY <1>1 DEF vars, TypeInv, TypeOK, InBody, RunningMember, Members
<1> QED
  BY <1>1, MainTypeStep, ThreadTypeStep DEF Next

(* The types are right, and no thread is past the end of its body. *)
THEOREM WorkloadTypes == Spec => []TypeOK
<1>1. TypeInv => TypeOK
  BY DEF TypeInv
<1> QED
  BY <1>1, TypeInit, TypeStep, PTL DEF Spec

-----------------------------------------------------------------------------
(* Where in its body a thread of the lock workload is.                     *)
LEMMA LockPlaces ==
  ASSUME TypeInv, program = LockContention, NEW t \in ThreadIds, Active(t)
  PROVE  /\ t \in Members /\ Len(program.bodies[t]) = 5 /\ op[t] \in 1..5
         /\ Op(t) = "lock" <=> op[t] = 1
         /\ Op(t) = "load" <=> op[t] = 2
         /\ Op(t) = "store" <=> op[t] = 3
         /\ Op(t) = "unlock" <=> op[t] = 4
         /\ Op(t) = "sleep" <=> op[t] = 5
<1>1. t \in Members /\ op[t] \in 1..Len(program.bodies[t])
  BY ActiveFacts
<1>2. program.bodies[t] = <<"lock", "load", "store", "unlock", "sleep">>
  BY <1>1, LockProgram DEF Members, LockBody
<1>3. Len(program.bodies[t]) = 5
  BY <1>2
<1> QED
  BY <1>1, <1>2, <1>3 DEF Op

(* In the other workloads no thread uses the lock or the counter. *)
LEMMA NoLockElsewhere ==
  ASSUME TypeInv, program # LockContention, NEW t \in ThreadIds, Active(t)
  PROVE  Op(t) \notin LockOps
<1>1. t \in Members /\ op[t] \in 1..Len(program.bodies[t])
  BY ActiveFacts
<1>2. NoLocks(program)
  BY ProgramFacts DEF TypeInv, TypeOK
<1> QED
  BY <1>1, <1>2 DEF NoLocks, Op, Members

LEMMA LockInit == Init => LockInv
<1> SUFFICES ASSUME Init PROVE LockInv
  OBVIOUS
<1>1. Members \subseteq ThreadIds
  BY MembersFacts DEF Init
<1> QED
  BY <1>1 DEF Init, LockInv, HolderInside, NoLostUpdate

(* Steps that leave the lock and the places of the threads alone. *)
LEMMA LockUntouched ==
  ASSUME LockInv, UNCHANGED <<program, op, lockVars>>
  PROVE  LockInv'
  BY DEF LockInv, HolderInside, NoLostUpdate, Members, lockVars

LEMMA LockThreadStep ==
  ASSUME TypeInv, LockInv, NEW t \in ThreadIds, ThreadStep(t)
  PROVE  LockInv'
<1> USE DEF lockVars
<1>0. UNCHANGED program
  BY DEF ThreadStep, Pass, NoMemory, Lock, Load, Store, Unlock, Read, Write, WriteFile,
         ReadFile, Unlink, End, Does
<1>1. Members \subseteq ThreadIds /\ Members' = Members
  BY <1>0, MembersFacts DEF TypeInv, TypeOK, Members
<1>2. CASE program # LockContention
<2>1. \A op1 \in LockOps : ~Does(t, {op1})
  BY <1>2, NoLockElsewhere DEF Does, LockOps
<2>2. UNCHANGED lockVars
  BY <2>1 DEF LockOps, ThreadStep, Pass, NoMemory, Lock, Load, Store, Unlock, Read, Write,
              WriteFile, ReadFile, Unlink, End
<2> QED
  BY <1>0, <1>2, <2>2 DEF LockInv, HolderInside, NoLostUpdate
<1>3. CASE program = LockContention
<2> USE <1>0, <1>1, <1>3 DEF LockInv, HolderInside, NoLostUpdate
<2>1. ASSUME NEW ops, Does(t, ops)
      PROVE  /\ t \in Members /\ op[t] \in 1..5 /\ Op(t) \in ops
             /\ Op(t) = "lock" <=> op[t] = 1
             /\ Op(t) = "load" <=> op[t] = 2
             /\ Op(t) = "store" <=> op[t] = 3
             /\ Op(t) = "unlock" <=> op[t] = 4
             /\ Op(t) = "sleep" <=> op[t] = 5
             /\ op'[t] = IF op[t] < 5 THEN op[t] + 1 ELSE 1
             /\ \A u \in Members \ {t} : op'[u] = op[u]
  BY <2>1, DoesFacts, LockPlaces
<2>2. register \in [ThreadIds -> Nat] /\ t # 0
  BY WorkloadsAssumption DEF TypeInv, TypeOK, ThreadIds
<2>3. CASE Pass(t)
<3>1. op[t] = 5 /\ op'[t] = 1 /\ UNCHANGED lockVars
  BY <2>1, <2>3 DEF Pass
<3> QED
  BY <2>1, <2>3, <3>1 DEF Pass
<2>4. CASE Lock(t)
<3>1. op'[t] = 2 /\ holder = 0 /\ holder' = t /\ UNCHANGED <<counter, register, stored>>
  BY <2>1, <2>4 DEF Lock
<3>2. \A u \in Members : op[u] \notin {2, 3, 4}
  BY <3>1, WorkloadsAssumption DEF ThreadIds
<3> QED
  BY <2>1, <2>4, <3>1, <3>2 DEF Lock
<2>5. CASE Load(t)
<3>1. /\ op[t] = 2 /\ op'[t] = 3 /\ register' = [register EXCEPT ![t] = counter]
      /\ UNCHANGED <<holder, counter, stored>>
  BY <2>1, <2>5 DEF Load
<3>2. register'[t] = counter /\ \A u \in Members \ {t} : register'[u] = register[u]
  BY <2>2, <3>1
<3> QED
  BY <2>1, <2>5, <3>1, <3>2 DEF Load
<2>6. CASE Store(t)
<3>1. /\ op[t] = 3 /\ op'[t] = 4 /\ counter' = register[t] + 1 /\ stored' = stored + 1
      /\ UNCHANGED <<holder, register>>
  BY <2>1, <2>6 DEF Store
<3>2. register[t] = counter /\ holder = t
  BY <2>1, <2>6, <3>1 DEF Store
<3>3. \A u \in Members \ {t} : op'[u] \notin {2, 3, 4}
  BY <2>1, <2>6, <3>2 DEF Store
<3> QED
  BY <3>1, <3>2, <3>3
<2>7. CASE Unlock(t)
<3>1. /\ op[t] = 4 /\ op'[t] = 5 /\ holder' = 0 /\ UNCHANGED <<counter, register, stored>>
  BY <2>1, <2>7 DEF Unlock
<3>2. \A u \in Members \ {t} : op'[u] \notin {2, 3, 4}
  BY <2>1, <2>7, <3>1 DEF Unlock
<3> QED
  BY <3>1, <3>2
<2>8. CASE End(t)
  BY <2>8, LockUntouched DEF End
<2>9. /\ ~NoMemory(t) /\ ~Read(t) /\ ~Write(t) /\ ~WriteFile(t) /\ ~ReadFile(t)
      /\ ~Unlink(t)
<3>1. Active(t) => Op(t) \in {"lock", "load", "store", "unlock", "sleep"}
  BY LockPlaces
<3> QED
  BY <3>1 DEF NoMemory, Read, Write, WriteFile, ReadFile, Unlink, Does
<2> QED
  BY <2>3, <2>4, <2>5, <2>6, <2>7, <2>8, <2>9 DEF ThreadStep
<1> QED
  BY <1>2, <1>3

LEMMA LockStep == TypeInv /\ LockInv /\ [Next]_vars => LockInv'
<1>1. ASSUME LockInv, MainStep PROVE LockInv'
  BY <1>1, LockUntouched DEF MainStep, Create, PipeFails, Join, Close, threadVars, lockVars
<1>2. ASSUME LockInv, UNCHANGED vars PROVE LockInv'
  BY <1>2, LockUntouched DEF vars, lockVars
<1> QED
  BY <1>1, <1>2, LockThreadStep DEF Next

(* Nothing that a thread adds to the shared counter is lost, for any number *)
(* of threads and rounds (6_lock_contention.c:19-26).                       *)
THEOREM NoUpdateIsLost == Spec => []NoLostUpdate
<1>1. LockInv => NoLostUpdate
  BY DEF LockInv
<1> QED
  BY <1>1, TypeInit, TypeStep, LockInit, LockStep, PTL DEF Spec

-----------------------------------------------------------------------------
LEMMA FileInit == Init => FileInv
  BY DEF Init, FileInv, FilesOfRunning, OnePhaseOfFiles, AheadIsNone

(* Steps that leave the files and the states of the threads alone. *)
LEMMA FilesUntouched ==
  ASSUME FileInv, UNCHANGED <<program, main, state, fileVars>>
  PROVE  FileInv'
  BY DEF FileInv, FilesOfRunning, OnePhaseOfFiles, AheadIsNone, fileVars

LEMMA FileThreadStep ==
  ASSUME TypeInv, FileInv, NEW t \in ThreadIds, ThreadStep(t)
  PROVE  FileInv'
<1> USE DEF fileVars
<1>1. CASE WriteFile(t)
<2>1. Does(t, {"writefile"}) /\ UNCHANGED <<program, main, state>>
  BY <1>1 DEF WriteFile, Does
<2>2. Active(t) /\ Op(t) = "writefile"
  BY <2>1 DEF Does
<2>3. t \in Members /\ op[t] \in 1..Len(program.bodies[t]) /\ state[t] = "running"
  BY <2>2, ActiveFacts DEF Active
<2>4. ~(program.phases > 1)
  BY <2>2, <2>3, ProgramFacts DEF TypeInv, TypeOK, NoWrites, Op, Members
<2>5. \/ files' = files \cup {t} /\ wrote' = wrote \cup {t}
      \/ files' = files /\ wrote' = wrote \ {t}
  BY <1>1 DEF WriteFile, FileName
<2> QED
  BY <2>1, <2>3, <2>4, <2>5 DEF FileInv, FilesOfRunning, OnePhaseOfFiles, AheadIsNone
<1>2. CASE Unlink(t)
<2>1. /\ UNCHANGED <<program, main, state>> /\ files' = files \ {t} /\ wrote' = wrote \ {t}
  BY <1>2 DEF Unlink, Does, FileName
<2> QED
  BY <2>1 DEF FileInv, FilesOfRunning, OnePhaseOfFiles, AheadIsNone
<1>3. CASE End(t)
<2>1. /\ UNCHANGED <<program, main, wrote>> /\ files' \in {files, files \ {t}}
      /\ state[t] = "running"
      /\ state' = [state EXCEPT ![t] = "ended"]
  BY <1>3 DEF End, FileName
<2>2. /\ state'[t] = "ended" /\ \A u \in ThreadIds \ {t} : state'[u] = state[u]
  BY <2>1 DEF TypeInv, TypeOK
<2> QED
  BY <2>1, <2>2 DEF FileInv, FilesOfRunning, OnePhaseOfFiles, AheadIsNone
<1>4. CASE Pass(t) \/ NoMemory(t) \/ Lock(t) \/ Load(t) \/ Store(t) \/ Unlock(t)
           \/ Read(t) \/ Write(t) \/ ReadFile(t)
  BY <1>4, FilesUntouched
  DEF Pass, NoMemory, Lock, Load, Store, Unlock, Read, Write, ReadFile, Does
<1> QED
  BY <1>1, <1>2, <1>3, <1>4 DEF ThreadStep

LEMMA FileStep == TypeInv /\ FileInv /\ [Next]_vars => FileInv'
<1>1. ASSUME TypeInv, FileInv, MainStep PROVE FileInv'
<2>0. /\ Members \subseteq ThreadIds /\ Sound(program) /\ main.next \in ThreadIds
      /\ state \in [ThreadIds -> {"none", "running", "ended", "missing"}]
  BY <1>1, MembersFacts DEF TypeInv, TypeOK
<2>1. CASE Create
<3>1. /\ UNCHANGED <<program, files, wrote>> /\ main.at = "create"
      /\ \E outcome \in {"running", "missing"} : state' = [state EXCEPT ![main.next] = outcome]
      /\ main' = AfterCreate(main.next)
  BY <2>1 DEF Create, threadVars
<3>2. main.next \notin wrote
  BY <1>1, <2>0, <3>1 DEF FileInv, AheadIsNone, FilesOfRunning, ThreadIds
<3>3. main'.at = "create" => main'.next = main.next + 1
  BY <3>1 DEF AfterCreate, At
<3>4. /\ state'[main.next] # "none"
      /\ \A t \in ThreadIds \ {main.next} : state'[t] = state[t]
  BY <2>0, <3>1
<3>5. AheadIsNone'
  BY <1>1, <2>0, <3>1, <3>3, <3>4 DEF FileInv, AheadIsNone, ThreadIds
<3> QED
  BY <1>1, <3>1, <3>2, <3>4, <3>5 DEF FileInv, FilesOfRunning, OnePhaseOfFiles
<2>2. CASE PipeFails \/ Join
<3>1. UNCHANGED <<program, state, fileVars>> /\ main'.at # "create"
  BY <2>2 DEF PipeFails, Join, AfterJoin, At, threadVars, fileVars
<3> QED
  BY <1>1, <3>1 DEF FileInv, FilesOfRunning, OnePhaseOfFiles, AheadIsNone, fileVars
<2>3. CASE Close
<3>1. /\ UNCHANGED <<program, files, wrote>>
      /\ \/ main'.at = "done" /\ UNCHANGED state
         \/ phase < program.phases /\ state' = [t \in ThreadIds |-> "none"]
  BY <2>3 DEF Close, At
<3>2. phase >= 1 /\ phase \in Int /\ program.phases \in Int
  BY <1>1, <2>0 DEF TypeInv, TypeOK, Sound
<3> QED
  BY <1>1, <3>1, <3>2 DEF FileInv, FilesOfRunning, OnePhaseOfFiles, AheadIsNone
<2> QED
  BY <1>1, <2>1, <2>2, <2>3 DEF MainStep
<1>2. ASSUME FileInv, UNCHANGED vars PROVE FileInv'
  BY <1>2, FilesUntouched DEF vars, fileVars
<1> QED
  BY <1>1, <1>2, FileThreadStep DEF Next

(* What a thread has written to its file is there when it reads it back, for *)
(* any number of threads (4_disk_io.c:20-43).                                *)
THEOREM AlwaysReadsBack == Spec => []ReadsBack
<1>1. TypeInv /\ FileInv => ReadsBack
  BY MembersFacts DEF TypeInv, TypeOK, FileInv, FilesOfRunning, ReadsBack, FileName
<1> QED
  BY <1>1, TypeInit, TypeStep, FileInit, FileStep, PTL DEF Spec

-----------------------------------------------------------------------------
(* The operations that the threads of a program go through.                *)
Uses(p, ops) ==
  \A t \in 1..p.threads : \A i \in 1..Len(p.bodies[t]) : p.bodies[t][i] \in ops

LEMMA PoolUses ==
  ASSUME NEW n \in Nat \ {0}, NEW r \in Nat, NEW body, NEW ops,
         \A i \in 1..Len(body) : body[i] \in ops
  PROVE  Uses(Pool(n, r, body), ops) /\ Pool(n, r, body).self = 0
<1>1. Uses(Pool(n, r, body), ops)
  BY PoolFacts DEF Uses
<1>2. Pool(n, r, body).self = 0
  BY DEF Pool, Program
<1> QED
  BY <1>1, <1>2

LEMMA PoolUsesOne ==
  ASSUME NEW n \in Nat \ {0}, NEW r \in Nat, NEW a
  PROVE  Uses(Pool(n, r, <<a>>), {a}) /\ Pool(n, r, <<a>>).self = 0
<1>1. \A i \in 1..Len(<<a>>) : <<a>>[i] \in {a}
  OBVIOUS
<1> QED
  BY <1>1, PoolUses

LEMMA PoolUsesTwo ==
  ASSUME NEW n \in Nat \ {0}, NEW r \in Nat, NEW a, NEW b
  PROVE  Uses(Pool(n, r, <<a, b>>), {a, b}) /\ Pool(n, r, <<a, b>>).self = 0
<1>1. \A i \in 1..2 : <<a, b>>[i] \in {a, b}
  OBVIOUS
<1>2. \A i \in 1..Len(<<a, b>>) : <<a, b>>[i] \in {a, b}
  BY <1>1
<1> QED
  BY <1>2, PoolUses

LEMMA PoolUsesFour ==
  ASSUME NEW n \in Nat \ {0}, NEW r \in Nat, NEW a, NEW b, NEW c, NEW d
  PROVE  /\ Uses(Pool(n, r, <<a, b, c, d>>), {a, b, c, d})
         /\ Pool(n, r, <<a, b, c, d>>).self = 0
<1>1. \A i \in 1..4 : <<a, b, c, d>>[i] \in {a, b, c, d}
  OBVIOUS
<1>2. \A i \in 1..Len(<<a, b, c, d>>) : <<a, b, c, d>>[i] \in {a, b, c, d}
  BY <1>1
<1> QED
  BY <1>2, PoolUses

Quiet == {"work", "sleep", "yield", "allocate"} \cup LockOps

LEMMA UsesMore ==
  ASSUME NEW p, NEW ops, NEW more, Uses(p, ops), ops \subseteq more
  PROVE  Uses(p, more)
  BY DEF Uses

LEMMA QuietPrograms ==
  ASSUME NEW p \in {Baseline, CpuContention, HeavyContention, MemoryPressure,
                    ContextSwitching, Generic, Contended, LockContention}
  PROVE  Uses(p, Quiet) /\ p.self = 0
<1>1. CASE p \in {CpuContention, HeavyContention}
<2>1. Uses(p, {"work"}) /\ p.self = 0
  BY <1>1, PoolUsesOne DEF CpuContention, HeavyContention
<2> QED
  BY <2>1, UsesMore DEF Quiet
<1>2. CASE p = Contended
<2>1. Uses(p, {"sleep"}) /\ p.self = 0
  BY <1>2, PoolUsesOne DEF Contended, Forever
<2> QED
  BY <2>1, UsesMore DEF Quiet
<1>3. CASE p \in {Baseline, Generic}
<2>1. Uses(p, {"work", "sleep"}) /\ p.self = 0
  BY <1>3, PoolUsesTwo DEF Baseline, Generic
<2> QED
  BY <2>1, UsesMore DEF Quiet
<1>4. CASE p = MemoryPressure
<2>1. Uses(p, {"allocate", "sleep"}) /\ p.self = 0
  BY <1>4, PoolUsesTwo DEF MemoryPressure
<2> QED
  BY <2>1, UsesMore DEF Quiet
<1>5. CASE p = ContextSwitching
<2>1. Uses(p, {"yield", "work"}) /\ p.self = 0
  BY <1>5, PoolUsesTwo DEF ContextSwitching
<2> QED
  BY <2>1, UsesMore DEF Quiet
<1>6. CASE p = LockContention
<2>1. \A i \in 1..5 : LockBody[i] \in Quiet
  BY DEF LockBody, Quiet, LockOps
<2>2. Len(LockBody) = 5
  BY DEF LockBody
<2>3. p = Pool(8, 1000, LockBody)
  BY <1>6 DEF LockContention, LockBody
<2>4. 8 \in Nat \ {0} /\ 1000 \in Nat /\ \A i \in 1..Len(LockBody) : LockBody[i] \in Quiet
  BY <2>1, <2>2
<2>5. Uses(Pool(8, 1000, LockBody), Quiet) /\ Pool(8, 1000, LockBody).self = 0
  BY <2>4, PoolUses
<2> QED
  BY <2>3, <2>5
<1> QED
  BY <1>1, <1>2, <1>3, <1>4, <1>5, <1>6

DiskOps == {"writefile", "readfile", "unlink", "sleep"}
DiskBody == <<"writefile", "readfile", "unlink", "sleep">>

LEMMA FilePrograms ==
  /\ Uses(DiskIo, DiskOps) /\ DiskIo.self = 0
  /\ \A t \in 1..DiskIo.threads : DiskIo.bodies[t] = DiskBody
  /\ Uses(Mixed, {"work", "writefile", "yield", "sleep"}) /\ Mixed.self = 0
  /\ Mixed.unlinks
<1>a. 4 \in Nat \ {0} /\ 100 \in Nat
  OBVIOUS
<1>1. Uses(Pool(4, 100, DiskBody), DiskOps) /\ Pool(4, 100, DiskBody).self = 0
  BY <1>a, PoolUsesFour, Zenon DEF DiskBody, DiskOps
<1>2. DiskIo = Pool(4, 100, DiskBody)
  BY DEF DiskIo, DiskBody
<1>3. \A t \in 1..DiskIo.threads : DiskIo.bodies[t] = DiskBody
  BY <1>2, PoolFacts
<1> DEFINE M == Pool(4, 100, <<"work", "writefile", "yield", "sleep">>)
<1>4. Uses(M, {"work", "writefile", "yield", "sleep"}) /\ M.self = 0
  BY <1>a, PoolUsesFour, Zenon
<1>5. Uses(Mixed, {"work", "writefile", "yield", "sleep"}) /\ Mixed.self = 0
<2>1. Mixed.threads = M.threads /\ Mixed.bodies = M.bodies /\ Mixed.self = M.self
  BY DEF Mixed, Pool, Program
<2> HIDE DEF M
<2> QED
  BY <1>4, <2>1 DEF Uses
<1>6. Mixed.unlinks
  BY DEF Mixed, Pool, Program
<1> QED
  BY <1>1, <1>2, <1>3, <1>5, <1>6

IpcSide == <<"write", "sleep">>

LEMMA PipePrograms ==
  /\ IpcCommunication.threads = 2 /\ IpcCommunication.reads = 1
  /\ IpcCommunication.rounds # Forever
  /\ IpcCommunication.bodies[1] = <<"read">> /\ IpcCommunication.bodies[2] = IpcSide
  /\ Uses(IpcCommunication, {"read", "write", "sleep"})
  /\ PipeIo.self = 2 /\ Uses(PipeIo, {"read", "write"})
<1> USE WorkloadsAssumption
<1>1. /\ IpcCommunication.threads = 2 /\ IpcCommunication.reads = 1
      /\ IpcCommunication.rounds # Forever
      /\ IpcCommunication.bodies[1] = <<"read">> /\ IpcCommunication.bodies[2] = IpcSide
  BY DEF IpcCommunication, IpcSide, Pair, Program, Capped, Forever
<1>2. \A i \in 1..2 : IpcSide[i] \in {"write", "sleep"}
  BY DEF IpcSide
<1>3. Len(IpcSide) = 2
  BY DEF IpcSide
<1>4. Uses(IpcCommunication, {"read", "write", "sleep"})
  BY <1>1, <1>2, <1>3 DEF Uses
<1>5. /\ PipeIo.threads = 2 /\ PipeIo.self = 2
      /\ PipeIo.bodies[1] = <<"read">> /\ PipeIo.bodies[2] = <<"write">>
  BY DEF PipeIo, Pair, Program, Capped, Forever
<1>6. Uses(PipeIo, {"read", "write"})
  BY <1>5 DEF Uses
<1> QED
  BY <1>1, <1>4, <1>5, <1>6

(* Only two programs use pipes, and only two make files.                   *)
LEMMA ProgramUses ==
  ASSUME NEW p \in Programs
  PROVE  /\ p # IpcCommunication /\ p.self = 0
              => \A t \in 1..p.threads : \A i \in 1..Len(p.bodies[t]) :
                   p.bodies[t][i] \notin {"read", "write"}
         /\ ~p.unlinks /\ p # DiskIo
              => \A t \in 1..p.threads : \A i \in 1..Len(p.bodies[t]) :
                   p.bodies[t][i] # "writefile"
<1>1. CASE Uses(p, Quiet)
  BY <1>1 DEF Uses, Quiet, LockOps
<1>2. CASE p = DiskIo
  BY <1>2, FilePrograms DEF Uses, DiskOps
<1>3. CASE p = Mixed
  BY <1>3, FilePrograms DEF Uses
<1>4. CASE p = IpcCommunication
  BY <1>4, PipePrograms DEF Uses
<1>5. CASE p = PipeIo
<2>1. p.self # 0 /\ Uses(p, {"read", "write"})
  BY <1>5, PipePrograms
<2> QED
  BY <2>1 DEF Uses
<1>6. \/ p \in {Baseline, CpuContention, HeavyContention, MemoryPressure,
                ContextSwitching, Generic, Contended, LockContention}
      \/ p \in {DiskIo, Mixed, IpcCommunication, PipeIo}
  BY DEF Programs
<1>7. Uses(p, Quiet) \/ p \in {DiskIo, Mixed, IpcCommunication, PipeIo}
  BY <1>6, QuietPrograms
<1> QED
  BY <1>1, <1>2, <1>3, <1>4, <1>5, <1>7

-----------------------------------------------------------------------------
LEMMA PlaceInit == Init => PlaceInv
<1> SUFFICES ASSUME Init PROVE PlaceInv
  OBVIOUS
<1>1. main.at = "create"
  BY DEF Init, At
<1> QED
  BY <1>1 DEF Init, PlaceInv, AtStart, EndedRounds, JoinedBefore

(* A thread that goes on to its next operation or to its next round.       *)
LEMMA AdvanceKeepsPlaces ==
  ASSUME TypeInv, PlaceInv, NEW t \in ThreadIds, Active(t),
         UNCHANGED <<program, main, state>>,
         op'[t] = 1 \/ round'[t] = round[t],
         \A u \in ThreadIds \ {t} : op'[u] = op[u] /\ round'[u] = round[u]
  PROVE  PlaceInv'
<1>1. state[t] = "running" /\ (program.rounds = Forever \/ round[t] < program.rounds)
  BY DEF Active
<1>2. round[t] \in Int /\ program.rounds \in Int
  BY MembersFacts DEF TypeInv, TypeOK, Sound
<1>3. AtStart' /\ EndedRounds'
  BY <1>1, <1>2 DEF PlaceInv, AtStart, EndedRounds
<1>4. JoinedBefore'
  BY DEF PlaceInv, JoinedBefore, Joined, Members
<1> QED
  BY <1>3, <1>4 DEF PlaceInv

LEMMA DoesRounds ==
  ASSUME TypeInv, NEW t \in ThreadIds, NEW ops, Does(t, ops)
  PROVE  /\ op[t] < Len(program.bodies[t]) => round' = round
         /\ ~(op[t] < Len(program.bodies[t])) /\ program.rounds # Forever
              => round'[t] = round[t] + 1
         /\ \A u \in ThreadIds \ {t} : round'[u] = round[u]
<1>1. round \in [ThreadIds -> Nat]
  BY DEF TypeInv, TypeOK
<1>2. CASE op[t] < Len(program.bodies[t])
  BY <1>2 DEF Does
<1>3. CASE ~(op[t] < Len(program.bodies[t]))
<2>1. round' = [round EXCEPT ![t] = IF program.rounds = Forever THEN 1 - @ ELSE @ + 1]
  BY <1>3 DEF Does, NextRound
<2> QED
  BY <1>1, <1>3, <2>1
<1> QED
  BY <1>2, <1>3

LEMMA DoesKeepsPlaces ==
  ASSUME TypeInv, PlaceInv, NEW t \in ThreadIds, NEW ops, Does(t, ops)
  PROVE  PlaceInv'
<1>1. /\ Active(t) /\ UNCHANGED <<program, main, state>>
      /\ op'[t] = IF op[t] < Len(program.bodies[t]) THEN op[t] + 1 ELSE 1
      /\ \A u \in ThreadIds \ {t} : op'[u] = op[u]
  BY DoesFacts
<1>2. /\ op[t] < Len(program.bodies[t]) => round'[t] = round[t]
      /\ \A u \in ThreadIds \ {t} : round'[u] = round[u]
  BY DoesRounds
<1> QED
  BY <1>1, <1>2, AdvanceKeepsPlaces

LEMMA NoMemoryPlaces ==
  ASSUME TypeInv, NEW t \in ThreadIds, NoMemory(t)
  PROVE  /\ UNCHANGED <<program, main, state>> /\ op'[t] = 1
         /\ \A u \in ThreadIds \ {t} : op'[u] = op[u] /\ round'[u] = round[u]
<1>1. op \in [ThreadIds -> Nat \ {0}] /\ round \in [ThreadIds -> Nat]
  BY DEF TypeInv, TypeOK
<1> QED
  BY <1>1 DEF NoMemory, NextRound

LEMMA PlaceThreadStep ==
  ASSUME TypeInv, PlaceInv, NEW t \in ThreadIds, ThreadStep(t)
  PROVE  PlaceInv'
<1>1. CASE NoMemory(t)
<2>1. Active(t)
  BY <1>1, NoMemoryFacts
<2> QED
  BY <1>1, <2>1, NoMemoryPlaces, AdvanceKeepsPlaces
<1>2. CASE End(t)
<2>1. /\ UNCHANGED <<program, main, round, op>>
      /\ program.rounds # Forever /\ round[t] = program.rounds
      /\ state' = [state EXCEPT ![t] = "ended"]
  BY <1>2 DEF End
<2>2. state'[t] = "ended" /\ \A u \in ThreadIds \ {t} : state'[u] = state[u]
  BY <2>1 DEF TypeInv, TypeOK
<2>3. Members \subseteq ThreadIds /\ Members' = Members
  BY <2>1, MembersFacts DEF TypeInv, TypeOK, Members
<2>4. AtStart' /\ EndedRounds'
  BY <2>1, <2>2 DEF PlaceInv, AtStart, EndedRounds
<2>5. \A u \in Members : Joined(u) => Joined(u)'
  BY <2>2, <2>3 DEF Joined
<2>6. JoinedBefore'
  BY <2>1, <2>3, <2>5 DEF PlaceInv, JoinedBefore
<2> QED
  BY <2>4, <2>6 DEF PlaceInv
<1>3. CASE \E ops : Does(t, ops)
  BY <1>3, DoesKeepsPlaces
<1> QED
  BY <1>1, <1>2, <1>3 DEF ThreadStep, Pass, Lock, Load, Store, Unlock, Read, Write,
                          WriteFile, ReadFile, Unlink

(* When main() closes the pipe, no thread runs and each is at its start.   *)
LEMMA AllAtStart ==
  ASSUME TypeInv, PlaceInv, main.at \in {"close", "done"}
  PROVE  \A t \in ThreadIds : state[t] # "running" /\ op[t] = 1
<1>1. \A t \in ThreadIds : state[t] # "running"
  BY DEF TypeInv, RunningMember, PlaceInv, JoinedBefore, Joined
<1> QED
  BY <1>1 DEF PlaceInv, AtStart

LEMMA PlaceMainStep ==
  ASSUME TypeInv, PlaceInv, AheadIsNone, MainStep
  PROVE  PlaceInv'
<1>0. /\ Members \subseteq ThreadIds /\ 1 \in Members /\ Sound(program)
      /\ main.next \in Members /\ Members' = Members
      /\ state \in [ThreadIds -> {"none", "running", "ended", "missing"}]
<2>1. UNCHANGED program
  BY DEF MainStep, Create, PipeFails, Join, Close
<2> QED
  BY <2>1, MembersFacts DEF TypeInv, TypeOK, Members
<1>1. CASE Create
<2>1. /\ UNCHANGED <<program, round, op>> /\ main.at = "create"
      /\ \E outcome \in {"running", "missing"} : state' = [state EXCEPT ![main.next] = outcome]
      /\ main' = AfterCreate(main.next)
  BY <1>1 DEF Create, threadVars
<2>2. state[main.next] = "none"
  BY <1>0, <2>1 DEF AheadIsNone, Members, Sound
<2>3. /\ state'[main.next] \in {"running", "missing"}
      /\ \A t \in ThreadIds \ {main.next} : state'[t] = state[t]
  BY <1>0, <2>1
<2>4. AtStart' /\ EndedRounds'
  BY <2>1, <2>2, <2>3 DEF PlaceInv, AtStart, EndedRounds
<2>5. main'.at = "create" \/ (main'.at = "join" /\ main'.next = 1)
  BY <2>1 DEF AfterCreate, At
<2>6. JoinedBefore'
  BY <1>0, <2>5 DEF JoinedBefore, Members, Sound
<2> QED
  BY <2>4, <2>6 DEF PlaceInv
<1>2. CASE PipeFails
  BY <1>2 DEF PipeFails, At, threadVars, PlaceInv, AtStart, EndedRounds, JoinedBefore
<1>3. CASE Join
<2>1. /\ UNCHANGED <<program, state, round, op>> /\ main.at = "join" /\ program.self = 0
      /\ main' \in {AfterJoin(main.next), At("crashed", main.next)}
      /\ Joined(main.next)
  BY <1>3 DEF Join, threadVars, Joined
<2>2. \A t \in Members : t <= main.next => Joined(t)
  BY <1>0, <2>1 DEF PlaceInv, JoinedBefore, Members, Sound
<2>3. \/ main'.at = "join" /\ main'.next = main.next + 1
      \/ main'.at = "close" /\ main.next = program.threads
      \/ main'.at = "crashed"
  BY <2>1 DEF AfterJoin, Last, At
<2>4. JoinedBefore'
  BY <1>0, <2>1, <2>2, <2>3 DEF JoinedBefore, Joined, Members, Sound
<2> QED
  BY <2>1, <2>4 DEF PlaceInv, AtStart, EndedRounds
<1>4. CASE Close
<2>1. /\ UNCHANGED <<program, op>> /\ main.at = "close"
  BY <1>4 DEF Close
<2>2. \A t \in ThreadIds : op'[t] = 1
  BY <2>1, AllAtStart
<2>3. CASE /\ main' = At("create", 1) /\ state' = [t \in ThreadIds |-> "none"]
  BY <2>2, <2>3 DEF At, PlaceInv, AtStart, EndedRounds, JoinedBefore
<2>4. CASE main' = At("done", 1) /\ UNCHANGED <<state, round>>
  BY <1>0, <2>1, <2>2, <2>4 DEF At, PlaceInv, AtStart, EndedRounds, JoinedBefore, Joined
<2> QED
  BY <1>4, <2>3, <2>4 DEF Close
<1> QED
  BY <1>1, <1>2, <1>3, <1>4 DEF MainStep

LEMMA PlaceStep == TypeInv /\ FileInv /\ PlaceInv /\ [Next]_vars => PlaceInv'
<1>1. ASSUME PlaceInv, UNCHANGED vars PROVE PlaceInv'
  BY <1>1 DEF vars, PlaceInv, AtStart, EndedRounds, JoinedBefore, Joined, Members
<1> QED
  BY <1>1, PlaceMainStep, PlaceThreadStep DEF Next, FileInv

-----------------------------------------------------------------------------
LEMMA CleanInit == Init => CleanInv
<1> SUFFICES ASSUME Init PROVE CleanInv
  OBVIOUS
<1>1. program = IpcCommunication => 1 \in ThreadIds /\ 2 \in ThreadIds
  BY WorkloadsAssumption DEF ThreadIds
<1> QED
  BY <1>1 DEF Init, CleanInv, LockFree, FilesInUse, PipeBalance

LEMMA LockFreeThreadStep ==
  ASSUME TypeInv, LockInv, LockFree, NEW t \in ThreadIds, ThreadStep(t)
  PROVE  LockFree'
<1> USE DEF lockVars
<1>0. UNCHANGED program
  BY DEF ThreadStep, Pass, NoMemory, Lock, Load, Store, Unlock, Read, Write, WriteFile,
         ReadFile, Unlink, End, Does
<1>1. CASE program # LockContention
<2>1. \A op1 \in LockOps : ~Does(t, {op1})
  BY <1>1, NoLockElsewhere DEF Does, LockOps
<2>2. UNCHANGED holder
  BY <2>1 DEF LockOps, ThreadStep, Pass, NoMemory, Lock, Load, Store, Unlock, Read, Write,
              WriteFile, ReadFile, Unlink, End
<2> QED
  BY <1>0, <1>1, <2>2 DEF LockFree
<1>2. CASE program = LockContention
<2> USE <1>0, <1>2 DEF LockFree
<2>0. holder \in {0} \cup ThreadIds /\ t # 0
  BY WorkloadsAssumption DEF TypeInv, TypeOK, ThreadIds
<2>1. ASSUME NEW ops, Does(t, ops)
      PROVE  /\ op[t] \in 1..5 /\ Op(t) \in ops
             /\ Op(t) = "lock" <=> op[t] = 1
             /\ Op(t) = "load" <=> op[t] = 2
             /\ Op(t) = "store" <=> op[t] = 3
             /\ Op(t) = "unlock" <=> op[t] = 4
             /\ Op(t) = "sleep" <=> op[t] = 5
             /\ op'[t] = IF op[t] < 5 THEN op[t] + 1 ELSE 1
             /\ \A u \in ThreadIds \ {t} : op'[u] = op[u]
  BY <2>1, DoesFacts, LockPlaces
<2>2. CASE Pass(t)
  BY <2>0, <2>1, <2>2 DEF Pass
<2>3. CASE Lock(t)
  BY <2>0, <2>1, <2>3 DEF Lock
<2>4. CASE Load(t)
  BY <2>0, <2>1, <2>4 DEF Load
<2>5. CASE Store(t)
  BY <2>0, <2>1, <2>5 DEF Store
<2>6. CASE Unlock(t)
  BY <2>6 DEF Unlock
<2>7. CASE End(t)
  BY <2>7 DEF End
<2>8. /\ ~NoMemory(t) /\ ~Read(t) /\ ~Write(t) /\ ~WriteFile(t) /\ ~ReadFile(t)
      /\ ~Unlink(t)
<3>1. Active(t) => Op(t) \in {"lock", "load", "store", "unlock", "sleep"}
  BY LockPlaces
<3> QED
  BY <3>1 DEF NoMemory, Read, Write, WriteFile, ReadFile, Unlink, Does
<2> QED
  BY <2>2, <2>3, <2>4, <2>5, <2>6, <2>7, <2>8 DEF ThreadStep
<1> QED
  BY <1>1, <1>2

(* What a thread of the disk workload does, by its place in the body.      *)
LEMMA DiskPlaces ==
  ASSUME TypeInv, program = DiskIo, NEW t \in ThreadIds, Active(t)
  PROVE  /\ op[t] \in 1..4 /\ Len(program.bodies[t]) = 4
         /\ Op(t) = "writefile" <=> op[t] = 1
         /\ Op(t) = "readfile" <=> op[t] = 2
         /\ Op(t) = "unlink" <=> op[t] = 3
         /\ Op(t) = "sleep" <=> op[t] = 4
<1>1. t \in Members /\ op[t] \in 1..Len(program.bodies[t])
  BY ActiveFacts
<1>2. program.bodies[t] = <<"writefile", "readfile", "unlink", "sleep">>
  BY <1>1, FilePrograms DEF Members, DiskBody
<1>3. Len(program.bodies[t]) = 4
  BY <1>2
<1> QED
  BY <1>1, <1>2, <1>3 DEF Op

LEMMA FilesThreadStep ==
  ASSUME TypeInv, AtStart, FilesInUse, NEW t \in ThreadIds, ThreadStep(t)
  PROVE  FilesInUse'
<1> USE DEF fileVars
<1>0. UNCHANGED program /\ files \subseteq ThreadIds /\ files' \subseteq ThreadIds
<2>1. TypeInv'
  BY ThreadTypeStep
<2>2. UNCHANGED program
  BY DEF ThreadStep, Pass, NoMemory, Lock, Load, Store, Unlock, Read, Write, WriteFile,
         ReadFile, Unlink, End, Does
<2> QED
  BY <2>1, <2>2 DEF TypeInv, TypeOK
<1>1. ASSUME NEW ops, Does(t, ops)
      PROVE  /\ UNCHANGED <<program, state>> /\ state[t] = "running" /\ Op(t) \in ops
             /\ \A u \in ThreadIds \ {t} : op'[u] = op[u]
             /\ program = DiskIo /\ op[t] \in {1, 2} => op'[t] = op[t] + 1
<2>1. /\ Active(t) /\ Op(t) \in ops /\ UNCHANGED <<program, state>>
      /\ op'[t] = IF op[t] < Len(program.bodies[t]) THEN op[t] + 1 ELSE 1
      /\ \A u \in ThreadIds \ {t} : op'[u] = op[u]
  BY <1>1, DoesFacts
<2>2. program = DiskIo => Len(program.bodies[t]) = 4
  BY <2>1, DiskPlaces
<2>3. ASSUME program = DiskIo PROVE op[t] \in {1, 2} => op[t] < Len(program.bodies[t])
<3>1. Len(program.bodies[t]) = 4
  BY <2>2, <2>3
<3> QED
  BY <3>1
<2>4. state[t] = "running"
  BY <2>1 DEF Active
<2> QED
  BY <2>1, <2>3, <2>4, Zenon
<1>2. Active(t) => t \in Members /\ op[t] \in 1..Len(program.bodies[t])
  BY ActiveFacts
<1>3. CASE WriteFile(t)
<2>1. Does(t, {"writefile"}) /\ files' \subseteq files \cup {t}
  BY <1>3 DEF WriteFile, FileName
<2>2. Active(t) /\ Op(t) = "writefile"
  BY <2>1 DEF Does
<2>3. program.unlinks \/ program = DiskIo
  BY <1>2, <2>2, ProgramUses DEF TypeInv, TypeOK, Op, Members
<2>4. program.unlinks \/ (program = DiskIo /\ op'[t] = 2)
  BY <1>1, <2>1, <2>2, <2>3, DiskPlaces
<2> QED
  BY <1>0, <1>1, <2>1, <2>4 DEF FilesInUse
<1>4. CASE Unlink(t)
<2>1. Does(t, {"unlink"}) /\ files' = files \ {t}
  BY <1>4 DEF Unlink, FileName
<2> QED
  BY <1>0, <1>1, <2>1 DEF FilesInUse
<1>5. CASE End(t)
<2>1. /\ UNCHANGED <<program, op>> /\ program.rounds # Forever /\ round[t] = program.rounds
      /\ files' = IF program.unlinks THEN files \ {t} ELSE files
      /\ state' = [state EXCEPT ![t] = "ended"]
  BY <1>5 DEF End, FileName
<2>2. \A u \in ThreadIds \ {t} : state'[u] = state[u]
  BY <2>1 DEF TypeInv, TypeOK
<2>3. op[t] = 1
  BY <2>1 DEF AtStart
<2>4. t \notin files'
  BY <2>1, <2>3 DEF FilesInUse
<2> QED
  BY <1>0, <2>1, <2>2, <2>4 DEF FilesInUse
<1>6. CASE ReadFile(t)
<2>1. Does(t, {"readfile"}) /\ UNCHANGED files
  BY <1>6 DEF ReadFile
<2>2. program = DiskIo => op[t] = 2
  BY <2>1, DiskPlaces DEF Does
<2>3. program = DiskIo => op'[t] = 3
  BY <1>1, <2>1, <2>2
<2> QED
  BY <1>0, <1>1, <2>1, <2>3 DEF FilesInUse
<1>7. CASE NoMemory(t)
<2>1. UNCHANGED <<files, state>> /\ \A u \in ThreadIds \ {t} : op'[u] = op[u]
  BY <1>7, NoMemoryPlaces DEF NoMemory
<2>2. program # DiskIo
  BY <1>7, DiskPlaces DEF NoMemory
<2> QED
  BY <1>0, <2>1, <2>2 DEF FilesInUse
<1>8. CASE Pass(t) \/ Lock(t) \/ Load(t) \/ Store(t) \/ Unlock(t) \/ Read(t) \/ Write(t)
<2>1. /\ UNCHANGED files
      /\ Does(t, {"work", "sleep", "yield", "allocate", "lock", "load", "store", "unlock",
                  "read", "write"})
  BY <1>8 DEF Pass, Lock, Load, Store, Unlock, Read, Write, Does
<2>2. Active(t)
  BY <2>1 DEF Does
<2>3. program = DiskIo => op[t] \notin {2, 3}
  BY <1>1, <2>1, <2>2, DiskPlaces
<2> QED
  BY <1>0, <1>1, <2>1, <2>3 DEF FilesInUse
<1> QED
  BY <1>3, <1>4, <1>5, <1>6, <1>7, <1>8 DEF ThreadStep

(* What the two sides of a pipe do, by their places in their bodies.       *)
LEMMA IpcPlaces ==
  ASSUME TypeInv, program = IpcCommunication, NEW t \in ThreadIds, Active(t)
  PROVE  /\ t \in {1, 2} /\ program.rounds # Forever
         /\ t = 1 => Len(program.bodies[t]) = 1 /\ op[t] = 1 /\ Op(t) = "read"
         /\ t = 2 => /\ Len(program.bodies[t]) = 2 /\ op[t] \in {1, 2}
                     /\ op[t] = 1 => Op(t) = "write"
                     /\ op[t] = 2 => Op(t) = "sleep"
<1>1. t \in Members /\ op[t] \in 1..Len(program.bodies[t])
  BY ActiveFacts
<1>2. t \in {1, 2}
  BY <1>1, PipePrograms DEF Members
<1>3. CASE t = 1
<2>1. program.bodies[t] = <<"read">>
  BY <1>3, PipePrograms
<2> QED
  BY <1>1, <1>3, <2>1, PipePrograms DEF Op
<1>4. CASE t = 2
<2>1. program.bodies[t] = <<"write", "sleep">>
  BY <1>4, PipePrograms DEF IpcSide
<2>2. Len(program.bodies[t]) = 2
  BY <2>1
<2> QED
  BY <1>1, <1>4, <2>1, <2>2, PipePrograms DEF Op
<1> QED
  BY <1>2, <1>3, <1>4

LEMMA BalanceThreadStep ==
  ASSUME TypeInv, PipeBalance, NEW t \in ThreadIds, ThreadStep(t)
  PROVE  PipeBalance'
<1>0. UNCHANGED program
  BY DEF ThreadStep, Pass, NoMemory, Lock, Load, Store, Unlock, Read, Write, WriteFile,
         ReadFile, Unlink, End, Does
<1>1. CASE program # IpcCommunication
<2>1. CASE program.self # 0
  BY <1>0, <1>1, <2>1 DEF PipeBalance
<2>2. CASE program.self = 0
<3>1. Active(t) => Op(t) \notin {"read", "write"}
<4>1. Active(t) => t \in Members /\ op[t] \in 1..Len(program.bodies[t])
  BY ActiveFacts
<4> QED
  BY <1>1, <2>2, <4>1, ProgramUses DEF TypeInv, TypeOK, Op, Members
<3>2. UNCHANGED pipe
  BY <3>1 DEF ThreadStep, Pass, NoMemory, Lock, Load, Store, Unlock, Read, Write, WriteFile,
              ReadFile, Unlink, End, Does
<3> QED
  BY <1>0, <1>1, <2>2, <3>2 DEF PipeBalance
<2> QED
  BY <2>1, <2>2
<1>2. CASE program = IpcCommunication
<2>0. /\ 1 \in ThreadIds /\ 2 \in ThreadIds
      /\ round \in [ThreadIds -> Nat] /\ op \in [ThreadIds -> Nat \ {0}] /\ pipe \in Nat
      /\ pipe = round[2] + (IF op[2] = 2 THEN 1 ELSE 0) - round[1]
<3>1. 1 \in ThreadIds /\ 2 \in ThreadIds
  BY WorkloadsAssumption DEF ThreadIds
<3>2. round \in [ThreadIds -> Nat] /\ op \in [ThreadIds -> Nat \ {0}] /\ pipe \in Nat
  BY WorkloadsAssumption DEF TypeInv, TypeOK
<3> QED
  BY <1>2, <3>1, <3>2 DEF PipeBalance
<2>1. SUFFICES pipe' = round'[2] + (IF op'[2] = 2 THEN 1 ELSE 0) - round'[1]
  BY <1>0, <1>2 DEF PipeBalance
<2>2. ASSUME NEW ops, Does(t, ops)
      PROVE  /\ Active(t) /\ Op(t) \in ops
             /\ t = 1 => /\ Op(t) = "read" /\ round'[1] = round[1] + 1
                         /\ round'[2] = round[2] /\ op'[2] = op[2]
             /\ t = 2 => /\ round'[1] = round[1]
                         /\ op[2] = 1 => op'[2] = 2 /\ round'[2] = round[2] /\ Op(t) = "write"
                         /\ op[2] = 2 => op'[2] = 1 /\ round'[2] = round[2] + 1 /\ Op(t) = "sleep"
             /\ t = 1 \/ (t = 2 /\ op[2] \in {1, 2})
<3>1. Active(t) /\ Op(t) \in ops
  BY <2>2, DoesFacts
<3>2. CASE t = 1
<4>1. Len(program.bodies[t]) = 1 /\ op[t] = 1 /\ Op(t) = "read" /\ program.rounds # Forever
  BY <1>2, <3>1, <3>2, IpcPlaces
<4>2. ~(op[t] < Len(program.bodies[t]))
  BY <4>1
<4>3. round'[t] = round[t] + 1 /\ \A u \in ThreadIds \ {t} : round'[u] = round[u]
  BY <2>2, <4>1, <4>2, DoesRounds
<4>4. \A u \in ThreadIds \ {t} : op'[u] = op[u]
  BY <2>2, DoesFacts
<4> QED
  BY <2>0, <3>1, <3>2, <4>1, <4>3, <4>4
<3>3. CASE t = 2
<4>1. /\ Len(program.bodies[t]) = 2 /\ op[t] \in {1, 2} /\ program.rounds # Forever
      /\ op[t] = 1 => Op(t) = "write"
      /\ op[t] = 2 => Op(t) = "sleep"
  BY <1>2, <3>1, <3>3, IpcPlaces
<4>2. op'[t] = IF op[t] < Len(program.bodies[t]) THEN op[t] + 1 ELSE 1
  BY <2>2, DoesFacts
<4>3. /\ op[t] < Len(program.bodies[t]) => round' = round
      /\ ~(op[t] < Len(program.bodies[t])) => round'[t] = round[t] + 1
      /\ round'[1] = round[1]
  BY <2>0, <2>2, <3>3, <4>1, DoesRounds
<4> QED
  BY <3>1, <3>3, <4>1, <4>2, <4>3
<3> QED
  BY <1>2, <3>1, <3>2, <3>3, IpcPlaces
<2>3. CASE Read(t)
<3>1. Does(t, {"read"}) /\ pipe' = pipe - 1
  BY <1>2, <2>0, <2>3, PipePrograms DEF Read, Capped
<3> QED
  BY <2>0, <2>2, <3>1
<2>4. CASE Write(t)
<3>1. Does(t, {"write"}) /\ pipe' = pipe + 1
  BY <2>4 DEF Write
<3> QED
  BY <2>0, <2>2, <3>1
<2>5. CASE Pass(t)
<3>1. Does(t, {"work", "sleep", "yield", "allocate"}) /\ pipe' = pipe
  BY <2>5 DEF Pass
<3> QED
  BY <2>0, <2>2, <3>1
<2>6. CASE End(t)
  BY <2>0, <2>6 DEF End
<2>7. /\ ~NoMemory(t) /\ ~Lock(t) /\ ~Load(t) /\ ~Store(t) /\ ~Unlock(t)
      /\ ~WriteFile(t) /\ ~ReadFile(t) /\ ~Unlink(t)
<3>1. Active(t) => Op(t) \in {"read", "write", "sleep"}
  BY <1>2, IpcPlaces
<3> QED
  BY <3>1 DEF NoMemory, Lock, Load, Store, Unlock, WriteFile, ReadFile, Unlink, Does
<2> QED
  BY <2>3, <2>4, <2>5, <2>6, <2>7 DEF ThreadStep
<1> QED
  BY <1>1, <1>2

LEMMA CleanMainStep ==
  ASSUME TypeInv, PlaceInv, AheadIsNone, CleanInv, MainStep
  PROVE  CleanInv'
<1>0. /\ UNCHANGED <<program, op, holder, files>>
      /\ files \subseteq ThreadIds /\ main.next \in ThreadIds
      /\ state \in [ThreadIds -> {"none", "running", "ended", "missing"}]
  BY MembersFacts DEF MainStep, Create, PipeFails, Join, Close, threadVars, TypeInv, TypeOK
<1>1. LockFree'
  BY <1>0 DEF CleanInv, LockFree
<1>2. CASE Create
<2>1. /\ main.at = "create" /\ UNCHANGED <<round, pipe>>
      /\ \E outcome \in {"running", "missing"} : state' = [state EXCEPT ![main.next] = outcome]
  BY <1>2 DEF Create, threadVars
<2>2. state[main.next] = "none" /\ \A t \in ThreadIds \ {main.next} : state'[t] = state[t]
  BY <1>0, <2>1, MembersFacts DEF AheadIsNone, TypeInv, TypeOK, Members, Sound
<2>3. FilesInUse'
  BY <1>0, <2>2 DEF CleanInv, FilesInUse
<2> QED
  BY <1>0, <1>1, <2>1, <2>3 DEF CleanInv, PipeBalance
<1>3. CASE PipeFails \/ Join
<2>1. UNCHANGED <<state, round, pipe>>
  BY <1>3 DEF PipeFails, Join, threadVars
<2> QED
  BY <1>0, <1>1, <2>1 DEF CleanInv, FilesInUse, PipeBalance
<1>4. CASE Close
<2>1. main.at = "close"
  BY <1>4 DEF Close
<2>2. \A t \in ThreadIds : state[t] # "running" /\ op[t] = 1
  BY <2>1, AllAtStart
<2>3. files = {}
  BY <1>0, <2>2 DEF CleanInv, FilesInUse
<2>4. CASE round' = [t \in ThreadIds |-> 0] /\ pipe' = 0
<3>1. program = IpcCommunication => 1 \in ThreadIds /\ 2 \in ThreadIds
  BY WorkloadsAssumption DEF ThreadIds
<3> QED
  BY <1>0, <1>1, <2>2, <2>3, <2>4, <3>1 DEF CleanInv, FilesInUse, PipeBalance
<2>5. CASE UNCHANGED <<round, pipe>>
  BY <1>0, <1>1, <2>3, <2>5 DEF CleanInv, FilesInUse, PipeBalance
<2> QED
  BY <1>4, <2>4, <2>5 DEF Close
<1> QED
  BY <1>2, <1>3, <1>4 DEF MainStep

LEMMA CleanStep ==
  TypeInv /\ LockInv /\ FileInv /\ PlaceInv /\ CleanInv /\ [Next]_vars => CleanInv'
<1>1. ASSUME CleanInv, UNCHANGED vars PROVE CleanInv'
  BY <1>1 DEF vars, CleanInv, LockFree, FilesInUse, PipeBalance
<1>2. ASSUME TypeInv, LockInv, PlaceInv, CleanInv, NEW t \in ThreadIds, ThreadStep(t)
      PROVE  CleanInv'
  BY <1>2, LockFreeThreadStep, FilesThreadStep, BalanceThreadStep DEF CleanInv, PlaceInv
<1> QED
  BY <1>1, <1>2, CleanMainStep DEF Next, FileInv

(* A workload that says it is completed has left nothing behind: all rounds *)
(* done, the mutex free, the pipe read empty, no temporary file, for any     *)
(* number of threads and rounds (7_ipc_communication.c:44-68, mixed and     *)
(* disk workloads).                                                         *)
THEOREM AlwaysClean == Spec => []CompletedClean
<1>1. TypeInv /\ PlaceInv /\ CleanInv => CompletedClean
<2> SUFFICES ASSUME TypeInv, PlaceInv, CleanInv, main.at \in {"close", "done"}, AllCreated
             PROVE  /\ \A t \in Members : state[t] = "ended" /\ round[t] = program.rounds
                    /\ holder = 0 /\ pipe = 0 /\ files = {}
  BY DEF CompletedClean
<2>1. program.self = 0 /\ \A t \in Members : state[t] = "ended" /\ round[t] = program.rounds
  BY MembersFacts DEF TypeInv, TypeOK, PlaceInv, JoinedBefore, Joined, EndedRounds, AllCreated
<2>2. \A t \in ThreadIds : state[t] # "running" /\ op[t] = 1
  BY AllAtStart
<2>3. holder = 0 /\ files = {}
  BY <2>2 DEF TypeInv, TypeOK, CleanInv, LockFree, FilesInUse
<2>4. pipe = 0
<3>1. CASE program = IpcCommunication
<4>1. 1 \in Members /\ 2 \in Members /\ 2 \in ThreadIds
  BY <3>1, PipePrograms, WorkloadsAssumption DEF Members, ThreadIds
<4>2. program.rounds \in Nat
  BY MembersFacts DEF TypeInv, TypeOK, Sound
<4> QED
  BY <2>1, <2>2, <3>1, <4>1, <4>2 DEF CleanInv, PipeBalance
<3> QED
  BY <2>1, <3>1 DEF CleanInv, PipeBalance
<2> QED
  BY <2>1, <2>3, <2>4
<1> QED
  BY <1>1, TypeInit, TypeStep, LockInit, LockStep, FileInit, FileStep,
     PlaceInit, PlaceStep, CleanInit, CleanStep, PTL DEF Spec
=============================================================================
