-------------------------- MODULE BoundedCmdProofs --------------------------
(***************************************************************************)
(* For every number of processes, size of a pipe and amount of output: the *)
(* types, that no call returns a short answer, and that a call which gave  *)
(* up left nothing running.                                                *)
(***************************************************************************)
EXTENDS BoundedCmd, TLAPS

\* What the promises rest on: where a child is gone, killed or read out.
Held ==
    /\ pc = "remember" =>
          proc[child] \in {"dying", "doomed", "zombie"} /\ helper \notin {"in group", "stuck"}
    /\ pc \in {"unblock", "stdout", "stderr", "wait", "kill"} => proc[child] # "free"
    /\ pc \in {"last stdout", "last stderr"} => proc[child] = "free"
    /\ pc = "last stderr" => "stdout" \in broken \/ due["stdout"] = 0
    /\ answer # "none" => pc = "idle"
    /\ answer = "killed" => helper \notin {"in group", "stuck"}

Inv == TypeOK /\ Held /\ NeverShort

LEMMA InitInv == Init => Inv
  <1> SUFFICES ASSUME Init PROVE Inv
    OBVIOUS
  <1> USE CmdAssumption DEF Init, Streams, Silence
  <1>1. Control /\ Processes
    BY DEF Control, Processes, States, Labels
  <1>2. Pipes
    <2>1. \A s \in Streams : due[s] = 0 /\ noise[s] = 0 /\ left[s] = 0
      OBVIOUS
    <2>2. 0 \in 0..Capacity /\ 0 \in 0..MaxOutput /\ 0 \in 0..MaxNoise
      BY DEF CmdAssumption
    <2> QED
      BY <2>1, <2>2 DEF Pipes, Filled, CmdAssumption
  <1>3. Held /\ NeverShort
    BY DEF Held, NeverShort
  <1> QED
    BY <1>1, <1>2, <1>3 DEF Inv, TypeOK

\* What one unit, read or written, leaves of the pipes.
LEMMA OneRead ==
    ASSUME NEW s \in Streams, Pipes, UNCHANGED <<left, helper, spare>>,
           \/ due[s] > 0 /\ due' = [due EXCEPT ![s] = @ - 1] /\ UNCHANGED noise
           \/ noise[s] > 0 /\ noise' = [noise EXCEPT ![s] = @ - 1] /\ UNCHANGED due
    PROVE  Pipes'
  <1>1. /\ due \in [Streams -> 0..Capacity] /\ noise \in [Streams -> 0..Capacity]
        /\ \A t \in Streams : due[t] + noise[t] <= Capacity
    BY DEF Pipes, Filled
  <1>2. CASE due[s] > 0 /\ due' = [due EXCEPT ![s] = @ - 1] /\ UNCHANGED noise
    <2>1. due[s] - 1 \in 0..Capacity
      BY <1>1, <1>2, CmdAssumption DEF CmdAssumption, Filled
    <2>2. due' \in [Streams -> 0..Capacity]
      BY <1>1, <1>2, <2>1
    <2>3. ASSUME NEW t \in Streams PROVE due'[t] + noise'[t] <= Capacity
      <3>1. due[t] \in Nat /\ noise[t] \in Nat /\ due[t] + noise[t] <= Capacity
        BY <1>1, CmdAssumption DEF CmdAssumption
      <3>2. noise'[t] = noise[t] /\ due'[t] = IF t = s THEN due[t] - 1 ELSE due[t]
        BY <1>1, <1>2
      <3> QED
        BY <3>1, <3>2, <1>2, CmdAssumption DEF CmdAssumption, Filled
    <2> QED
      BY <1>1, <1>2, <2>2, <2>3 DEF Pipes, Filled
  <1>3. CASE noise[s] > 0 /\ noise' = [noise EXCEPT ![s] = @ - 1] /\ UNCHANGED due
    <2>1. noise[s] - 1 \in 0..Capacity
      BY <1>1, <1>3, CmdAssumption DEF CmdAssumption, Filled
    <2>2. noise' \in [Streams -> 0..Capacity]
      BY <1>1, <1>3, <2>1
    <2>3. ASSUME NEW t \in Streams PROVE due'[t] + noise'[t] <= Capacity
      <3>1. noise[t] \in Nat /\ due[t] \in Nat /\ noise[t] + due[t] <= Capacity
        BY <1>1, CmdAssumption DEF CmdAssumption
      <3>2. due'[t] = due[t] /\ noise'[t] = IF t = s THEN noise[t] - 1 ELSE noise[t]
        BY <1>1, <1>3
      <3> QED
        BY <3>1, <3>2, <1>3, CmdAssumption DEF CmdAssumption, Filled
    <2> QED
      BY <1>1, <1>3, <2>2, <2>3 DEF Pipes, Filled
  <1> QED
    BY <1>2, <1>3

LEMMA OneWritten ==
    ASSUME NEW s \in Streams, Pipes, left' \in [Streams -> 0..MaxOutput],
           UNCHANGED helper, spare' \in 0..MaxNoise, Filled(s) < Capacity,
           \/ due' = [due EXCEPT ![s] = @ + 1] /\ UNCHANGED noise
           \/ noise' = [noise EXCEPT ![s] = @ + 1] /\ UNCHANGED due
    PROVE  Pipes'
  <1>1. /\ due \in [Streams -> 0..Capacity] /\ noise \in [Streams -> 0..Capacity]
        /\ \A t \in Streams : due[t] + noise[t] <= Capacity
    BY DEF Pipes, Filled
  <1>2. CASE Filled(s) < Capacity /\ due' = [due EXCEPT ![s] = @ + 1] /\ UNCHANGED noise
    <2>1. due[s] + 1 \in 0..Capacity
      BY <1>1, <1>2, CmdAssumption DEF CmdAssumption, Filled
    <2>2. due' \in [Streams -> 0..Capacity]
      BY <1>1, <1>2, <2>1
    <2>3. ASSUME NEW t \in Streams PROVE due'[t] + noise'[t] <= Capacity
      <3>1. due[t] \in Nat /\ noise[t] \in Nat /\ due[t] + noise[t] <= Capacity
        BY <1>1, CmdAssumption DEF CmdAssumption
      <3>2. noise'[t] = noise[t] /\ due'[t] = IF t = s THEN due[t] + 1 ELSE due[t]
        BY <1>1, <1>2
      <3> QED
        BY <3>1, <3>2, <1>2, CmdAssumption DEF CmdAssumption, Filled
    <2> QED
      BY <1>1, <1>2, <2>2, <2>3 DEF Pipes, Filled
  <1>3. CASE Filled(s) < Capacity /\ noise' = [noise EXCEPT ![s] = @ + 1] /\ UNCHANGED due
    <2>1. noise[s] + 1 \in 0..Capacity
      BY <1>1, <1>3, CmdAssumption DEF CmdAssumption, Filled
    <2>2. noise' \in [Streams -> 0..Capacity]
      BY <1>1, <1>3, <2>1
    <2>3. ASSUME NEW t \in Streams PROVE due'[t] + noise'[t] <= Capacity
      <3>1. noise[t] \in Nat /\ due[t] \in Nat /\ noise[t] + due[t] <= Capacity
        BY <1>1, CmdAssumption DEF CmdAssumption
      <3>2. due'[t] = due[t] /\ noise'[t] = IF t = s THEN noise[t] + 1 ELSE noise[t]
        BY <1>1, <1>3
      <3> QED
        BY <3>1, <3>2, <1>3, CmdAssumption DEF CmdAssumption, Filled
    <2> QED
      BY <1>1, <1>3, <2>2, <2>3 DEF Pipes, Filled
  <1> QED
    BY <1>2, <1>3

LEMMA EmptyPipe ==
    ASSUME NEW s \in Streams, Pipes, Exhausted(s) PROVE s \in broken \/ due[s] = 0
  <1>1. due[s] \in Nat /\ noise[s] \in Nat
    <2>1. due \in [Streams -> 0..Capacity] /\ noise \in [Streams -> 0..Capacity]
      BY DEF Pipes
    <2> QED
      BY <2>1, CmdAssumption DEF CmdAssumption
  <1> QED
    BY <1>1 DEF Exhausted, Filled

LEMMA DrainKeepsPipes ==
    ASSUME NEW here, NEW s \in Streams, NEW next, Pipes, Read(here, s) \/ Dry(here, s, next)
    PROVE  Pipes'
  <1>1. CASE Read(here, s)
    BY <1>1, OneRead DEF Read
  <1>2. CASE Dry(here, s, next)
    BY <1>2 DEF Dry, process, Pipes, Filled
  <1> QED
    BY <1>1, <1>2

\* run_status, statement by statement.
LEMMA StepInv == Inv /\ Step => Inv'
  <1> SUFFICES ASSUME Inv, Step PROVE Inv'
    OBVIOUS
  <1> USE CmdAssumption DEF Inv, TypeOK, process, caller, limits
  <1>1. ASSUME NEW c \in Children, Spawn(c) PROVE Inv'
    <2> USE <1>1 DEF Spawn, Silence
    <2>1. Control'
      BY DEF Control, Labels, Held
    <2>2. Processes'
      BY DEF Processes, Control, States, Held
    <2>3. Pipes'
      <3>1. \A s \in Streams : due'[s] = 0 /\ noise'[s] = 0
        OBVIOUS
      <3>2. due' \in [Streams -> 0..Capacity] /\ noise' \in [Streams -> 0..Capacity]
        BY DEF CmdAssumption
      <3>3. 0 + 0 <= Capacity /\ MaxNoise \in 0..MaxNoise
        BY DEF CmdAssumption
      <3>4. \A s \in Streams : due'[s] + noise'[s] <= Capacity
        BY <3>1, <3>3
      <3> QED
        BY <3>2, <3>3, <3>4 DEF Pipes, Filled
    <2>4. Held'
      BY DEF Held, Control, Labels, Processes, States, Pipes, Streams, Filled
    <2>5. NeverShort'
      BY DEF NeverShort, Held, Control, Processes, Pipes, Streams, Filled
    <2> QED
      BY <2>1, <2>2, <2>3, <2>4, <2>5
  <1>2. CASE NoneLeft
    <2> USE <1>2 DEF NoneLeft, SpawnFails, Return
    <2>1. Control'
      BY DEF Control, Labels, Held
    <2>2. Processes'
      BY DEF Processes, Control, States, Held
    <2>3. Pipes'
      BY DEF Pipes, Control, Streams, Filled
    <2>4. Held'
      BY DEF Held, Control, Labels, Processes, States, Pipes, Streams, Filled
    <2>5. NeverShort'
      BY DEF NeverShort, Held, Control, Processes, Pipes, Streams, Filled
    <2> QED
      BY <2>1, <2>2, <2>3, <2>4, <2>5
  <1>3. CASE Reap
    <2> USE <1>3 DEF Reap, Dead, Collected
    <2>1. Control'
      BY DEF Control, Labels, Held
    <2>2. Processes'
      BY DEF Processes, Control, States, Held
    <2>3. Pipes'
      BY DEF Pipes, Control, Streams, Filled
    <2>4. Held'
      BY DEF Held, Control, Labels, Processes, States, Pipes, Streams, Filled
    <2>5. NeverShort'
      BY DEF NeverShort, Held, Control, Processes, Pipes, Streams, Filled
    <2> QED
      BY <2>1, <2>2, <2>3, <2>4, <2>5
  <1>4. CASE Unblock
    <2> USE <1>4 DEF Unblock
    <2>1. Control'
      BY DEF Control, Labels, Held
    <2>2. Processes'
      BY DEF Processes, Control, States, Held
    <2>3. Pipes'
      BY DEF Pipes, Control, Streams, Filled
    <2>4. Held'
      BY DEF Held, Control, Labels, Processes, States, Pipes, Streams, Filled
    <2>5. NeverShort'
      BY DEF NeverShort, Held, Control, Processes, Pipes, Streams, Filled
    <2> QED
      BY <2>1, <2>2, <2>3, <2>4, <2>5
  <1>5. CASE DrainTurn
    <2> USE <1>5 DEF DrainTurn
    <2>1. Control'
      BY DEF Read, Dry, Control, Labels, Held
    <2>2. Processes'
      BY DEF Read, Dry, Processes, Control, States, Held
    <2>3. Pipes'
      BY DrainKeepsPipes DEF Streams
    <2>4. Held'
      BY DEF Read, Dry, Held, Control, Labels, Processes, States, Pipes, Streams, Filled
    <2>5. NeverShort'
      BY DEF Read, Dry, NeverShort, Held, Control, Processes, Pipes, Streams, Filled
    <2> QED
      BY <2>1, <2>2, <2>3, <2>4, <2>5
  <1>6. CASE Exited
    <2> USE <1>6 DEF Exited
    <2>1. Control'
      BY DEF Control, Labels, Held
    <2>2. Processes'
      BY DEF Processes, Control, States, Held
    <2>3. Pipes'
      BY DEF Pipes, Control, Streams, Filled
    <2>4. Held'
      BY DEF Held, Control, Labels, Processes, States, Pipes, Streams, Filled
    <2>5. NeverShort'
      BY DEF NeverShort, Held, Control, Processes, Pipes, Streams, Filled
    <2> QED
      BY <2>1, <2>2, <2>3, <2>4, <2>5
  <1>7. CASE LastDrain
    <2>1. CASE Read("last stdout", "stdout")
      <3>1. Control' /\ Processes' /\ NeverShort'
        BY <2>1 DEF Read, Control, Processes, Held, NeverShort
      <3>2. Pipes'
        BY <2>1, DrainKeepsPipes DEF Streams
      <3>3. Held'
        BY <2>1 DEF Read, Held
      <3> QED
        BY <3>1, <3>2, <3>3
    <2>2. CASE Dry("last stdout", "stdout", "last stderr")
      <3>1. Control' /\ Processes' /\ NeverShort'
        BY <2>2 DEF Dry, Control, Labels, Processes, Held, NeverShort
      <3>2. Pipes'
        BY <2>2, DrainKeepsPipes DEF Streams
      <3>3. "stdout" \in broken \/ due["stdout"] = 0
        BY <2>2, EmptyPipe DEF Dry, Streams
      <3>4. Held'
        BY <2>2, <3>3 DEF Dry, Held
      <3> QED
        BY <3>1, <3>2, <3>4
    <2>3. CASE Read("last stderr", "stderr")
      <3>1. Control' /\ Processes' /\ NeverShort'
        BY <2>3 DEF Read, Control, Processes, Held, NeverShort
      <3>2. Pipes'
        BY <2>3, DrainKeepsPipes DEF Streams
      <3>3. due'["stdout"] = due["stdout"]
        BY <2>3 DEF Read, Pipes, Streams
      <3>4. Held'
        BY <2>3, <3>3 DEF Read, Held
      <3> QED
        BY <3>1, <3>2, <3>4
    <2>4. CASE pc = "last stderr" /\ Exhausted("stderr") /\ Return("ok")
                 /\ UNCHANGED <<process, limits, killed>>
      <3>1. /\ "stdout" \in broken \/ due["stdout"] = 0
            /\ "stderr" \in broken \/ due["stderr"] = 0
        BY <2>4, EmptyPipe DEF Streams, Held
      <3>2. Control' /\ Pipes' /\ Held'
        BY <2>4 DEF Return, Control, Labels, Pipes, Filled, Held
      <3>3. Processes'
        BY <2>4 DEF Return, Processes, Control, Held
      <3>4. NeverShort'
        BY <2>4, <3>1 DEF NeverShort, Streams
      <3> QED
        BY <3>2, <3>3, <3>4
    <2> QED
      BY <1>7, <2>1, <2>2, <2>3, <2>4 DEF LastDrain
  <1>8. CASE Sleep
    <2> USE <1>8 DEF Sleep
    <2>1. Control'
      BY DEF Control, Labels, Held
    <2>2. Processes'
      BY DEF Processes, Control, States, Held
    <2>3. Pipes'
      BY DEF Pipes, Control, Streams, Filled
    <2>4. Held'
      BY DEF Held, Control, Labels, Processes, States, Pipes, Streams, Filled
    <2>5. NeverShort'
      BY DEF NeverShort, Held, Control, Processes, Pipes, Streams, Filled
    <2> QED
      BY <2>1, <2>2, <2>3, <2>4, <2>5
  <1>9. CASE GiveUp
    <2> USE <1>9 DEF GiveUp
    <2>1. Control'
      BY DEF Control, Labels, Held
    <2>2. Processes'
      BY DEF Processes, Control, States, Held
    <2>3. Pipes'
      BY DEF Pipes, Control, Streams, Filled
    <2>4. Held'
      BY DEF Held, Control, Labels, Processes, States, Pipes, Streams, Filled
    <2>5. NeverShort'
      BY DEF NeverShort, Held, Control, Processes, Pipes, Streams, Filled
    <2> QED
      BY <2>1, <2>2, <2>3, <2>4, <2>5
  <1>10. CASE KillGroup
    <2> USE <1>10 DEF KillGroup, Struck
    <2>1. Control'
      BY DEF Control, Labels, Held
    <2>2. Processes'
      BY DEF Processes, Control, States, Held
    <2>3. Pipes'
      BY DEF Pipes, Control, Streams, Filled
    <2>4. Held'
      BY DEF Held, Control, Labels, Processes, States, Pipes, Streams, Filled
    <2>5. NeverShort'
      BY DEF NeverShort, Held, Control, Processes, Pipes, Streams, Filled
    <2> QED
      BY <2>1, <2>2, <2>3, <2>4, <2>5
  <1>11. CASE RememberKilled
    <2> USE <1>11 DEF RememberKilled, Return
    <2>1. Control'
      BY DEF Control, Labels, Held
    <2>2. Processes'
      BY DEF Processes, Control, States, Held
    <2>3. Pipes'
      BY DEF Pipes, Control, Streams, Filled
    <2>4. Held'
      BY DEF Held, Control, Labels, Processes, States, Pipes, Streams, Filled
    <2>5. NeverShort'
      BY DEF NeverShort, Held, Control, Processes, Pipes, Streams, Filled
    <2> QED
      BY <2>1, <2>2, <2>3, <2>4, <2>5
  <1> QED
    BY <1>1, <1>2, <1>3, <1>4, <1>5, <1>6, <1>7, <1>8, <1>9, <1>10, <1>11 DEF Step

\* What happens around it.
LEMMA EnvironmentInv == Inv /\ Environment => Inv'
  <1> SUFFICES ASSUME Inv, Environment PROVE Inv'
    OBVIOUS
  <1> USE CmdAssumption DEF Inv, TypeOK, process, caller, limits
  <1>1. ASSUME NEW s \in Streams, Write(s) PROVE Inv'
    <2> USE <1>1 DEF Write, Runs
    <2>1. Control'
      BY DEF Control, Labels, Held
    <2>2. Processes'
      BY DEF Processes, Control, States, Held
    <2>3. Pipes'
      <3>1. left' \in [Streams -> 0..MaxOutput]
        <4>1. left \in [Streams -> 0..MaxOutput] /\ left[s] > 0
          BY DEF Pipes
        <4>2. left[s] - 1 \in 0..MaxOutput
          BY <4>1 DEF CmdAssumption
        <4> QED
          BY <4>1, <4>2
      <3> QED
        BY <3>1, OneWritten DEF Pipes
    <2>4. Held'
      BY DEF Held, Control, Labels, Processes, States, Pipes, Streams, Filled
    <2>5. NeverShort'
      BY DEF NeverShort, Held, Control, Processes, Pipes, Streams, Filled
    <2> QED
      BY <2>1, <2>2, <2>3, <2>4, <2>5
  <1>2. CASE Finish \/ Crash \/ Hang \/ Stick
    <2> USE <1>2 DEF Finish, Crash, Hang, Stick, Becomes, Runs, Silence
    <2>1. Control'
      BY DEF Control, Labels, Held
    <2>2. Processes'
      BY DEF Processes, Control, States, Held
    <2>3. Pipes'
      <3>1. left' \in [Streams -> 0..MaxOutput]
        <4>1. left \in [Streams -> 0..MaxOutput]
          BY DEF Pipes
        <4>2. left' = left \/ left' = [s \in Streams |-> 0]
          OBVIOUS
        <4> QED
          BY <4>1, <4>2 DEF CmdAssumption
      <3> QED
        BY <3>1 DEF Pipes, Filled
    <2>4. Held'
      BY DEF Held, Control, Labels, Processes, States, Pipes, Streams, Filled
    <2>5. NeverShort'
      BY DEF NeverShort, Held, Control, Processes, Pipes, Streams, Filled
    <2> QED
      BY <2>1, <2>2, <2>3, <2>4, <2>5
  <1>3. ASSUME NEW c \in Children, Dies(c) \/ WakesToDie(c) PROVE Inv'
    <2> USE <1>3 DEF Dies, WakesToDie
    <2>1. Control'
      BY DEF Control, Labels, Held
    <2>2. Processes'
      BY DEF Processes, Control, States, Held
    <2>3. Pipes'
      BY DEF Pipes, Control, Streams, Filled
    <2>4. Held'
      BY DEF Held, Control, Labels, Processes, States, Pipes, Streams, Filled
    <2>5. NeverShort'
      BY DEF NeverShort, Held, Control, Processes, Pipes, Streams, Filled
    <2> QED
      BY <2>1, <2>2, <2>3, <2>4, <2>5
  <1>4. CASE Fork \/ LeaveGroup \/ HelperSticks \/ HelperWakes \/ HelperEnds
    <2> USE <1>4 DEF Fork, LeaveGroup, HelperSticks, HelperWakes, HelperEnds, Helper, Runs
    <2>1. Control'
      BY DEF Control, Labels, Held
    <2>2. Processes'
      <3>1. UNCHANGED <<proc, killed, child>>
        OBVIOUS
      <3> QED
        BY <3>1 DEF Processes
    <2>3. Pipes'
      BY DEF Pipes, Filled
    <2>4. Held'
      BY DEF Held, Control, Labels, Processes, States, Pipes, Streams, Filled
    <2>5. NeverShort'
      BY DEF NeverShort, Held, Control, Processes, Pipes, Streams, Filled
    <2> QED
      BY <2>1, <2>2, <2>3, <2>4, <2>5
  <1>5. ASSUME NEW s \in Streams, HelperWrites(s) PROVE Inv'
    <2> USE <1>5 DEF HelperWrites
    <2>1. Control'
      BY DEF Control, Labels, Held
    <2>2. Processes'
      BY DEF Processes, Control, States, Held
    <2>3. Pipes'
      <3>1. spare \in 0..MaxNoise /\ spare > 0 /\ spare' = spare - 1
        BY DEF Pipes
      <3>2. spare' \in 0..MaxNoise
        <4> HIDE <1>5
        <4> HIDE DEF Inv, TypeOK
        <4> QED
          BY <3>1, CmdAssumption DEF CmdAssumption
      <3>3. /\ Pipes /\ left' \in [Streams -> 0..MaxOutput] /\ UNCHANGED <<helper, due>>
            /\ Filled(s) < Capacity /\ noise' = [noise EXCEPT ![s] = @ + 1]
        BY DEF Pipes
      <3> QED
        BY <3>2, <3>3, OneWritten
    <2>4. Held'
      BY DEF Held, Control, Labels, Processes, States, Pipes, Streams, Filled
    <2>5. NeverShort'
      BY DEF NeverShort, Held, Control, Processes, Pipes, Streams, Filled
    <2> QED
      BY <2>1, <2>2, <2>3, <2>4, <2>5
  <1>6. CASE Deadline \/ \E s \in Streams : Breaks(s)
    <2> USE <1>6 DEF Deadline, Breaks
    <2>1. Control'
      BY DEF Control, Labels, Held
    <2>2. Processes'
      BY DEF Processes, Control, States, Held
    <2>3. Pipes'
      BY DEF Pipes, Control, Streams, Filled
    <2>4. Held'
      BY DEF Held, Control, Labels, Processes, States, Pipes, Streams, Filled
    <2>5. NeverShort'
      BY DEF NeverShort, Held, Control, Processes, Pipes, Streams, Filled
    <2> QED
      BY <2>1, <2>2, <2>3, <2>4, <2>5
  <1>7. CASE SpawnFails \/ UnblockFails \/ WaitFails
    <2> USE <1>7 DEF SpawnFails, UnblockFails, WaitFails, Return
    <2>1. Control'
      BY DEF Control, Labels, Held
    <2>2. Processes'
      <3>1. CASE SpawnFails
        BY <3>1 DEF Processes, Control
      <3>2. CASE UnblockFails
        BY <3>2 DEF Processes, Control, States, Held
      <3>3. CASE WaitFails
        BY <3>3 DEF Processes
      <3> QED
        BY <3>1, <3>2, <3>3
    <2>3. Pipes'
      BY DEF Pipes, Control, Streams, Filled
    <2>4. Held'
      BY DEF Held, Control, Labels, Processes, States, Pipes, Streams, Filled
    <2>5. NeverShort'
      BY DEF NeverShort, Held, Control, Processes, Pipes, Streams, Filled
    <2> QED
      BY <2>1, <2>2, <2>3, <2>4, <2>5
  <1> QED
    BY <1>1, <1>2, <1>3, <1>4, <1>5, <1>6, <1>7 DEF Environment, ChildWorks

LEMMA Invariance == Spec => []Inv
  <1>1. Inv /\ UNCHANGED vars => Inv'
    BY DEF Inv, TypeOK, Control, Processes, Pipes, Held, NeverShort, Filled, vars, process, caller, limits
  <1>2. Inv /\ [Next]_vars => Inv'
    BY <1>1, StepInv, EnvironmentInv DEF Next
  <1> QED
    BY InitInv, <1>2, PTL DEF Spec

\* The killed list is exactly the killed children nobody has collected, for
\* any number of them (cmd.rs, KILLED, reap_killed, remember_killed).
THEOREM TypeCorrect == Spec => []TypeOK
  <1>1. Inv => TypeOK
    BY DEF Inv
  <1> QED
    BY <1>1, Invariance, PTL

\* An answer is what the child wrote, all of it, whatever the pipes hold and
\* however much it says (cmd.rs, run_status: the drain after the exit).
THEOREM WholeAnswers == Spec => []NeverShort
  <1>1. Inv => NeverShort
    BY DEF Inv
  <1> QED
    BY <1>1, Invariance, PTL

\* A call that gave up has killed its child and all of the child's group.
THEOREM NothingLeftRunning == Spec => []NoHalfLeft
  <1>1. Inv => NoHalfLeft
    BY DEF Inv, TypeOK, Control, Processes, Held, NoHalfLeft
  <1> QED
    BY <1>1, Invariance, PTL
=============================================================================
