----------------------------- MODULE BoundedCmd -----------------------------
(***************************************************************************)
(* One call of a tool after the other (cmd.rs, run_status): a child with   *)
(* two pipes that are read in the poll that waits for it, a deadline, the  *)
(* kill of its process group, and the list of killed children that have    *)
(* not been collected.  The child, and a helper it may leave behind, do as *)
(* they like in between.                                                   *)
(*                                                                         *)
(* Output is counted in units: what one read takes.                        *)
(***************************************************************************)
EXTENDS Naturals, FiniteSets

CONSTANTS
    Children,    \* names for the processes that there can be at once
    None,        \* no child
    Capacity,    \* units that fit into a pipe
    MaxOutput,   \* bound: units a child writes to one stream
    MaxNoise,    \* bound: units its helper writes
    Fragile      \* bound: the streams whose reads may come to fail

ASSUME CmdAssumption ==
    /\ None \notin Children
    /\ Capacity \in Nat \ {0} /\ MaxOutput \in Nat /\ MaxNoise \in Nat

VARIABLES
    pc,          \* where run_status is
    child,       \* the child of this call
    proc,        \* per name, the state of the process
    killed,      \* KILLED: killed, and not collected yet
    left,        \* per stream, what the child has yet to write
    due,         \* per stream, what it wrote and nobody has read
    helper,      \* a process it started: in its group or out of it, stuck or not
    spare,       \* what the helper may yet write
    noise,       \* per stream, what the helper wrote and nobody has read
    ample,       \* whether the timeout is long enough for a child that works
    late,        \* whether it has passed
    broken,      \* streams that cannot be read any more
    answer       \* of the last call

process == <<proc, left, due, helper, spare, noise>>
caller == <<pc, child, killed, answer>>
limits == <<ample, late, broken>>
vars == <<process, caller, limits>>

Streams == {"stdout", "stderr"}
Silence == [s \in Streams |-> 0]
Wedged(c) == proc[c] \in {"hung", "stuck"}
Filled(s) == due[s] + noise[s]
Exhausted(s) == s \in broken \/ Filled(s) = 0

Init ==
    /\ pc = "idle" /\ child = None /\ killed = {} /\ answer = "none"
    /\ proc = [c \in Children |-> "free"]
    /\ left = Silence /\ due = Silence
    /\ helper = "none" /\ spare = 0 /\ noise = Silence
    /\ ample = TRUE /\ late = FALSE /\ broken = {}

-----------------------------------------------------------------------------
\* reap_killed.  One that cannot be waited for is not there to be collected.
\* Mutant: only the next kill collects.
ReapNothing ==
    /\ pc = "idle"
    /\ pc' = "spawn" /\ answer' = "none"
    /\ UNCHANGED <<process, limits, child, killed>>

Dead == {c \in killed : proc[c] = "zombie"}
Collected == [c \in Children |-> IF c \in Dead THEN "free" ELSE proc[c]]
Reap ==
    /\ pc = "idle"
    /\ killed' = killed \ Dead /\ proc' = Collected
    /\ pc' = "spawn" /\ answer' = "none"
    /\ UNCHANGED <<left, due, helper, spare, noise, limits, child>>

\* The child has its own process group and two empty pipes.
Spawn(c) ==
    /\ pc = "spawn" /\ proc[c] = "free"
    /\ child' = c /\ proc' = [proc EXCEPT ![c] = "running"]
    /\ left' \in [Streams -> 0..MaxOutput] /\ due' = Silence
    /\ helper' = "none" /\ spare' = MaxNoise /\ noise' = Silence
    /\ ample' \in BOOLEAN /\ late' = FALSE /\ broken' = {}
    /\ pc' = "unblock"
    /\ UNCHANGED <<killed, answer>>

Return(result) ==
    /\ pc' = "idle" /\ child' = None /\ answer' = result

SpawnFails ==
    /\ pc = "spawn"
    /\ Return("failed")
    /\ UNCHANGED <<process, limits, killed>>
NoneLeft == (\A c \in Children : proc[c] # "free") /\ SpawnFails

\* set_nonblocking.  If it fails the child is let go: neither killed nor
\* collected, and nobody's any more.
Unblock ==
    /\ pc = "unblock"
    /\ pc' = "stdout"
    /\ UNCHANGED <<process, limits, child, killed, answer>>
UnblockFails ==
    /\ pc = "unblock"
    /\ proc' = [proc EXCEPT ![child] = "free"]
    /\ Return("failed")
    /\ UNCHANGED <<left, due, helper, spare, noise, limits, killed>>

-----------------------------------------------------------------------------
\* drain: reads while there is something to read.  A read that fails ends it
\* as an empty pipe does.
Read(here, s) ==
    /\ pc = here /\ s \notin broken
    /\ \/ due[s] > 0 /\ due' = [due EXCEPT ![s] = @ - 1] /\ UNCHANGED noise
       \/ noise[s] > 0 /\ noise' = [noise EXCEPT ![s] = @ - 1] /\ UNCHANGED due
    /\ UNCHANGED <<proc, left, helper, spare, caller, limits>>
Dry(here, s, next) ==
    /\ pc = here /\ Exhausted(s)
    /\ pc' = next
    /\ UNCHANGED <<process, limits, child, killed, answer>>

\* Mutant: stderr is left for the end.
DrainTurnStdout ==
    Read("stdout", "stdout") \/ Dry("stdout", "stdout", "wait")

DrainTurn ==
    \/ Read("stdout", "stdout") \/ Dry("stdout", "stdout", "stderr")
    \/ Read("stderr", "stderr") \/ Dry("stderr", "stderr", "wait")

\* try_wait.  The child is collected when it has ended.
\* Mutant: the output is what the turns before have read.
ExitedAtOnce ==
    /\ pc = "wait" /\ proc[child] = "zombie"
    /\ proc' = [proc EXCEPT ![child] = "free"]
    /\ Return("ok")
    /\ UNCHANGED <<left, due, helper, spare, noise, limits, killed>>

Exited ==
    /\ pc = "wait" /\ proc[child] = "zombie"
    /\ proc' = [proc EXCEPT ![child] = "free"]
    /\ pc' = "last stdout"
    /\ UNCHANGED <<left, due, helper, spare, noise, limits, child, killed, answer>>

\* The writer is gone: what is in the pipes is the rest of it.
LastDrain ==
    \/ Read("last stdout", "stdout") \/ Dry("last stdout", "stdout", "last stderr")
    \/ Read("last stderr", "stderr")
    \/ /\ pc = "last stderr" /\ Exhausted("stderr")
       /\ Return("ok")
       /\ UNCHANGED <<process, limits, killed>>

\* It has not ended: sleep and go on, or, too late or after an error, kill.
Sleep ==
    /\ pc = "wait" /\ proc[child] # "zombie" /\ ~late
    /\ pc' = "stdout"
    /\ UNCHANGED <<process, limits, child, killed, answer>>
GiveUp ==
    /\ pc = "wait" /\ proc[child] # "zombie" /\ late
    /\ pc' = "kill"
    /\ UNCHANGED <<process, limits, child, killed, answer>>
WaitFails ==
    /\ pc = "wait"
    /\ pc' = "kill"
    /\ UNCHANGED <<process, limits, child, killed, answer>>

\* killpg: the child, and the helper if it is still in the group.  A process
\* in D state stays until it wakes.
\* Mutant: the child alone is killed.
Struck == IF proc[child] = "stuck" THEN "doomed"
          ELSE IF proc[child] = "zombie" THEN "zombie" ELSE "dying"
KillChild ==
    /\ pc = "kill"
    /\ proc' = [proc EXCEPT ![child] = Struck]
    /\ pc' = "remember"
    /\ UNCHANGED <<left, due, helper, spare, noise, limits, child, killed, answer>>

KillGroup ==
    /\ pc = "kill"
    /\ proc' = [proc EXCEPT ![child] = Struck]
    /\ helper' = CASE helper = "in group" -> "none" [] helper = "stuck" -> "doomed"
                   [] OTHER -> helper
    /\ pc' = "remember"
    /\ UNCHANGED <<left, due, spare, noise, limits, child, killed, answer>>

\* remember_killed: on the list, and the dead ones off it.
\* Mutants: the killed child is waited for; it is dropped.
RememberDead ==
    /\ pc = "remember" /\ proc[child] = "zombie"
    /\ proc' = [proc EXCEPT ![child] = "free"]
    /\ Return("killed")
    /\ UNCHANGED <<left, due, helper, spare, noise, limits, killed>>

Forget ==
    /\ pc = "remember"
    /\ killed' = killed \ Dead /\ proc' = Collected
    /\ Return("killed")
    /\ UNCHANGED <<left, due, helper, spare, noise, limits>>

RememberKilled ==
    /\ pc = "remember"
    /\ LET list == killed \cup {child}
           dead == {c \in list : proc[c] = "zombie"}
       IN /\ killed' = list \ dead
          /\ proc' = [c \in Children |-> IF c \in dead THEN "free" ELSE proc[c]]
    /\ Return("killed")
    /\ UNCHANGED <<left, due, helper, spare, noise, limits>>

Step ==
    \/ \E c \in Children : Spawn(c)
    \/ NoneLeft \/ Reap \/ Unblock \/ DrainTurn \/ Exited \/ LastDrain \/ Sleep \/ GiveUp
    \/ KillGroup \/ RememberKilled

-----------------------------------------------------------------------------
\* The child of this call: it writes, blocks on a full pipe, ends with its
\* output said or before, waits for something that does not come, or is stuck
\* in uninterruptible sleep.
Runs == child # None /\ proc[child] = "running"

Write(s) ==
    /\ Runs /\ left[s] > 0 /\ Filled(s) < Capacity
    /\ left' = [left EXCEPT ![s] = @ - 1] /\ due' = [due EXCEPT ![s] = @ + 1]
    /\ UNCHANGED <<proc, helper, spare, noise, caller, limits>>
Becomes(state) ==
    /\ Runs
    /\ proc' = [proc EXCEPT ![child] = state]
    /\ UNCHANGED <<due, helper, spare, noise, caller, limits>>
Finish == left = Silence /\ Becomes("zombie") /\ UNCHANGED left
Crash == Becomes("zombie") /\ left' = Silence
Hang == Becomes("hung") /\ UNCHANGED left
Stick == Becomes("stuck") /\ UNCHANGED left

\* Anything killed dies, and what was stuck may, some day.
Dies(c) ==
    /\ proc[c] = "dying"
    /\ proc' = [proc EXCEPT ![c] = "zombie"]
    /\ UNCHANGED <<left, due, helper, spare, noise, caller, limits>>
WakesToDie(c) ==
    /\ proc[c] = "doomed"
    /\ proc' = [proc EXCEPT ![c] = "dying"]
    /\ UNCHANGED <<left, due, helper, spare, noise, caller, limits>>

\* Its helper: it has the pipes too, and may outlive it.
Helper(new) ==
    /\ helper' = new
    /\ UNCHANGED <<proc, left, due, spare, noise, caller, limits>>
Fork == Runs /\ helper = "none" /\ Helper("in group")
LeaveGroup == helper = "in group" /\ Helper("on its own")
HelperSticks == helper = "in group" /\ Helper("stuck")
HelperWakes == helper = "stuck" /\ Helper("in group")
HelperEnds == helper \in {"in group", "on its own", "doomed"} /\ Helper("none")
HelperWrites(s) ==
    /\ helper \in {"in group", "on its own"} /\ child # None /\ spare > 0 /\ Filled(s) < Capacity
    /\ spare' = spare - 1 /\ noise' = [noise EXCEPT ![s] = @ + 1]
    /\ UNCHANGED <<proc, left, due, helper, caller, limits>>

\* Reads of a pipe fail from now on.
Breaks(s) ==
    /\ child # None /\ s \in Fragile \ broken
    /\ broken' = broken \cup {s}
    /\ UNCHANGED <<process, caller, ample, late>>

\* An ample timeout passes only for a child that does not work, or whose pipe
\* nobody reads.
Deadline ==
    /\ child # None /\ ~late
    /\ ample => Wedged(child) \/ broken # {}
    /\ late' = TRUE
    /\ UNCHANGED <<process, caller, ample, broken>>

ChildWorks == Finish \/ \E s \in Streams : Write(s)
Environment ==
    \/ ChildWorks \/ Crash \/ Hang \/ Stick
    \/ \E c \in Children : Dies(c) \/ WakesToDie(c)
    \/ Fork \/ LeaveGroup \/ HelperSticks \/ HelperWakes \/ HelperEnds
    \/ \E s \in Streams : HelperWrites(s) \/ Breaks(s)
    \/ Deadline
    \/ SpawnFails \/ UnblockFails \/ WaitFails

Next == Step \/ Environment
Spec == Init /\ [][Next]_vars

\* The caller goes on and time passes; a child that is neither hung nor stuck
\* goes on while it can, and a process that was killed dies unless it is stuck.
FairSpec ==
    /\ Spec
    /\ WF_vars(Step) /\ WF_vars(Deadline) /\ WF_vars(ChildWorks)
    /\ \A c \in Children : WF_vars(Dies(c))

-----------------------------------------------------------------------------
Labels == {"idle", "spawn", "unblock", "stdout", "stderr", "wait",
           "last stdout", "last stderr", "kill", "remember"}

States == {"free", "running", "hung", "stuck", "dying", "doomed", "zombie"}
Control ==
    /\ pc \in Labels
    /\ child \in Children \cup {None}
    /\ child = None <=> pc \in {"idle", "spawn"}
    /\ ample \in BOOLEAN /\ late \in BOOLEAN /\ broken \subseteq Streams
    /\ answer \in {"none", "ok", "failed", "killed"}
Processes ==
    /\ proc \in [Children -> States]
    /\ killed = {c \in Children : proc[c] # "free"} \ {child}
    /\ \A c \in killed : proc[c] \in {"dying", "doomed", "zombie"}
Pipes ==
    /\ left \in [Streams -> 0..MaxOutput]
    /\ due \in [Streams -> 0..Capacity] /\ noise \in [Streams -> 0..Capacity]
    /\ \A s \in Streams : Filled(s) <= Capacity
    /\ helper \in {"none", "in group", "on its own", "stuck", "doomed"}
    /\ spare \in 0..MaxNoise

\* The list holds killed children and no others; a process is never collected
\* twice, nor this call's child by way of the list.
TypeOK == Control /\ Processes /\ Pipes

\* No short answer: when a call returns output, everything its child wrote has
\* been read, though the child wrote up to its end and the last look at the
\* pipes before that was earlier ("that must not be representable"); but for a
\* pipe that cannot be read, which `drain` takes for an empty one.
NeverShort ==
    answer = "ok" => \A s \in Streams \ broken : due[s] = 0

\* A call that misses its deadline leaves nothing of it that goes on: neither
\* the child nor a helper in its group runs, and one that is stuck dies when it
\* wakes.
NoHalfLeft ==
    answer = "killed" => /\ helper \notin {"in group", "stuck"}
                         /\ \A c \in killed : proc[c] \notin {"running", "hung", "stuck"}

\* Every call ends: with a child that is stuck for good, with one that writes
\* more than fits into its pipes and would wait for ever for somebody to read
\* them (its timeout does not pass if it is ample), with a helper that keeps
\* them open, with a pipe that cannot be read.
CallEnds == pc = "spawn" ~> pc = "idle"

\* A kill that worked is collected by the calls that follow, however they end.
ZombiesCollected ==
    \A c \in Children : (c \in killed /\ proc[c] = "zombie") ~> c \notin killed
=============================================================================
