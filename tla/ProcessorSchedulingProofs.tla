--------------------- MODULE ProcessorSchedulingProofs ---------------------
(***************************************************************************)
(* Theorems about ProcessorScheduling, for any number of instances, jobs,  *)
(* runs, faults and restarts.                                              *)
(*                                                                         *)
(* A step either leaves every loop as it is, starts one, moves one, ends   *)
(* one, or belongs to the closing of an instance (StepKinds).  What the    *)
(* invariants say of loops is shown to survive these kinds; what they say  *)
(* of timers is shown action by action.                                    *)
(***************************************************************************)
EXTENDS ProcessorScheduling, WellFoundedInduction, TLAPS

-----------------------------------------------------------------------------
(* Types.                                                                  *)

States == [at : {"off", "count", "find", "found", "beaten", "work", "lost"},
           job : Jobs \cup {NoJob}, done : 0 .. BatchSize - 1]

RunsOK(runs) == runs \in [Instances -> [Runs -> States]]

USE SchedulingAssumption DEF NoJob, ErrorRetry

Ats == {"off", "count", "find", "found", "beaten", "work", "lost"}

MovedTo(x, at) == [x EXCEPT !.at = at]

\* A record of States with another `at`.
LEMMA Moving ==
    ASSUME NEW x \in States, NEW at \in Ats
    PROVE  /\ MovedTo(x, at) \in States
           /\ MovedTo(x, at).at = at
           /\ at = x.at => MovedTo(x, at) = x
  BY DEF States, Ats, MovedTo

LEMMA OffState == Off \in States /\ Off.at = "off" /\ Off.job = NoJob
  BY DEF Off, States

FirstState == [Off EXCEPT !.at = "count"]

LEMMA StartState == FirstState \in States /\ FirstState.at = "count"
  BY DEF Off, States, FirstState

WithRun(runs, i, r, x) == [runs EXCEPT ![i][r] = x]

\* Updating one run.
LEMMA OneRunUpdated ==
    ASSUME NEW runs, RunsOK(runs), NEW i \in Instances, NEW r \in Runs, NEW x \in States
    PROVE  /\ RunsOK(WithRun(runs, i, r, x))
           /\ WithRun(runs, i, r, x)[i][r] = x
           /\ \A k \in Instances, s \in Runs :
                (k # i \/ s # r) => WithRun(runs, i, r, x)[k][s] = runs[k][s]
  BY DEF RunsOK, WithRun

LEMMA OvertakenRuns ==
    ASSUME RunsOK(run), NEW j \in Jobs
    PROVE  /\ RunsOK(Overtaken(j))
           /\ \A k \in Instances, s \in Runs :
                /\ run[k][s].at = "off" => Overtaken(j)[k][s] = run[k][s]
                /\ run[k][s].at # "off" => Overtaken(j)[k][s].at # "off"
                /\ Overtaken(j)[k][s].at \in {"find", "found"} => run[k][s].at \in {"find", "found"}
  <1> DEFINE now(x) == IF x.job # j THEN x.at
                       ELSE CASE x.at = "found" -> "beaten" [] x.at = "work" -> "lost" [] OTHER -> x.at
  <1>1. Overtaken(j) = [i \in Instances |-> [r \in Runs |-> [run[i][r] EXCEPT !.at = now(run[i][r])]]]
    BY DEF Overtaken
  <1>2. ASSUME NEW x \in States
        PROVE  /\ now(x) \in {"off", "count", "find", "found", "beaten", "work", "lost"}
               /\ x.at = "off" => now(x) = x.at
               /\ x.at # "off" => now(x) # "off"
               /\ now(x) \in {"find", "found"} => x.at \in {"find", "found"}
    BY DEF States
  <1>3. ASSUME NEW k \in Instances, NEW s \in Runs
        PROVE  /\ Overtaken(j)[k][s] \in States
               /\ Overtaken(j)[k][s].at = now(run[k][s])
               /\ now(run[k][s]) = run[k][s].at => Overtaken(j)[k][s] = run[k][s]
    <2>1. run[k][s] \in States
      BY DEF RunsOK
    <2>2. Overtaken(j)[k][s] = MovedTo(run[k][s], now(run[k][s]))
      BY <1>1 DEF MovedTo
    <2>3. now(run[k][s]) \in Ats
      BY <1>2, <2>1 DEF Ats
    <2> HIDE DEF now
    <2>4. QED
      BY <2>1, <2>2, <2>3, Moving
  <1> HIDE DEF now
  <1>4. RunsOK(Overtaken(j))
    BY <1>1, <1>3 DEF RunsOK
  <1>5. QED
    BY <1>2, <1>3, <1>4 DEF RunsOK

\* Every set of numbers that is not empty has a least one.
LEMMA SmallestNat ==
    ASSUME NEW S \in SUBSET Nat, S # {}
    PROVE  \E j \in S : \A k \in S : j <= k
  <1>1. PICK j \in S : \A k \in S : <<k, j>> \notin OpToRel(<, Nat)
    BY NatLessThanWellFounded, WFMin
  <1>2. \A k \in S : ~ (k < j)
    BY <1>1 DEF OpToRel
  <1>3. QED
    BY <1>2

-----------------------------------------------------------------------------
(* What a step does to the loops.                                          *)

Searching == {"find", "found"}

\* Only run r of instance i may start or end; others at most lose the job they found or work on.
Elsewhere(i, r) ==
    \A k \in Instances, s \in Runs : (k # i \/ s # r) =>
        /\ run[k][s].at = "off" => run'[k][s] = run[k][s]
        /\ run[k][s].at # "off" => run'[k][s].at # "off"
        /\ run'[k][s].at \in Searching => run[k][s].at \in Searching

\* A run that goes on in a closed instance does not begin to search.
Moves(i, r) ==
    /\ RunsOK(run')
    /\ run[i][r].at # "off" /\ run'[i][r].at # "off"
    /\ Elsewhere(i, r)
    /\ closed[i] /\ run'[i][r].at \in Searching => run[i][r].at \in Searching
    /\ UNCHANGED <<control, lateClaims>>

Claims(i, r) ==
    /\ RunsOK(run')
    /\ run[i][r].at = "found" /\ run'[i][r].at = "work"
    /\ Elsewhere(i, r)
    /\ lateClaims' = IF closed[i] THEN [lateClaims EXCEPT ![i] = @ + 1] ELSE lateClaims
    /\ UNCHANGED control

Ends(i, r) ==
    /\ RunsOK(run')
    /\ run[i][r].at # "off" /\ run'[i][r] = Off
    /\ Elsewhere(i, r)
    /\ processing' = [processing EXCEPT ![i] = FALSE]
    /\ activeRun' \in [Instances -> Runs \cup {NoRun}]
    /\ \A k \in Instances \ {i} : activeRun'[k] = activeRun[k]
    /\ UNCHANGED <<closed, lateClaims>>

LEMMA MoveOne ==
    ASSUME RunsOK(run), NEW i \in Instances, NEW r \in Runs, NEW x \in States,
           run[i][r].at # "off", x.at # "off",
           run' = WithRun(run, i, r, x)
    PROVE  RunsOK(run') /\ run'[i][r] = x /\ Elsewhere(i, r)
  <1>1. /\ RunsOK(run') /\ run'[i][r] = x
        /\ \A k \in Instances, s \in Runs : (k # i \/ s # r) => run'[k][s] = run[k][s]
    BY OneRunUpdated
  <1>2. QED
    BY <1>1 DEF Elsewhere

LEMMA LeaveOne ==
    ASSUME RunsOK(run), activeRun \in [Instances -> Runs \cup {NoRun}],
           NEW i \in Instances, NEW r \in Runs, NEW runs,
           run[i][r].at # "off",
           runs = run \/ \E j \in Jobs : runs = Overtaken(j),
           Leave(i, r, runs), UNCHANGED lateClaims
    PROVE  Ends(i, r)
  <1>1. /\ RunsOK(runs)
        /\ \A k \in Instances, s \in Runs :
             /\ run[k][s].at = "off" => runs[k][s] = run[k][s]
             /\ run[k][s].at # "off" => runs[k][s].at # "off"
             /\ runs[k][s].at \in Searching => run[k][s].at \in Searching
    <2>1. CASE runs = run
      BY <2>1
    <2>2. CASE \E j \in Jobs : runs = Overtaken(j)
      BY <2>2, OvertakenRuns DEF Searching
    <2>3. QED
      BY <2>1, <2>2
  <1>2. run' = WithRun(runs, i, r, Off)
    BY DEF Leave, WithRun
  <1>3. /\ RunsOK(run') /\ run'[i][r] = Off
        /\ \A k \in Instances, s \in Runs : (k # i \/ s # r) => run'[k][s] = runs[k][s]
    BY <1>1, <1>2, OneRunUpdated, OffState
  <1>4. Elsewhere(i, r)
    BY <1>1, <1>3 DEF Elsewhere
  <1>5. /\ processing' = [processing EXCEPT ![i] = FALSE]
        /\ activeRun' \in [Instances -> Runs \cup {NoRun}]
        /\ \A k \in Instances \ {i} : activeRun'[k] = activeRun[k]
        /\ UNCHANGED closed
    BY DEF Leave
  <1>6. QED
    BY <1>3, <1>4, <1>5 DEF Ends

LEMMA NextJobKinds ==
    ASSUME TypeOK, NEW i \in Instances, NEW r \in Runs, run[i][r].at # "off",
           NEW done \in 0 .. BatchSize, NextJob(i, r, done), UNCHANGED lateClaims
    PROVE  Moves(i, r) \/ Ends(i, r)
  <1>0. RunsOK(run) /\ activeRun \in [Instances -> Runs \cup {NoRun}]
    BY DEF TypeOK, RunsOK, States
  <1>1. CASE closed[i] \/ done = BatchSize
    <2>1. Leave(i, r, run)
      BY <1>1 DEF NextJob, Finish
    <2>2. QED
      BY <1>0, <2>1, LeaveOne
  <1>2. CASE ~ (closed[i] \/ done = BatchSize)
    <2> DEFINE x == [at |-> "find", job |-> NoJob, done |-> done]
    <2>1. run' = WithRun(run, i, r, x) /\ UNCHANGED control
      BY <1>2 DEF NextJob, AskForJob, WithRun
    <2>2. x \in States /\ x.at # "off"
      BY <1>2 DEF States
    <2> HIDE DEF x
    <2>3. RunsOK(run') /\ run'[i][r] = x /\ Elsewhere(i, r)
      BY <1>0, <2>1, <2>2, MoveOne
    <2>4. QED
      BY <1>2, <2>1, <2>2, <2>3 DEF Moves
  <1>3. QED
    BY <1>1, <1>2
\* The two ways in which a run claims a job.
LEMMA ClaimKind ==
    ASSUME TypeOK, NEW i \in Instances, NEW r \in Runs, Claim(i, r)
    PROVE  Claims(i, r)
  <1> DEFINE j == run[i][r].job
             x == MovedTo(Overtaken(j)[i][r], "work")
  <1>0. RunsOK(run) /\ j \in Jobs
    BY DEF TypeOK, RunsOK, States, Claim
  <1>1. run' = WithRun(Overtaken(j), i, r, x)
    BY DEF Claim, WithRun, MovedTo
  <1>2. run[i][r].at = "found"
    BY DEF Claim
  <1> HIDE DEF j
  <1>3. RunsOK(Overtaken(j)) /\ Overtaken(j)[i][r] \in States
    BY <1>0, OvertakenRuns DEF RunsOK
  <1>4. x \in States /\ x.at = "work"
    BY <1>3, Moving DEF Ats
  <1> HIDE DEF x
  <1>5. /\ RunsOK(run') /\ run'[i][r] = x
        /\ \A k \in Instances, s \in Runs : (k # i \/ s # r) => run'[k][s] = Overtaken(j)[k][s]
    BY <1>1, <1>3, <1>4, OneRunUpdated, SMTT(20)
  <1>6. Elsewhere(i, r)
    BY <1>0, <1>5, OvertakenRuns DEF Elsewhere, Searching
  <1>7. /\ lateClaims' = IF closed[i] THEN [lateClaims EXCEPT ![i] = @ + 1] ELSE lateClaims
        /\ UNCHANGED control
    BY DEF Claim, fields
  <1>8. QED
    BY <1>2, <1>4, <1>5, <1>6, <1>7 DEF Claims

LEMMA LoopFailsKind ==
    ASSUME TypeOK, NEW i \in Instances, NEW r \in Runs, LoopFails(i, r)
    PROVE  Ends(i, r)
  <1>0. /\ RunsOK(run) /\ activeRun \in [Instances -> Runs \cup {NoRun}]
        /\ run[i][r].at # "off" /\ run[i][r].job \in Jobs \cup {NoJob}
    BY DEF TypeOK, RunsOK, States, LoopFails
  <1>1. UNCHANGED lateClaims
    BY DEF LoopFails
  <1>2. CASE Reject(i, r, run)
    BY <1>0, <1>1, <1>2, LeaveOne DEF Reject
  <1>3. CASE run[i][r].job # NoJob /\ Reject(i, r, Overtaken(run[i][r].job))
    <2>1. run[i][r].job \in Jobs
      BY <1>0, <1>3
    <2>2. QED
      BY <1>0, <1>1, <1>3, <2>1, LeaveOne DEF Reject
  <1>4. QED
    BY <1>2, <1>3 DEF LoopFails

LEMMA RunStepKinds ==
    ASSUME TypeOK, NEW i \in Instances, NEW r \in Runs, RunStep(i, r)
    PROVE  /\ Moves(i, r) \/ Claims(i, r) \/ Ends(i, r)
           /\ UNCHANGED <<shutdown, restarts>>
  <1>0. /\ RunsOK(run) /\ activeRun \in [Instances -> Runs \cup {NoRun}]
        /\ 0 \in 0 .. BatchSize
        /\ run[i][r].done + 1 \in 0 .. BatchSize
    BY DEF TypeOK, RunsOK, States
  <1>1. CASE CountBacklog(i, r)
    BY <1>0, <1>1, NextJobKinds DEF CountBacklog, bounds
  <1>2. CASE FindInTable(i, r)
    <2> DEFINE S == {j \in Jobs : Claimable(j)}
               x == [at |-> "found", job |-> IF S = {} THEN NoJob ELSE Oldest(S), done |-> run[i][r].done]
    <2>1. run' = WithRun(run, i, r, x)
      BY <1>2 DEF FindInTable, WithRun
    <2>2. run[i][r].at = "find" /\ UNCHANGED <<control, lateClaims, shutdown, restarts>>
      BY <1>2 DEF FindInTable, fields, bounds
    <2>3. S # {} => Oldest(S) \in Jobs
      <3>1. ASSUME S # {}
            PROVE  \E j \in S : \A k \in S : j <= k
        <4>1. S \subseteq Nat
          BY DEF SchedulingAssumption
        <4>2. QED
          BY <3>1, <4>1, SmallestNat
      <3>2. QED
        BY <3>1 DEF Oldest
    <2>4. x \in States /\ x.at = "found"
      <3>1. run[i][r].done \in 0 .. BatchSize - 1
        BY <1>0 DEF RunsOK, States
      <3>2. (IF S = {} THEN NoJob ELSE Oldest(S)) \in Jobs \cup {NoJob}
        BY <2>3
      <3> HIDE DEF S
      <3>3. QED
        BY <3>1, <3>2 DEF States
    <2> HIDE DEF x
    <2>5. RunsOK(run') /\ run'[i][r] = x /\ Elsewhere(i, r)
      BY <1>0, <2>1, <2>2, <2>4, MoveOne
    <2>6. QED
      BY <2>2, <2>4, <2>5 DEF Moves, Searching
  <1>3. CASE FoundNothing(i, r)
    BY <1>0, <1>3, LeaveOne DEF FoundNothing, Finish, bounds
  <1>4. CASE Claim(i, r)
    BY <1>4, ClaimKind DEF Claim, bounds
  <1>5. CASE LoopFails(i, r)
    BY <1>5, LoopFailsKind DEF LoopFails, Fault
  <1>6. CASE Settle(i, r)
    BY <1>0, <1>6, NextJobKinds DEF Settle, bounds
  <1>7. CASE SetBack(i, r)
    BY <1>0, <1>7, NextJobKinds DEF SetBack, HasLease, bounds
  <1>8. CASE WorkFails(i, r)
    <2>1. run[i][r].at # "off" /\ Leave(i, r, run) /\ UNCHANGED <<lateClaims, shutdown, restarts>>
      BY <1>8 DEF WorkFails, Reject, Fault
    <2>2. QED
      BY <1>0, <2>1, LeaveOne
  <1>9. QED
    BY <1>1, <1>2, <1>3, <1>4, <1>5, <1>6, <1>7, <1>8 DEF RunStep
-----------------------------------------------------------------------------
(* The loops.                                                              *)

\* A run that is over keeps no job and no count.
OffIsOff == \A i \in Instances, r \in Runs : run[i][r].at = "off" => run[i][r] = Off

LoopsInv ==
    /\ OffIsOff
    /\ \A i \in Instances : processing[i] <=> \E r \in Runs : run[i][r].at # "off"
    /\ \A i \in Instances : \A r, s \in Runs :
         run[i][r].at # "off" /\ run[i][s].at # "off" => r = s

\* Closing: what is disconnected is closed, and a late claim leaves nothing to claim with.
ClosingInv ==
    \A i \in Instances :
        /\ disconnected[i] => closed[i]
        /\ disconnected[i] /\ awaited[i] # NoRun => run[i][awaited[i]].at = "off"
        /\ \/ lateClaims[i] = 0
           \/ /\ lateClaims[i] = 1
              /\ closed[i]
              /\ \A r \in Runs : run[i][r].at \notin Searching

Starts(i, r) ==
    /\ ~ closed[i] /\ ~ processing[i]
    /\ run' = WithRun(run, i, r, FirstState)
    /\ processing' = [processing EXCEPT ![i] = TRUE]
    /\ activeRun' = [activeRun EXCEPT ![i] = r]
    /\ UNCHANGED <<closed, shutdown, lateClaims>>

\* No loop starts, moves or ends, but an open provider may forget the one it has.
Quiet ==
    /\ activeRun' \in [Instances -> Runs \cup {NoRun}]
    /\ \A k \in Instances : activeRun'[k] = activeRun[k] \/ (~ closed[k] /\ activeRun'[k] = NoRun)
    /\ UNCHANGED <<run, processing, closed, shutdown, lateClaims>>

LEMMA StartKind ==
    ASSUME TypeOK, LoopsInv, NEW i \in Instances, RunImmediate(i)
    PROVE  Quiet \/ \E r \in Runs : Starts(i, r)
  <1>1. CASE ~ closed[i] /\ ~ processing[i]
    <2> DEFINE free == CHOOSE r \in Runs : run[i][r] = Off
    <2>1. \E r \in Runs : run[i][r] = Off
      BY <1>1 DEF LoopsInv, OffIsOff
    <2>2. free \in Runs
      BY <2>1
    <2>3. /\ run' = WithRun(run, i, free, FirstState)
          /\ processing' = [processing EXCEPT ![i] = TRUE]
          /\ UNCHANGED <<closed, shutdown, lateClaims>>
      BY <1>1 DEF RunImmediate, StartRun, WithRun, FirstState
    <2>4. activeRun' = [activeRun EXCEPT ![i] = free]
      BY <1>1 DEF RunImmediate, StartRun
    <2> HIDE DEF free
    <2>5. QED
      BY <1>1, <2>2, <2>3, <2>4 DEF Starts
  <1>2. CASE closed[i] \/ processing[i]
    BY <1>2 DEF RunImmediate, Quiet, control, TypeOK
  <1>3. QED
    BY <1>1, <1>2

\* Every step is of one of these kinds.
LEMMA StepKinds ==
    ASSUME TypeOK, LoopsInv, [Next]_vars
    PROVE  \/ Quiet
           \/ \E i \in Instances, r \in Runs :
                /\ Moves(i, r) \/ Claims(i, r) \/ Ends(i, r)
                /\ UNCHANGED shutdown
           \/ \E i \in Instances, r \in Runs : Starts(i, r)
           \/ \E i \in Instances : Close(i) \/ Disconnect(i) \/ Restart(i)
  <1>1. CASE UNCHANGED vars
    BY <1>1 DEF vars, Quiet, fields, control, shutdown, TypeOK
  <1>2. CASE \E j \in Jobs : BackoffElapses(j) \/ LeaseRunsOut(j) \/ RenewalsFail(j)
    BY <1>2 DEF BackoffElapses, LeaseRunsOut, RenewalsFail, Quiet, fields, control, shutdown, TypeOK
  <1>3. ASSUME NEW i \in Instances, NEW j \in Jobs, Commit(i, j) \/ Wake(i, j)
        PROVE  Quiet
    BY <1>3 DEF Commit, Wake, Quiet, fields, control, shutdown, TypeOK
  <1>4. ASSUME NEW i \in Instances, NEW k \in Timers, TimerFires(i, k)
        PROVE  Quiet
    BY <1>4 DEF TimerFires, Quiet, control, shutdown, TypeOK
  <1>5. ASSUME NEW i \in Instances, RunImmediate(i)
        PROVE  Quiet \/ \E r \in Runs : Starts(i, r)
    BY <1>5, StartKind
  <1>6. ASSUME NEW i \in Instances, NEW r \in Runs, RunStep(i, r)
        PROVE  /\ Moves(i, r) \/ Claims(i, r) \/ Ends(i, r)
               /\ UNCHANGED shutdown
    BY <1>6, RunStepKinds DEF shutdown
  <1>7. QED
    BY <1>1, <1>2, <1>3, <1>4, <1>5, <1>6 DEF Next, Step

LEMMA StartedRun ==
    ASSUME TypeOK, NEW i \in Instances, NEW r \in Runs, Starts(i, r)
    PROVE  /\ run'[i][r].at = "count"
           /\ \A k \in Instances, s \in Runs : (k # i \/ s # r) => run'[k][s] = run[k][s]
  <1>1. RunsOK(run)
    BY DEF TypeOK, RunsOK, States
  <1>2. QED
    BY <1>1, OneRunUpdated, StartState DEF Starts

LEMMA LoopsNext ==
    ASSUME TypeOK, LoopsInv, [Next]_vars
    PROVE  LoopsInv'
  <1>0. /\ RunsOK(run) /\ processing \in [Instances -> BOOLEAN]
        /\ Off.at = "off"
    BY OffState DEF TypeOK, RunsOK, States
  <1>1. CASE Quiet
    BY <1>1 DEF Quiet, LoopsInv, OffIsOff
  <1>2. ASSUME NEW i \in Instances, NEW r \in Runs, Moves(i, r) \/ Claims(i, r)
        PROVE  LoopsInv'
    <2>1. /\ run[i][r].at # "off" /\ run'[i][r].at # "off" /\ Elsewhere(i, r)
          /\ UNCHANGED processing
      BY <1>2 DEF Moves, Claims, control
    <2>2. QED
      BY <2>1 DEF LoopsInv, OffIsOff, Elsewhere
  <1>3. ASSUME NEW i \in Instances, NEW r \in Runs, Ends(i, r)
        PROVE  LoopsInv'
    <2>1. /\ run[i][r].at # "off" /\ run'[i][r] = Off /\ Elsewhere(i, r)
          /\ processing' = [processing EXCEPT ![i] = FALSE]
      BY <1>3 DEF Ends
    <2>2. \A k \in Instances : processing'[k] = IF k = i THEN FALSE ELSE processing[k]
      BY <1>0, <2>1
    <2>3. OffIsOff'
      BY <2>1 DEF LoopsInv, OffIsOff, Elsewhere
    <2>4. \A s \in Runs : run'[i][s].at = "off"
      BY <1>0, <2>1 DEF LoopsInv, Elsewhere
    <2>5. \A k \in Instances : k # i =>
            \A s \in Runs : run'[k][s].at # "off" <=> run[k][s].at # "off"
      BY <2>1 DEF Elsewhere
    <2>6. QED
      BY <2>2, <2>3, <2>4, <2>5, ZenonT(30) DEF LoopsInv
  <1>4. ASSUME NEW i \in Instances, NEW r \in Runs, Starts(i, r)
        PROVE  LoopsInv'
    <2>1. /\ run'[i][r].at = "count"
          /\ \A k \in Instances, s \in Runs : (k # i \/ s # r) => run'[k][s] = run[k][s]
      BY <1>4, StartedRun
    <2>2. ~ processing[i] /\ processing' = [processing EXCEPT ![i] = TRUE]
      BY <1>4 DEF Starts
    <2>3. processing'[i] /\ \A k \in Instances \ {i} : processing'[k] = processing[k]
      BY <1>0, <2>2
    <2>4. OffIsOff'
      BY <2>1 DEF LoopsInv, OffIsOff
    <2>5. \A s \in Runs : run[i][s].at = "off"
      BY <2>2 DEF LoopsInv
    <2>6. \A k \in Instances : processing'[k] <=> \E s \in Runs : run'[k][s].at # "off"
      BY <2>1, <2>3 DEF LoopsInv
    <2>7. \A k \in Instances : \A s, t \in Runs :
            run'[k][s].at # "off" /\ run'[k][t].at # "off" => s = t
      BY <2>1, <2>5 DEF LoopsInv
    <2>8. QED
      BY <2>4, <2>6, <2>7 DEF LoopsInv
  <1>5. ASSUME NEW i \in Instances, Close(i) \/ Disconnect(i)
        PROVE  LoopsInv'
    BY <1>5 DEF Close, Disconnect, LoopsInv, OffIsOff, fields, control
  <1>6. ASSUME NEW i \in Instances, Restart(i)
        PROVE  LoopsInv'
    <2>1. /\ \A r \in Runs : run'[i][r] = Off
          /\ \A k \in Instances : k # i => run'[k] = run[k]
      BY <1>0, <1>6 DEF Restart, RunsOK
    <2>2. ~ processing'[i] /\ \A k \in Instances \ {i} : processing'[k] = processing[k]
      BY <1>0, <1>6 DEF Restart
    <2>3. OffIsOff'
      BY <2>1 DEF LoopsInv, OffIsOff
    <2>4. \A k \in Instances : processing'[k] <=> \E s \in Runs : run'[k][s].at # "off"
      BY <1>0, <2>1, <2>2 DEF LoopsInv
    <2>5. \A k \in Instances : \A s, t \in Runs :
            run'[k][s].at # "off" /\ run'[k][t].at # "off" => s = t
      BY <1>0, <2>1 DEF LoopsInv
    <2>6. QED
      BY <2>3, <2>4, <2>5 DEF LoopsInv
  <1>7. QED
    BY <1>1, <1>2, <1>3, <1>4, <1>5, <1>6, StepKinds

LEMMA ClosingNext ==
    ASSUME TypeOK, LoopsInv, ClosingInv, [Next]_vars
    PROVE  ClosingInv'
  <1>0. /\ RunsOK(run) /\ Off.at = "off" /\ lateClaims \in [Instances -> Nat]
        /\ closed \in [Instances -> BOOLEAN] /\ disconnected \in [Instances -> BOOLEAN]
        /\ awaited \in [Instances -> Runs \cup {NoRun}]
        /\ activeRun \in [Instances -> Runs \cup {NoRun}]
    BY OffState DEF TypeOK, RunsOK, States
  <1>1. CASE Quiet
    BY <1>1 DEF Quiet, ClosingInv, shutdown
  <1>2. ASSUME NEW i \in Instances, NEW r \in Runs, Moves(i, r) \/ Ends(i, r), UNCHANGED shutdown
        PROVE  ClosingInv'
    <2>1. /\ run[i][r].at # "off" /\ Elsewhere(i, r)
          /\ closed[i] /\ run'[i][r].at \in Searching => run[i][r].at \in Searching
          /\ UNCHANGED <<closed, lateClaims, awaited, disconnected>>
      BY <1>0, <1>2 DEF Moves, Ends, control, shutdown, Searching
    <2>2. ASSUME NEW k \in Instances, NEW s \in Runs
          PROVE  /\ run[k][s].at = "off" => run'[k][s].at = "off"
                 /\ closed[k] /\ run'[k][s].at \in Searching => run[k][s].at \in Searching
      BY <2>1 DEF Elsewhere
    <2>3. QED
      BY <1>0, <2>1, <2>2 DEF ClosingInv
  <1>3. ASSUME NEW i \in Instances, NEW r \in Runs, Claims(i, r), UNCHANGED shutdown
        PROVE  ClosingInv'
    <2>1. /\ run[i][r].at = "found" /\ run'[i][r].at = "work" /\ Elsewhere(i, r)
          /\ lateClaims' = IF closed[i] THEN [lateClaims EXCEPT ![i] = @ + 1] ELSE lateClaims
          /\ UNCHANGED <<closed, awaited, disconnected>>
      BY <1>3 DEF Claims, control, shutdown
    <2>2. lateClaims[i] = 0
      BY <2>1 DEF ClosingInv, Searching
    <2>3. \A s \in Runs : run'[i][s].at \notin Searching
      BY <2>1 DEF LoopsInv, Elsewhere, Searching
    <2>4. /\ lateClaims'[i] = IF closed[i] THEN 1 ELSE 0
          /\ \A k \in Instances \ {i} : lateClaims'[k] = lateClaims[k]
      BY <1>0, <2>1, <2>2
    <2>5. ASSUME NEW k \in Instances, NEW s \in Runs
          PROVE  /\ run[k][s].at = "off" => run'[k][s].at = "off"
                 /\ run'[k][s].at \in Searching => run[k][s].at \in Searching
      BY <2>1, <2>3 DEF Elsewhere
    <2>6. QED
      BY <1>0, <2>1, <2>3, <2>4, <2>5 DEF ClosingInv
  <1>4. ASSUME NEW i \in Instances, NEW r \in Runs, Starts(i, r)
        PROVE  ClosingInv'
    <2>1. /\ run'[i][r].at = "count" /\ ~ closed[i]
          /\ \A k \in Instances, s \in Runs : (k # i \/ s # r) => run'[k][s] = run[k][s]
          /\ UNCHANGED <<closed, lateClaims, awaited, disconnected>>
      BY <1>4, StartedRun DEF Starts, shutdown
    <2>2. QED
      BY <1>0, <2>1 DEF ClosingInv, Searching
  <1>5. ASSUME NEW i \in Instances, Close(i)
        PROVE  ClosingInv'
    <2>1. /\ ~ closed[i] /\ closed' = [closed EXCEPT ![i] = TRUE]
          /\ awaited' = [awaited EXCEPT ![i] = activeRun[i]]
          /\ UNCHANGED <<run, disconnected, lateClaims>>
      BY <1>5 DEF Close
    <2>2. /\ closed'[i] /\ ~ disconnected[i]
          /\ \A k \in Instances \ {i} : closed'[k] = closed[k] /\ awaited'[k] = awaited[k]
      BY <1>0, <2>1 DEF ClosingInv
    <2>3. QED
      BY <2>1, <2>2 DEF ClosingInv
  <1>6. ASSUME NEW i \in Instances, Disconnect(i)
        PROVE  ClosingInv'
    <2>1. /\ closed[i] /\ (awaited[i] # NoRun => run[i][awaited[i]] = Off)
          /\ disconnected' = [disconnected EXCEPT ![i] = TRUE]
          /\ UNCHANGED <<run, closed, awaited, lateClaims>>
      BY <1>6 DEF Disconnect, fields, control
    <2>2. \A k \in Instances \ {i} : disconnected'[k] = disconnected[k]
      BY <1>0, <2>1
    <2>3. QED
      BY <1>0, <2>1, <2>2 DEF ClosingInv
  <1>7. ASSUME NEW i \in Instances, Restart(i)
        PROVE  ClosingInv'
    <2>1. /\ ~ disconnected'[i] /\ lateClaims'[i] = 0
          /\ \A k \in Instances \ {i} :
               /\ disconnected'[k] = disconnected[k] /\ closed'[k] = closed[k]
               /\ awaited'[k] = awaited[k] /\ run'[k] = run[k] /\ lateClaims'[k] = lateClaims[k]
      BY <1>0, <1>7 DEF Restart, RunsOK
    <2>2. QED
      BY <2>1 DEF ClosingInv
  <1>8. QED
    BY <1>1, <1>2, <1>3, <1>4, <1>5, <1>6, <1>7, StepKinds

-----------------------------------------------------------------------------
(* Types, and the timer the field refers to.                               *)

TableOK ==
    /\ job \in [Jobs -> {"none", "ready", "delayed", "leased", "expired", "done"}]
    /\ tries \in [Jobs -> 0 .. MaxAttempts]
    /\ setBackBy \in [Jobs -> Instances \cup {Nobody}]
    /\ owed \in [Instances -> SUBSET Jobs]

LoopsOK ==
    /\ processing \in [Instances -> BOOLEAN]
    /\ activeRun \in [Instances -> Runs \cup {NoRun}]
    /\ closed \in [Instances -> BOOLEAN]
    /\ RunsOK(run)
    /\ awaited \in [Instances -> Runs \cup {NoRun}]
    /\ disconnected \in [Instances -> BOOLEAN]
    /\ lateClaims \in [Instances -> Nat]

ImmediatesOK == immediates \in [Instances -> Nat]

TimersOK ==
    /\ timers \in [Instances -> [Timers -> Nat]]
    /\ retryTimer \in [Instances -> Timers \cup {NoTimer}]

TypeParts == TableOK /\ LoopsOK /\ ImmediatesOK /\ TimersOK

LEMMA PartsAreType == TypeOK <=> TypeParts
  BY DEF TypeOK, TypeParts, TableOK, LoopsOK, ImmediatesOK, TimersOK, RunsOK, States

LEMMA LoopsOKNext ==
    ASSUME TypeOK, LoopsInv, [Next]_vars
    PROVE  LoopsOK'
  <1>0. LoopsOK
    BY PartsAreType DEF TypeParts
  <1>1. CASE Quiet
    BY <1>0, <1>1 DEF Quiet, LoopsOK, shutdown
  <1>2. ASSUME NEW i \in Instances, NEW r \in Runs,
               Moves(i, r) \/ Claims(i, r) \/ Ends(i, r), UNCHANGED shutdown
        PROVE  LoopsOK'
    <2>1. /\ RunsOK(run') /\ UNCHANGED <<closed, awaited, disconnected>>
          /\ activeRun' \in [Instances -> Runs \cup {NoRun}]
          /\ processing' = processing \/ processing' = [processing EXCEPT ![i] = FALSE]
      BY <1>0, <1>2 DEF Moves, Claims, Ends, LoopsOK, control, shutdown
    <2>2. \/ lateClaims' = lateClaims
          \/ lateClaims' = [lateClaims EXCEPT ![i] = @ + 1]
      BY <1>2 DEF Moves, Claims, Ends
    <2>3. lateClaims' \in [Instances -> Nat]
      BY <1>0, <2>2 DEF LoopsOK
    <2>4. processing' \in [Instances -> BOOLEAN]
      BY <1>0, <2>1 DEF LoopsOK
    <2>5. QED
      BY <1>0, <2>1, <2>3, <2>4 DEF LoopsOK
  <1>3. ASSUME NEW i \in Instances, NEW r \in Runs, Starts(i, r)
        PROVE  LoopsOK'
    <2>1. run' = WithRun(run, i, r, FirstState)
      BY <1>3 DEF Starts
    <2>2. RunsOK(run')
      BY <1>0, <2>1, OneRunUpdated, StartState DEF LoopsOK
    <2>3. processing' \in [Instances -> BOOLEAN]
      BY <1>0, <1>3 DEF Starts, LoopsOK
    <2>4. activeRun' \in [Instances -> Runs \cup {NoRun}]
      BY <1>0, <1>3 DEF Starts, LoopsOK
    <2>5. QED
      BY <1>0, <1>3, <2>2, <2>3, <2>4 DEF Starts, LoopsOK, shutdown
  <1>4. ASSUME NEW i \in Instances, Close(i) \/ Disconnect(i)
        PROVE  LoopsOK'
    BY <1>0, <1>4 DEF Close, Disconnect, LoopsOK, fields, control
  <1>5. ASSUME NEW i \in Instances, Restart(i)
        PROVE  LoopsOK'
    <2>1. RunsOK(run')
      BY <1>0, <1>5, OffState DEF Restart, LoopsOK, RunsOK
    <2>2. QED
      BY <1>0, <1>5, <2>1 DEF Restart, LoopsOK
  <1>6. QED
    BY <1>1, <1>2, <1>3, <1>4, <1>5, StepKinds

LEMMA TableOKNext ==
    ASSUME TypeOK, [Next]_vars
    PROVE  TableOK'
  <1>0. TableOK /\ RunsOK(run)
    BY PartsAreType DEF TypeParts, LoopsOK
  <1>1. CASE UNCHANGED vars
    BY <1>0, <1>1 DEF vars, table, TableOK
  <1>2. ASSUME NEW j \in Jobs, BackoffElapses(j) \/ LeaseRunsOut(j) \/ RenewalsFail(j)
        PROVE  TableOK'
    BY <1>0, <1>2 DEF BackoffElapses, LeaseRunsOut, RenewalsFail, TableOK
  <1>3. ASSUME NEW i \in Instances, NEW j \in Jobs, Commit(i, j) \/ Wake(i, j)
        PROVE  TableOK'
    BY <1>0, <1>3 DEF Commit, Wake, TableOK, table
  <1>4. ASSUME NEW i \in Instances,
               RunImmediate(i) \/ Close(i) \/ Disconnect(i) \/ \E k \in Timers : TimerFires(i, k)
        PROVE  TableOK'
    BY <1>0, <1>4 DEF RunImmediate, Close, Disconnect, TimerFires, TableOK, table
  <1>5. ASSUME NEW i \in Instances, Restart(i)
        PROVE  TableOK'
    BY <1>0, <1>5 DEF Restart, TableOK
  <1>6. ASSUME NEW i \in Instances, NEW r \in Runs, RunStep(i, r)
        PROVE  TableOK'
    <2> DEFINE j == run[i][r].job
    <2>1. j \in Jobs \cup {NoJob}
      BY <1>0 DEF RunsOK, States
    <2>2. owed' = owed
      BY <1>6 DEF RunStep, CountBacklog, FindInTable, FoundNothing, Claim, LoopFails, Settle, SetBack,
                  WorkFails
    <2>3. CASE UNCHANGED table
      BY <1>0, <2>2, <2>3 DEF TableOK, table
    <2>4. CASE TakeLease(j)
      <3>1. job' \in [Jobs -> {"none", "ready", "delayed", "leased", "expired", "done"}]
        BY <1>0, <2>4 DEF TakeLease, TableOK
      <3>2. tries' \in [Jobs -> 0 .. MaxAttempts]
        <4>1. \A k \in Jobs : tries[k] \in 0 .. MaxAttempts /\ tries[k] \in Nat
          BY <1>0 DEF TableOK
        <4>2. tries' = [tries EXCEPT ![j] = IF tries[j] < MaxAttempts THEN tries[j] + 1 ELSE tries[j]]
          BY <2>4 DEF TakeLease
        <4> HIDE DEF j
        <4>3. \A k \in Jobs :
                tries'[k] = IF k = j THEN (IF tries[k] < MaxAttempts THEN tries[k] + 1 ELSE tries[k])
                                     ELSE tries[k]
          BY <1>0, <4>2 DEF TableOK
        <4>4. DOMAIN tries' = Jobs /\ tries' = [k \in DOMAIN tries' |-> tries'[k]]
          BY <1>0, <4>2 DEF TableOK
        <4>5. \A k \in Jobs : tries'[k] \in 0 .. MaxAttempts
          BY <4>1, <4>3
        <4>6. QED
          BY <4>4, <4>5
      <3>3. QED
        BY <1>0, <2>2, <2>4, <3>1, <3>2 DEF TakeLease, TableOK
    <2>5. CASE /\ \E to \in {"delayed", "done"} : job' = [job EXCEPT ![j] = to]
               /\ tries' = tries
               /\ setBackBy' = setBackBy \/ setBackBy' = [setBackBy EXCEPT ![j] = i]
      <3> HIDE DEF j
      <3>1. job' \in [Jobs -> {"none", "ready", "delayed", "leased", "expired", "done"}]
        BY <1>0, <2>5 DEF TableOK
      <3>2. setBackBy' \in [Jobs -> Instances \cup {Nobody}]
        BY <1>0, <2>5 DEF TableOK
      <3>3. QED
        BY <1>0, <2>2, <2>5, <3>1, <3>2 DEF TableOK
    <2>6. Settle(i, r) => job' = job \/ job' = [job EXCEPT ![j] = "done"]
      <3>1. CASE HasLease(i, r)
        BY <3>1 DEF Settle
      <3>2. CASE ~ HasLease(i, r)
        <4>1. Settle(i, r) => job' = [job EXCEPT ![j] = job[j]]
          BY <3>2 DEF Settle
        <4>2. QED
          BY <1>0, <4>1 DEF TableOK
      <3>3. QED
        BY <3>1, <3>2
    <2>7. QED
      BY <1>6, <2>3, <2>4, <2>5, <2>6
         DEF RunStep, CountBacklog, FindInTable, FoundNothing, Claim, LoopFails, Settle, SetBack,
             WorkFails, table
  <1>7. QED
    BY <1>1, <1>2, <1>3, <1>4, <1>5, <1>6 DEF Next, Step

LEMMA ImmediatesOKNext ==
    ASSUME TypeOK, [Next]_vars
    PROVE  ImmediatesOK'
  <1>0. ImmediatesOK
    BY PartsAreType DEF TypeParts
  <1>1. ASSUME NEW i \in Instances, NEW busy, Schedule(i, busy)
        PROVE  ImmediatesOK'
    BY <1>0, <1>1 DEF Schedule, ImmediatesOK
  <1>2. CASE UNCHANGED immediates
    BY <1>0, <1>2 DEF ImmediatesOK
  <1>3. ASSUME NEW i \in Instances, RunImmediate(i) \/ Restart(i)
        PROVE  ImmediatesOK'
    BY <1>0, <1>3 DEF RunImmediate, Restart, ImmediatesOK
  <1>4. ASSUME NEW i \in Instances, NEW r \in Runs, RunStep(i, r)
        PROVE  UNCHANGED immediates \/ \E busy \in BOOLEAN : Schedule(i, busy)
    <2>1. ASSUME NEW again, Finish(i, r, again)
          PROVE  UNCHANGED immediates \/ Schedule(i, FALSE)
      BY <2>1 DEF Finish
    <2>2. ASSUME NEW done, NextJob(i, r, done)
          PROVE  UNCHANGED immediates \/ Schedule(i, FALSE)
      BY <2>1, <2>2 DEF NextJob, AskForJob
    <2>3. QED
      BY <1>4, <2>1, <2>2
         DEF RunStep, CountBacklog, FindInTable, FoundNothing, Claim, LoopFails, Settle, SetBack,
             WorkFails, Reject
  <1>5. QED
    BY <1>1, <1>2, <1>3, <1>4
       DEF Next, Step, BackoffElapses, LeaseRunsOut, RenewalsFail, Commit, Wake, TimerFires, Close,
           Disconnect, vars

\* What a step does to the timers of an instance.
TimersKept == UNCHANGED <<timers, retryTimer>>

LEMMA TimerKinds ==
    ASSUME TypeOK, [Next]_vars
    PROVE  \/ TimersKept /\ UNCHANGED closed
           \/ \E i \in Instances, k \in Timers : SetTimer(i, k) /\ UNCHANGED closed
           \/ \E i \in Instances, k \in Timers : TimerFires(i, k)
           \/ \E i \in Instances : Close(i) \/ Restart(i)
  <1>1. CASE UNCHANGED vars
    BY <1>1 DEF vars, fields, control, TimersKept
  <1>2. CASE \E j \in Jobs : BackoffElapses(j) \/ LeaseRunsOut(j) \/ RenewalsFail(j)
    BY <1>2 DEF BackoffElapses, LeaseRunsOut, RenewalsFail, fields, control, TimersKept
  <1>3. ASSUME NEW i \in Instances, NEW j \in Jobs, Commit(i, j) \/ Wake(i, j)
        PROVE  TimersKept /\ UNCHANGED closed
    BY <1>3 DEF Commit, Wake, fields, control, TimersKept
  <1>4. ASSUME NEW i \in Instances, RunImmediate(i) \/ Disconnect(i)
        PROVE  TimersKept /\ UNCHANGED closed
    BY <1>4 DEF RunImmediate, StartRun, Disconnect, fields, control, TimersKept
  <1>5. ASSUME NEW i \in Instances, NEW r \in Runs, RunStep(i, r)
        PROVE  \/ TimersKept /\ UNCHANGED closed
               \/ \E k \in Timers : SetTimer(i, k) /\ UNCHANGED closed
    <2>1. UNCHANGED closed
      BY <1>5, RunStepKinds DEF Moves, Claims, Ends, control
    <2>2. ASSUME NEW runs, Reject(i, r, runs)
          PROVE  TimersKept \/ SetTimer(i, ErrorRetry)
      BY <2>2 DEF Reject, TimersKept
    <2>3. ErrorRetry \in Timers
      BY DEF Timers
    <2>4. CASE LoopFails(i, r) \/ WorkFails(i, r)
      BY <2>1, <2>2, <2>3, <2>4 DEF LoopFails, WorkFails
    <2>5. CASE SetBack(i, r)
      <3>1. run[i][r].job \in Jobs \cup {NoJob}
        BY DEF TypeOK
      <3>2. run[i][r].job \in Timers
        BY <3>1 DEF Timers
      <3>3. QED
        BY <2>1, <2>5, <3>2 DEF SetBack, TimersKept
    <2>6. CASE \/ CountBacklog(i, r) \/ FindInTable(i, r) \/ FoundNothing(i, r)
               \/ Claim(i, r) \/ Settle(i, r)
      BY <2>1, <2>6 DEF CountBacklog, FindInTable, FoundNothing, Claim, Settle, fields, TimersKept
    <2>7. QED
      BY <1>5, <2>4, <2>5, <2>6 DEF RunStep
  <1>6. QED
    BY <1>1, <1>2, <1>3, <1>4, <1>5 DEF Next, Step

LEMMA TimersNext ==
    ASSUME TypeOK, RetryTimerIsPending, [Next]_vars
    PROVE  TimersOK' /\ RetryTimerIsPending'
  <1>a. TimersOK /\ closed \in [Instances -> BOOLEAN]
    BY PartsAreType DEF TypeParts, LoopsOK
  <1>b. NoTimer \notin Timers
    <2>1. Timers \subseteq Nat
      BY DEF Timers
    <2>2. QED
      BY <2>1
  <1>0. TimersOK /\ closed \in [Instances -> BOOLEAN] /\ NoTimer \notin Timers
    BY <1>a, <1>b
  <1>1. CASE TimersKept /\ UNCHANGED closed
    BY <1>0, <1>1 DEF TimersKept, TimersOK, RetryTimerIsPending
  <1>2. ASSUME NEW i \in Instances, NEW k \in Timers, SetTimer(i, k), UNCHANGED closed
        PROVE  TimersOK' /\ RetryTimerIsPending'
    <2>1. /\ timers' = [timers EXCEPT ![i][k] = @ + 1]
          /\ retryTimer' = [retryTimer EXCEPT ![i] = k]
      BY <1>2 DEF SetTimer
    <2>2. TimersOK'
      BY <1>0, <2>1 DEF TimersOK
    <2>3. /\ retryTimer'[i] = k /\ timers'[i][k] > 0
          /\ \A n \in Instances \ {i} : retryTimer'[n] = retryTimer[n] /\ timers'[n] = timers[n]
      BY <1>0, <2>1 DEF TimersOK
    <2>4. RetryTimerIsPending'
      BY <1>2, <2>3 DEF RetryTimerIsPending
    <2>5. QED
      BY <2>2, <2>4
  <1>3. ASSUME NEW i \in Instances, NEW k \in Timers, TimerFires(i, k)
        PROVE  TimersOK' /\ RetryTimerIsPending'
    <2>1. /\ timers[i][k] > 0
          /\ timers' = [timers EXCEPT ![i][k] = @ - 1]
          /\ retryTimer' = [retryTimer EXCEPT ![i] = NoTimer]
          /\ closed' = closed
      BY <1>3 DEF TimerFires, Due, control
    <2>2. TimersOK'
      BY <1>0, <2>1 DEF TimersOK
    <2>3. RetryTimerIsPending'
      BY <1>0, <2>1 DEF TimersOK, RetryTimerIsPending
    <2>4. QED
      BY <2>2, <2>3
  <1>4. ASSUME NEW i \in Instances, Close(i)
        PROVE  TimersOK' /\ RetryTimerIsPending'
    <2>1. /\ ~ closed[i] /\ closed'[i]
          /\ \A k \in Instances \ {i} : closed'[k] = closed[k]
          /\ retryTimer' = retryTimer
          /\ retryTimer[i] = NoTimer => timers' = timers
          /\ retryTimer[i] # NoTimer => timers' = [timers EXCEPT ![i][retryTimer[i]] = @ - 1]
      BY <1>0, <1>4 DEF Close
    <2>2. retryTimer[i] # NoTimer => retryTimer[i] \in Timers /\ timers[i][retryTimer[i]] > 0
      BY <1>0, <2>1 DEF TimersOK, RetryTimerIsPending
    <2>3. TimersOK'
      <3>1. ASSUME NEW k \in Timers, timers[i][k] > 0, timers' = [timers EXCEPT ![i][k] = @ - 1]
            PROVE  timers' \in [Instances -> [Timers -> Nat]]
        BY <1>0, <3>1 DEF TimersOK
      <3>2. timers' \in [Instances -> [Timers -> Nat]]
        BY <1>0, <2>1, <2>2, <3>1 DEF TimersOK
      <3>3. QED
        BY <1>0, <2>1, <3>2 DEF TimersOK
    <2>4. \A k \in Instances \ {i} : timers'[k] = timers[k]
      BY <1>0, <2>1 DEF TimersOK
    <2>5. RetryTimerIsPending'
      BY <2>1, <2>4 DEF RetryTimerIsPending
    <2>6. QED
      BY <2>3, <2>5
  <1>5. ASSUME NEW i \in Instances, Restart(i)
        PROVE  TimersOK' /\ RetryTimerIsPending'
    <2>1. /\ timers' = [timers EXCEPT ![i] = [k \in Timers |-> 0]]
          /\ retryTimer' = [retryTimer EXCEPT ![i] = NoTimer]
          /\ \A k \in Instances \ {i} : closed'[k] = closed[k]
      BY <1>0, <1>5 DEF Restart
    <2>2. TimersOK'
      BY <1>0, <2>1 DEF TimersOK
    <2>3. retryTimer'[i] = NoTimer
          /\ \A k \in Instances \ {i} : retryTimer'[k] = retryTimer[k] /\ timers'[k] = timers[k]
      BY <1>0, <2>1 DEF TimersOK
    <2>4. QED
      BY <2>1, <2>2, <2>3 DEF RetryTimerIsPending
  <1>6. QED
    BY <1>1, <1>2, <1>3, <1>4, <1>5, TimerKinds

-----------------------------------------------------------------------------
(* Set-backs.                                                              *)

Undisturbed == restarts + faults = 0 /\ \A i \in Instances : ~ closed[i]

\* The timer that the instance in setBackBy has set for the job is still to come, whatever has become
\* of the job; undisturbed, that instance is known.
SetBackInv ==
    /\ faults \in Nat /\ restarts \in Nat
    /\ \A i \in Instances, j \in Jobs : setBackBy[j] = i /\ ~ closed[i] => timers[i][j] > 0
    /\ Undisturbed => \A j \in Jobs : job[j] = "delayed" => setBackBy[j] \in Instances

\* A step that sets nothing back and leaves the timers alone.
NothingSetBack ==
    /\ UNCHANGED <<timers, bounds, closed>>
    /\ \A j \in Jobs : /\ setBackBy'[j] \in {setBackBy[j], Nobody}
                       /\ job'[j] = "delayed" => job[j] = "delayed" /\ setBackBy'[j] = setBackBy[j]

\* A failure may set a timer, and may leave a job set back by nobody.
Fails ==
    /\ faults' = faults + 1
    /\ UNCHANGED <<restarts, closed, setBackBy>>
    /\ \A i \in Instances, j \in Jobs : timers[i][j] > 0 => timers'[i][j] > 0

\* An instance that closes or starts again takes its own timers with it.
Leaves(i) ==
    /\ restarts' = restarts + 1 \/ (restarts' = restarts /\ closed'[i])
    /\ UNCHANGED faults
    /\ closed'[i] \/ \A j \in Jobs : setBackBy'[j] # i
    /\ \A j \in Jobs : setBackBy'[j] \in {setBackBy[j], Nobody}
    /\ \A n \in Instances \ {i} : closed'[n] = closed[n] /\ timers'[n] = timers[n]

LEMMA MoreTimers ==
    ASSUME TypeOK, NEW i \in Instances, NEW k \in Timers,
           timers' = [timers EXCEPT ![i][k] = @ + 1]
    PROVE  \A n \in Instances, j \in Jobs : timers[n][j] > 0 => timers'[n][j] > 0
  <1>1. timers \in [Instances -> [Timers -> Nat]] /\ Jobs \subseteq Timers
    BY DEF TypeOK, Timers
  <1>2. ASSUME NEW n \in Instances, NEW j \in Jobs
        PROVE  timers'[n][j] \in {timers[n][j], timers[n][j] + 1}
    BY <1>1
  <1>3. QED
    BY <1>1, <1>2

LEMMA SetBackKinds ==
    ASSUME TypeOK, [Next]_vars
    PROVE  \/ NothingSetBack
           \/ Fails
           \/ \E i \in Instances : Leaves(i)
           \/ \E i \in Instances, k \in Timers : TimerFires(i, k)
           \/ \E i \in Instances, r \in Runs : SetBack(i, r)
  <1>1. CASE UNCHANGED vars
    BY <1>1 DEF vars, table, fields, control, bounds, NothingSetBack
  <1>2. ASSUME NEW j \in Jobs, BackoffElapses(j) \/ LeaseRunsOut(j)
        PROVE  NothingSetBack
    BY <1>2 DEF BackoffElapses, LeaseRunsOut, TypeOK, fields, control, bounds, NothingSetBack
  <1>3. ASSUME NEW j \in Jobs, RenewalsFail(j)
        PROVE  Fails
    BY <1>3 DEF RenewalsFail, Fault, TypeOK, Timers, fields, control, Fails
  <1>4. ASSUME NEW i \in Instances, NEW j \in Jobs, Commit(i, j) \/ Wake(i, j)
        PROVE  NothingSetBack
    BY <1>4 DEF Commit, Wake, TypeOK, table, fields, control, bounds, NothingSetBack
  <1>5. ASSUME NEW i \in Instances, RunImmediate(i) \/ Disconnect(i)
        PROVE  NothingSetBack
    BY <1>5 DEF RunImmediate, StartRun, Disconnect, table, fields, control, bounds, NothingSetBack
  <1>6. ASSUME NEW i \in Instances, Close(i) \/ Restart(i)
        PROVE  Leaves(i)
    <2>1. CASE Close(i)
      BY <2>1 DEF Close, TypeOK, table, bounds, Leaves
    <2>2. CASE Restart(i)
      <3>1. setBackBy' = [j \in Jobs |-> IF setBackBy[j] = i THEN Nobody ELSE setBackBy[j]]
        BY <2>2 DEF Restart
      <3>2. \A j \in Jobs : setBackBy'[j] # i /\ setBackBy'[j] \in {setBackBy[j], Nobody}
        BY <3>1, SchedulingAssumption
      <3>3. QED
        BY <2>2, <3>2 DEF Restart, TypeOK, Leaves
    <2>3. QED
      BY <1>6, <2>1, <2>2
  <1>7. ASSUME NEW i \in Instances, NEW r \in Runs, RunStep(i, r), ~ SetBack(i, r)
        PROVE  NothingSetBack \/ Fails
    <2>1. UNCHANGED closed
      BY <1>7, RunStepKinds DEF Moves, Claims, Ends, control
    <2>2. CASE CountBacklog(i, r) \/ FindInTable(i, r) \/ FoundNothing(i, r)
      BY <2>1, <2>2 DEF CountBacklog, FindInTable, FoundNothing, table, fields, bounds, NothingSetBack
    <2>3. CASE Claim(i, r)
      BY <2>1, <2>3 DEF Claim, TakeLease, TypeOK, fields, bounds, NothingSetBack
    <2>4. CASE Settle(i, r)
      <3>1. \A j \in Jobs : job'[j] = "delayed" => job[j] = "delayed"
        BY <2>4 DEF Settle, TypeOK
      <3>2. QED
        BY <2>1, <2>4, <3>1 DEF Settle, bounds, NothingSetBack
    <2>5. CASE LoopFails(i, r) \/ WorkFails(i, r)
      <3>1. faults' = faults + 1 /\ UNCHANGED <<restarts, setBackBy>>
        BY <2>5 DEF LoopFails, WorkFails, Fault, TakeLease, table
      <3>2. UNCHANGED timers \/ timers' = [timers EXCEPT ![i][ErrorRetry] = @ + 1]
        BY <2>5 DEF LoopFails, WorkFails, Reject, SetTimer
      <3>3. \A n \in Instances, j \in Jobs : timers[n][j] > 0 => timers'[n][j] > 0
        <4>1. CASE UNCHANGED timers
          BY <4>1 DEF TypeOK, Timers
        <4>2. QED
          BY <3>2, <4>1, MoreTimers DEF Timers
      <3>4. QED
        BY <2>1, <3>1, <3>3 DEF Fails
    <2>6. QED
      BY <1>7, <2>2, <2>3, <2>4, <2>5 DEF RunStep
  <1>8. QED
    BY <1>1, <1>2, <1>3, <1>4, <1>5, <1>6, <1>7 DEF Next, Step

LEMMA SetBackNext ==
    ASSUME TypeOK, SetBackInv, [Next]_vars
    PROVE  SetBackInv'
  <1>0. timers \in [Instances -> [Timers -> Nat]] /\ Jobs \subseteq Timers
    BY DEF TypeOK, Timers
  <1>1. CASE NothingSetBack
    BY <1>1, SchedulingAssumption DEF NothingSetBack, bounds, SetBackInv, Undisturbed
  <1>2. CASE Fails
    <2>1. ~ Undisturbed' /\ faults' \in Nat /\ restarts' \in Nat
      BY <1>2 DEF Fails, SetBackInv, Undisturbed
    <2>2. QED
      BY <1>2, <2>1 DEF Fails, SetBackInv
  <1>3. ASSUME NEW i \in Instances, Leaves(i)
        PROVE  SetBackInv'
    <2>1. ~ Undisturbed' /\ faults' \in Nat /\ restarts' \in Nat
      BY <1>3 DEF Leaves, SetBackInv, Undisturbed
    <2>2. QED
      BY <1>3, <2>1, SchedulingAssumption DEF Leaves, SetBackInv
  <1>4. ASSUME NEW i \in Instances, NEW k \in Timers, TimerFires(i, k)
        PROVE  SetBackInv'
    <2>1. /\ timers' = [timers EXCEPT ![i][k] = @ - 1]
          /\ k \in Jobs /\ setBackBy[k] = i => timers[i][k] > 1
          /\ UNCHANGED <<job, setBackBy, closed, faults, restarts>>
      BY <1>4 DEF TimerFires, Due, table, control, bounds
    <2>2. ASSUME NEW n \in Instances, NEW j \in Jobs
          PROVE  timers'[n][j] = IF n = i /\ j = k THEN timers[n][j] - 1 ELSE timers[n][j]
      BY <1>0, <2>1
    <2>3. ASSUME NEW n \in Instances, NEW j \in Jobs, setBackBy[j] = n, timers[n][j] > 0
          PROVE  timers'[n][j] > 0
      BY <1>0, <2>1, <2>2, <2>3
    <2>4. QED
      BY <2>1, <2>3 DEF SetBackInv, Undisturbed
  <1>5. ASSUME NEW i \in Instances, NEW r \in Runs, SetBack(i, r)
        PROVE  SetBackInv'
    <2> DEFINE b == run[i][r].job
    <2>1. b \in Timers
      BY DEF TypeOK, Timers
    <2>2. UNCHANGED closed
      BY <1>5, RunStepKinds DEF RunStep, Moves, Claims, Ends, control
    <2>3. /\ job' = [job EXCEPT ![b] = "delayed"]
          /\ UNCHANGED <<faults, restarts>>
          /\ closed[i] => UNCHANGED <<timers, setBackBy>>
          /\ ~ closed[i] => SetTimer(i, b) /\ setBackBy' = [setBackBy EXCEPT ![b] = i]
      BY <1>5 DEF SetBack, bounds
    <2> HIDE DEF b
    <2>4. CASE closed[i]
      BY <2>2, <2>3, <2>4 DEF SetBackInv, Undisturbed
    <2>5. CASE ~ closed[i]
      <3>1. timers' = [timers EXCEPT ![i][b] = @ + 1]
        BY <2>3, <2>5 DEF SetTimer
      <3>2. ASSUME NEW n \in Instances, NEW j \in Jobs
            PROVE  timers'[n][j] = IF n = i /\ j = b THEN timers[n][j] + 1 ELSE timers[n][j]
        BY <1>0, <2>1, <3>1
      <3>3. timers'[i][b] > 0
        BY <1>0, <2>1, <3>1
      <3>4. \A n \in Instances, j \in Jobs \ {b} : timers'[n][j] = timers[n][j]
        BY <1>0, <2>1, <3>2
      <3>5. /\ b \in Jobs => setBackBy'[b] = i
            /\ \A j \in Jobs \ {b} : job'[j] = job[j] /\ setBackBy'[j] = setBackBy[j]
        <4>1. /\ job' = [job EXCEPT ![b] = "delayed"]
              /\ setBackBy' = [setBackBy EXCEPT ![b] = i]
          BY <2>3, <2>5
        <4>2. job = [j \in Jobs |-> job[j]] /\ setBackBy = [j \in Jobs |-> setBackBy[j]]
          BY DEF TypeOK
        <4>3. QED
          BY <4>1, <4>2
      <3>6. QED
        BY <2>2, <2>3, <3>3, <3>4, <3>5 DEF SetBackInv, Undisturbed
    <2>6. QED
      BY <2>4, <2>5
  <1>6. QED
    BY <1>1, <1>2, <1>3, <1>4, <1>5, SetBackKinds

-----------------------------------------------------------------------------
(* The theorems.                                                           *)

Inv == TypeOK /\ RetryTimerIsPending /\ LoopsInv /\ ClosingInv /\ SetBackInv

LEMMA InitInv == Init => Inv
  <1> SUFFICES ASSUME Init PROVE Inv
    OBVIOUS
  <1>1. TableOK /\ ImmediatesOK /\ TimersOK
    BY DEF Init, TableOK, ImmediatesOK, TimersOK
  <1>2. LoopsOK
    BY OffState DEF Init, LoopsOK, RunsOK
  <1>3. RetryTimerIsPending
    BY DEF Init, RetryTimerIsPending
  <1>4. LoopsInv /\ ClosingInv
    BY OffState DEF Init, LoopsInv, OffIsOff, ClosingInv
  <1>5. SetBackInv
    BY DEF Init, SetBackInv
  <1>6. QED
    BY <1>1, <1>2, <1>3, <1>4, <1>5, PartsAreType DEF TypeParts, Inv

LEMMA InvNext ==
    ASSUME Inv, [Next]_vars
    PROVE  Inv'
  <1>1. TableOK' /\ LoopsOK' /\ ImmediatesOK' /\ TimersOK' /\ RetryTimerIsPending'
    BY TableOKNext, LoopsOKNext, ImmediatesOKNext, TimersNext DEF Inv
  <1>2. TypeOK'
    BY <1>1 DEF TypeOK, TableOK, LoopsOK, ImmediatesOK, TimersOK, RunsOK, States
  <1>3. LoopsInv' /\ ClosingInv' /\ SetBackInv'
    BY LoopsNext, ClosingNext, SetBackNext DEF Inv
  <1>4. QED
    BY <1>1, <1>2, <1>3 DEF Inv

LEMMA Invariance == Spec => []Inv
  <1>1. Inv /\ [Next]_vars => Inv'
    BY InvNext
  <1>2. QED
    BY InitInv, <1>1, PTL DEF Spec

\* Every variable of every instance keeps its type: no count of callbacks or timers goes below zero,
\* no run goes beyond its batch.
THEOREM TypeCorrect == Spec => []TypeOK
  <1>1. Inv => TypeOK
    BY DEF Inv
  <1>2. QED
    BY Invariance, <1>1, PTL

\* One instance runs one loop at a time, and processing says whether it does.
THEOREM OneLoopAlways == Spec => []OneLoop
  <1>1. ASSUME Inv
        PROVE  OneLoop
    <2>1. \A i \in Instances, r \in Runs : run[i][r] # Off <=> run[i][r].at # "off"
      BY <1>1, OffState DEF Inv, LoopsInv, OffIsOff
    <2>2. QED
      BY <1>1, <2>1 DEF Inv, LoopsInv, OneLoop, Active
  <1>2. QED
    BY Invariance, <1>1, PTL

\* The field retryTimer never refers to a timer that is gone, as long as the provider is open.
THEOREM RetryTimerIsPendingAlways == Spec => []RetryTimerIsPending
  <1>1. Inv => RetryTimerIsPending
    BY DEF Inv
  <1>2. QED
    BY Invariance, <1>1, PTL

\* A closed provider takes at most one more job.
THEOREM AtMostOneLateClaimAlways == Spec => []AtMostOneLateClaim
  <1>1. Inv => AtMostOneLateClaim
    BY DEF Inv, ClosingInv, AtMostOneLateClaim
  <1>2. QED
    BY Invariance, <1>1, PTL

\* A job that is not due yet has a timer in the open instance that has set it back and knows of it;
\* undisturbed, there is one for every such job.
THEOREM SetBackHasTimerAlways == Spec => []SetBackHasTimer
  <1>1. ASSUME Inv
        PROVE  SetBackHasTimer
    BY <1>1 DEF Inv, SetBackInv, Undisturbed, SetBackHasTimer
  <1>2. QED
    BY Invariance, <1>1, PTL

-----------------------------------------------------------------------------
(* The life of a processor, as the rest of its process sees it.            *)

LEMMA ActiveRuns ==
    ASSUME NEW i \in Instances
    PROVE  /\ OffIsOff => Active(i) = {r \in Runs : run[i][r].at # "off"}
           /\ OffIsOff' => Active(i)' = {r \in Runs : run'[i][r].at # "off"}
  BY OffState DEF Active, OffIsOff

\* An instance whose loop neither starts nor ends, and whose fields stay, looks as before.
LEMMA LooksTheSame ==
    ASSUME OffIsOff, OffIsOff', NEW i \in Instances,
           \A r \in Runs : run'[i][r].at = "off" <=> run[i][r].at = "off",
           closed'[i] = closed[i], disconnected'[i] = disconnected[i],
           activeRun'[i] = activeRun[i], awaited'[i] = awaited[i]
    PROVE  UNCHANGED Life(i)!vars
  <1>1. Active(i)' = Active(i)
    BY ActiveRuns
  <1>2. Known(i)' = Known(i)
    BY DEF Known
  <1>3. Loop(i)' = Loop(i)
    BY <1>1, <1>2 DEF Loop
  <1> QED
    BY <1>3 DEF Phase, Life!vars

LEMMA QuietLife ==
    ASSUME TypeOK, OffIsOff, OffIsOff', Quiet, NEW i \in Instances
    PROVE  [Life(i)!Next]_(Life(i)!vars)
  <1>1. /\ UNCHANGED <<run, closed, awaited, disconnected>>
        /\ activeRun'[i] = activeRun[i] \/ (~ closed[i] /\ activeRun'[i] = NoRun)
    BY DEF Quiet, shutdown
  <1>2. CASE activeRun'[i] = activeRun[i]
    BY <1>1, <1>2, LooksTheSame
  <1>3. CASE ~ closed[i] /\ activeRun'[i] = NoRun
    <2>1. Active(i)' = Active(i) /\ NoRun \notin Active(i)
      BY <1>1 DEF Active
    <2>2. Phase(i) = "up" /\ Phase(i)' = "up" /\ Known(i)' = NoRun
      BY <1>1, <1>3 DEF Phase, Known
    <2>3. Loop(i)' = IF Active(i) = {} THEN "none" ELSE "forgotten"
      BY <2>1, <2>2 DEF Loop
    <2>4. Loop(i)' = Loop(i) \/ (Loop(i) = "awaited" /\ Loop(i)' = "forgotten")
      BY <2>3 DEF Loop
    <2> QED
      BY <2>2, <2>4 DEF Life!Next, Life!LoopForgotten, Life!vars
  <1> QED
    BY <1>1, <1>2, <1>3

LEMMA EndLife ==
    ASSUME TypeOK, LoopsInv, OffIsOff', NEW i \in Instances, NEW r \in Runs, Ends(i, r), UNCHANGED shutdown
    PROVE  Life(i)!LoopEnds
  <1>1. /\ run[i][r].at # "off" /\ run'[i][r] = Off /\ Elsewhere(i, r)
        /\ UNCHANGED <<closed, disconnected>>
    BY DEF Ends, shutdown
  <1>2. \A s \in Runs : run'[i][s].at = "off"
    BY <1>1, OffState DEF LoopsInv, Elsewhere
  <1>3. r \in Active(i) /\ Active(i)' = {}
    BY <1>1, <1>2, ActiveRuns DEF LoopsInv
  <1>4. Loop(i) # "none" /\ Loop(i)' = "none"
    BY <1>3 DEF Loop
  <1> QED
    BY <1>1, <1>4 DEF Life!LoopEnds, Phase

LEMMA StartLife ==
    ASSUME TypeOK, LoopsInv, OffIsOff', NEW i \in Instances, NEW r \in Runs, Starts(i, r)
    PROVE  Life(i)!LoopStarts
  <1>1. ~ closed[i] /\ UNCHANGED closed /\ activeRun'[i] = r /\ run'[i][r].at = "count"
    BY StartedRun DEF Starts, TypeOK
  <1>2. Active(i) = {} /\ r \in Active(i)'
    BY <1>1, ActiveRuns DEF LoopsInv, Starts
  <1>3. Known(i)' = r
    BY <1>1 DEF Known
  <1>4. Loop(i) = "none" /\ Loop(i)' = "awaited"
    BY <1>2, <1>3 DEF Loop
  <1> QED
    BY <1>1, <1>4 DEF Life!LoopStarts, Phase

\* Closing an instance, releasing its pool, and starting its process again.
LEMMA ClosingLife ==
    ASSUME TypeOK, LoopsInv, ClosingInv, OffIsOff', NEW i \in Instances, Close(i) \/ Disconnect(i) \/ Restart(i)
    PROVE  Life(i)!Next
  <1>1. CASE Close(i)
    <2>1. /\ ~ closed[i] /\ closed'[i] /\ ~ disconnected[i] /\ awaited'[i] = activeRun[i]
          /\ UNCHANGED <<run, disconnected>>
      BY <1>1 DEF Close, TypeOK, ClosingInv
    <2>2. Active(i)' = Active(i) /\ Known(i)' = Known(i)
      BY <2>1 DEF Active, Known
    <2>3. Loop(i)' = Loop(i)
      BY <2>2 DEF Loop
    <2> QED
      BY <2>1, <2>3 DEF Life!Next, Life!Signal, Phase
  <1>2. CASE Disconnect(i)
    <2>1. /\ closed[i] /\ ~ disconnected[i] /\ disconnected'[i]
          /\ awaited[i] # NoRun => run[i][awaited[i]] = Off
          /\ UNCHANGED <<run, closed, awaited>>
      BY <1>2 DEF Disconnect, TypeOK, fields, control
    <2>2. Known(i) = awaited[i] /\ Active(i)' = Active(i) /\ Known(i)' = Known(i)
      BY <2>1 DEF Active, Known
    <2>3. Known(i) \notin Active(i)
      BY <2>1, <2>2 DEF Active
    <2>4. Loop(i) # "awaited" /\ Loop(i)' = Loop(i)
      BY <2>2, <2>3 DEF Loop
    <2> QED
      BY <2>1, <2>4 DEF Life!Next, Life!ReleasePool, Phase
  <1>3. CASE Restart(i)
    <2>1. (\A r \in Runs : run'[i][r] = Off) /\ ~ closed'[i]
      BY <1>3 DEF Restart, TypeOK
    <2>2. Active(i)' = {}
      BY <2>1 DEF Active
    <2>3. Loop(i)' = "none" /\ Phase(i)' = "up"
      BY <2>1, <2>2 DEF Loop, Phase
    <2> QED
      BY <2>3 DEF Life!Next, Life!Begin
  <1> QED
    BY <1>1, <1>2, <1>3

\* Whatever step is taken, in this instance or another one.
LEMMA LifeNext ==
    ASSUME Inv, Inv', [Next]_vars, NEW i \in Instances
    PROVE  [Life(i)!Next]_(Life(i)!vars)
  <1>0. /\ TypeOK /\ LoopsInv /\ ClosingInv /\ OffIsOff /\ OffIsOff'
        /\ Off.at = "off"
    BY OffState DEF Inv, LoopsInv
  <1>1. CASE Quiet
    BY <1>0, <1>1, QuietLife
  <1>2. ASSUME NEW k \in Instances, NEW r \in Runs, Moves(k, r) \/ Claims(k, r) \/ Ends(k, r), UNCHANGED shutdown
        PROVE  [Life(i)!Next]_(Life(i)!vars)
    <2>1. CASE k = i /\ Ends(k, r)
      BY <1>0, <1>2, <2>1, EndLife DEF Life!Next
    <2>2. CASE k # i \/ Moves(k, r) \/ Claims(k, r)
      <3>1. /\ closed'[i] = closed[i] /\ disconnected'[i] = disconnected[i]
            /\ activeRun'[i] = activeRun[i] /\ awaited'[i] = awaited[i]
        BY <1>2, <2>2 DEF Moves, Claims, Ends, control, shutdown
      <3>2. \A s \in Runs : run'[i][s].at = "off" <=> run[i][s].at = "off"
        BY <1>0, <1>2, <2>2 DEF Moves, Claims, Ends, Elsewhere
      <3> QED
        BY <1>0, <3>1, <3>2, LooksTheSame
    <2> QED
      BY <1>2, <2>1, <2>2
  <1>3. ASSUME NEW k \in Instances, NEW r \in Runs, Starts(k, r)
        PROVE  [Life(i)!Next]_(Life(i)!vars)
    <2>1. CASE k = i
      BY <1>0, <1>3, <2>1, StartLife DEF Life!Next
    <2>2. CASE k # i
      <3>1. /\ closed'[i] = closed[i] /\ disconnected'[i] = disconnected[i]
            /\ activeRun'[i] = activeRun[i] /\ awaited'[i] = awaited[i]
        BY <1>0, <1>3, <2>2 DEF Starts, shutdown, TypeOK
      <3>2. \A s \in Runs : run'[i][s] = run[i][s]
        BY <1>0, <1>3, <2>2, StartedRun
      <3> QED
        BY <1>0, <3>1, <3>2, LooksTheSame
    <2> QED
      BY <2>1, <2>2
  <1>4. ASSUME NEW k \in Instances, Close(k) \/ Disconnect(k) \/ Restart(k)
        PROVE  [Life(i)!Next]_(Life(i)!vars)
    <2>1. CASE k = i
      BY <1>0, <1>4, <2>1, ClosingLife
    <2>2. CASE k # i
      <3>1. /\ closed'[i] = closed[i] /\ disconnected'[i] = disconnected[i]
            /\ activeRun'[i] = activeRun[i] /\ awaited'[i] = awaited[i]
            /\ run'[i] = run[i]
        BY <1>0, <1>4, <2>2 DEF Close, Disconnect, Restart, fields, control, TypeOK
      <3> QED
        BY <1>0, <3>1, LooksTheSame
    <2> QED
      BY <2>1, <2>2
  <1> QED
    BY <1>0, <1>1, <1>2, <1>3, <1>4, StepKinds

\* Every instance's callbacks, timers, runs and closing come to the life of a processor that
\* ServiceProcess is built of: nothing starts or forgets a loop once the signal has come, and the
\* pool is released under no loop that the provider knew of.
THEOREM ProcessorLivesAlways == Spec => ProcessorLives
  <1>1. ASSUME Init
        PROVE  \A i \in Instances : Life(i)!Init
    <2>1. ASSUME NEW i \in Instances
          PROVE  Active(i) = {} /\ ~ closed[i]
      BY <1>1 DEF Init, Active
    <2> QED
      BY <2>1 DEF Life!Init, Phase, Loop
  <1>2. Inv /\ Inv' /\ [Next]_vars => [\A i \in Instances : [Life(i)!Next]_(Life(i)!vars)]_vars
    BY LifeNext
  <1>3. Spec => (\A i \in Instances : Life(i)!Init) /\ [][\A i \in Instances : [Life(i)!Next]_(Life(i)!vars)]_vars
    BY <1>1, <1>2, Invariance, PTL DEF Spec
  <1> QED
    BY <1>3 DEF ProcessorLives
=============================================================================
