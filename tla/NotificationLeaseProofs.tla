---------------------- MODULE NotificationLeaseProofs ----------------------
(***************************************************************************)
(* Theorems of NotificationLease, for every set of jobs, workers and       *)
(* users, every clock skew and every duration.                             *)
(***************************************************************************)
EXTENDS NotificationLease, TLAPS

\* What a worker has in memory fits where its loop is.
Remembers(w) ==
    /\ pc[w] = "idle" => mem[w] = NoJob
    /\ pc[w] # "idle" => mem[w].job \in Jobs /\ status[mem[w].job] # "absent"
    /\ pc[w] = "claim" => mem[w].token = NoToken

MemoryInv == \A w \in Workers : Remembers(w)

\* Tokens are fresh: rows and workers only have tokens issued so far, no two rows and no two
\* workers the same one, and a worker whose token is in a row is working on that row's job.
TokenInv ==
    /\ \A j \in Jobs :
         /\ leaseToken[j] <= issued
         /\ status[j] = "processing" <=> leaseToken[j] # NoToken
         /\ \A k \in Jobs : leaseToken[j] # NoToken /\ leaseToken[j] = leaseToken[k] => j = k
    /\ \A w \in Workers :
         /\ mem[w].token <= issued
         /\ \A v \in Workers : mem[v].token # NoToken /\ mem[v].token = mem[w].token => v = w
         /\ \A j \in Jobs : Holds(w, j) => mem[w].job = j

\* The copy of attempts that a claim takes is never ahead of the row.
AttemptInv ==
    /\ \A w \in Workers : pc[w] = "claim" => mem[w].attempts <= attempts[mem[w].job]
    /\ \A w \in Workers, j \in Jobs : Holds(w, j) => mem[w].attempts <= attempts[j]
    /\ NoEarlyGiveUp

\* The recipients an attempt has read include the audience of its job, and once they are
\* written they stay written.
Reaches(w) ==
    /\ pc[w] \in {"renew", "write", "complete"} => audience[mem[w].job] \subseteq mem[w].to
    /\ pc[w] = "complete" => mem[w].to \subseteq notified[mem[w].job]

AudienceInv ==
    /\ \A j \in Jobs : audience[j] \subseteq members
    /\ \A w \in Workers : Reaches(w)
    /\ CompletedReachedAudience

Inv == MemoryInv /\ TokenInv /\ AttemptInv /\ AudienceInv

-----------------------------------------------------------------------------
(* Helpers.                                                                *)

\* The constants of the model are numbers.
LEMMA ConstantTypes ==
    /\ Founders \subseteq Users
    /\ Skew \in [Workers -> Nat]
    /\ LeaseDuration \in Nat
    /\ RenewInterval \in Nat
    /\ MaxAttempts \in Nat
    /\ 0 \notin Jobs
  BY ConstantsAssumption

\* The time a query carries is a time.
LEMMA IssueTimesType ==
    ASSUME TypeOK, NEW w \in Workers, NEW now \in IssueTimes(w)
    PROVE  now \in Nat
  BY ConstantTypes DEF TypeOK, LoopTypes, IssueTimes, Local

\* Updating a column keeps its type, whichever row is named.
LEMMA UpdateType ==
    ASSUME NEW S, NEW T, NEW f \in [S -> T], NEW x, NEW v \in T
    PROVE  [f EXCEPT ![x] = v] \in [S -> T]
  OBVIOUS

\* Counting up a column of numbers keeps its type.
LEMMA IncrementType ==
    ASSUME NEW S, NEW f \in [S -> Nat], NEW x
    PROVE  [f EXCEPT ![x] = f[x] + 1] \in [S -> Nat]
<1>1. CASE x \in S
  <2>1. f[x] + 1 \in Nat
    BY <1>1
  <2> QED
    BY <2>1, UpdateType
<1>2. CASE x \notin S
  <2>1. [f EXCEPT ![x] = f[x] + 1] = f
    BY <1>2
  <2> QED
    BY <2>1
<1> QED
  BY <1>1, <1>2

\* The back-off of processor.ts:334 is defined for every number of attempts.
LEMMA RetryDelayType ==
    ASSUME NEW n \in Nat
    PROVE  RetryDelay(n) \in Nat
<1>1. RetryDelays \in Seq(Nat) /\ RetryDelays # <<>>
  BY ConstantsAssumption
<1>2. Len(RetryDelays) \in DOMAIN RetryDelays
  BY <1>1
<1>3. \A i \in DOMAIN RetryDelays : RetryDelays[i] \in Nat
  BY <1>1
<1> QED
  BY <1>2, <1>3 DEF RetryDelay

-----------------------------------------------------------------------------
(* Types.                                                                  *)

\* The initial state is well typed.
LEMMA TypeInit == Init => TypeOK
  BY ConstantTypes DEF Init, TypeOK, RowTypes, LoopTypes, NoJob, Copy, NoToken, NoTime, NoTimer, NoRenewal

\* A job object is built from a job, a token and two numbers.
LEMMA CopyType ==
    ASSUME NEW j \in Jobs \cup {0}, NEW token \in Nat, NEW n \in Nat, NEW now \in Nat
    PROVE  Copy(j, token, n, now) \in
             [job : Jobs \cup {0}, token : Nat, attempts : Nat, now : Nat, to : SUBSET Users]
  BY DEF Copy

\* The four ways a loop moves on keep the types of its variables.
LEMMA GotoTypes ==
    ASSUME LoopTypes, clock \in Nat, NEW w \in Workers,
           NEW next \in {"idle", "claim", "settle"} \cup Working, Goto(w, next)
    PROVE  /\ pc' \in [Workers -> {"idle", "claim", "settle"} \cup Working]
           /\ lastReply' \in [Workers -> Nat]
  BY DEF LoopTypes, Goto, NoTime

\* A loop that goes idle has an empty memory and no heartbeat.
LEMMA GoIdleTypes ==
    ASSUME LoopTypes, clock \in Nat, NEW w \in Workers, GoIdle(w)
    PROVE  LoopTypes'
<1>1. Goto(w, "idle")
  BY DEF GoIdle
<1>2. NoJob \in [job : Jobs \cup {0}, token : Nat, attempts : Nat, now : Nat, to : SUBSET Users]
  BY CopyType DEF NoJob, NoToken, NoTime
<1> QED
  BY <1>1, <1>2, GotoTypes DEF LoopTypes, GoIdle, NoTimer

\* Entering the catch block only moves the loop on.
LEMMA CatchTypes ==
    ASSUME LoopTypes, clock \in Nat, NEW w \in Workers, Catch(w)
    PROVE  LoopTypes'
<1>1. Goto(w, "fail") /\ "fail" \in Working
  BY DEF Catch, Working
<1> QED
  BY <1>1, GotoTypes DEF LoopTypes, Catch, beat

\* Entering the finally block only stops the heartbeat timer.
LEMMA FinallyTypes ==
    ASSUME LoopTypes, clock \in Nat, NEW w \in Workers, Finally(w)
    PROVE  LoopTypes'
<1>1. Goto(w, "settle")
  BY DEF Finally
<1> QED
  BY <1>1, GotoTypes DEF LoopTypes, Finally, NoTimer

\* A reply, or its loss, moves the loop to the next await or to the catch block.
LEMMA AdvanceTypes ==
    ASSUME LoopTypes, clock \in Nat, NEW w \in Workers, NEW next \in Working, NEW reply,
           Advance(w, next, reply)
    PROVE  LoopTypes'
<1>1. CASE Goto(w, next) /\ UNCHANGED <<mem, beat>>
  BY <1>1, GotoTypes DEF LoopTypes, beat
<1>2. CASE Catch(w)
  BY <1>2, CatchTypes
<1> QED
  BY <1>1, <1>2 DEF Advance

\* Settling a job writes one of the statuses the schema knows.
LEMMA SettledTypes ==
    ASSUME RowTypes, NEW j, NEW outcome \in {"pending", "completed", "failed"}, Settled(j, outcome)
    PROVE  /\ status' \in [Jobs -> {"absent", "pending", "processing", "completed", "failed"}]
           /\ leaseToken' \in [Jobs -> Nat]
           /\ leaseUntil' \in [Jobs -> Nat]
  BY DEF RowTypes, Settled, NoToken, NoTime

\* No step of the protocol breaks the types.
LEMMA TypeNext == TypeOK /\ [Next]_vars => TypeOK'
<1> SUFFICES ASSUME TypeOK, [Next]_vars
             PROVE  TypeOK'
  OBVIOUS
<1> USE ConstantTypes
<1>0. /\ LoopTypes /\ RowTypes /\ clock \in Nat
      /\ \A w \in Workers : /\ mem[w].job \in Jobs \cup {0}
                            /\ mem[w].attempts \in Nat /\ mem[w].now \in Nat
                            /\ mem[w].to \subseteq Users
  BY DEF TypeOK, LoopTypes
<1>1. CASE Tick
  BY <1>1 DEF TypeOK, RowTypes, LoopTypes, Tick, rows, loop, beat
<1>2. ASSUME NEW u \in Users, AddMember(u)
      PROVE  TypeOK'
  BY <1>2 DEF TypeOK, RowTypes, LoopTypes, AddMember, rows, loop, beat
<1>3. ASSUME NEW j \in Jobs, NEW w \in Workers, InsertJob(j, w)
      PROVE  TypeOK'
  BY <1>3 DEF TypeOK, RowTypes, LoopTypes, InsertJob, Local, loop, beat
<1>4. ASSUME NEW w \in Workers, FindCandidate(w)
      PROVE  TypeOK'
  <2>1. PICK now \in IssueTimes(w), j \in Jobs :
          mem' = [mem EXCEPT ![w] = Copy(j, NoToken, attempts[j], now)]
    BY <1>4 DEF FindCandidate
  <2>2. now \in Nat
    BY IssueTimesType
  <2>3. Goto(w, "claim")
    BY <1>4 DEF FindCandidate
  <2>4. LoopTypes'
    BY <1>0, <1>4, <2>1, <2>2, <2>3, GotoTypes
    DEF LoopTypes, RowTypes, FindCandidate, Copy, NoToken, beat
  <2> QED
    BY <1>4, <2>4 DEF TypeOK, RowTypes, FindCandidate, rows
<1>5. ASSUME NEW w \in Workers, NEW reply \in BOOLEAN, Claim(w, reply)
      PROVE  TypeOK'
  <2> DEFINE j == mem[w].job
  <2>0. /\ status' = [status EXCEPT ![j] = "processing"]
        /\ attempts' = [attempts EXCEPT ![j] = @ + 1]
        /\ leaseToken' = [leaseToken EXCEPT ![j] = issued + 1]
        /\ leaseUntil' = [leaseUntil EXCEPT ![j] = mem[w].now + LeaseDuration]
        /\ availableAt' = availableAt
        /\ issued' = issued + 1
    BY <1>5 DEF Claim, FreshToken, CountAttempt
  <2>1. RowTypes' /\ issued' \in Nat
    <3>1. issued \in Nat /\ mem[w].now + LeaseDuration \in Nat
      BY <1>0 DEF TypeOK
    <3> HIDE DEF j
    <3>2. status' \in [Jobs -> {"absent", "pending", "processing", "completed", "failed"}]
      BY <1>0, <2>0 DEF RowTypes
    <3>3. attempts' \in [Jobs -> Nat]
      BY <1>0, <2>0, IncrementType DEF RowTypes
    <3>4. leaseToken' \in [Jobs -> Nat]
      BY <1>0, <2>0, <3>1, UpdateType DEF RowTypes
    <3>5. leaseUntil' \in [Jobs -> Nat]
      BY <1>0, <2>0, <3>1, UpdateType DEF RowTypes
    <3> QED
      BY <1>0, <2>0, <3>1, <3>2, <3>3, <3>4, <3>5 DEF RowTypes
  <2>2. CASE reply
    <3>1. Goto(w, "read") /\ "read" \in Working
      BY <1>5, <2>2 DEF Claim, Working
    <3>2. /\ mem' = [mem EXCEPT ![w] = Copy(j, issued + 1, mem[w].attempts + 1, NoTime)]
          /\ beatDue' = [beatDue EXCEPT ![w] = clock + RenewInterval]
          /\ renewal' = renewal
      BY <1>5, <2>2 DEF Claim, FreshToken
    <3>3. mem' \in [Workers -> [job : Jobs \cup {0}, token : Nat, attempts : Nat, now : Nat,
                               to : SUBSET Users]]
      <4>1. Copy(j, issued + 1, mem[w].attempts + 1, NoTime) \in
              [job : Jobs \cup {0}, token : Nat, attempts : Nat, now : Nat, to : SUBSET Users]
        <5>1. /\ mem[w].attempts + 1 \in Nat /\ issued + 1 \in Nat /\ j \in Jobs \cup {0}
              /\ NoTime \in Nat
          BY <1>0 DEF TypeOK, NoTime
        <5> HIDE DEF j
        <5> QED
          BY <5>1, CopyType
      <4> QED
        BY <1>0, <3>2, <4>1, UpdateType DEF LoopTypes
    <3>4. LoopTypes'
      BY <1>0, <3>1, <3>2, <3>3, GotoTypes DEF LoopTypes
    <3> QED
      BY <1>5, <2>1, <3>4 DEF TypeOK, Claim
  <2>3. CASE ~ reply
    BY <1>0, <1>5, <2>1, <2>3, GoIdleTypes DEF TypeOK, Claim
  <2> QED
    BY <2>2, <2>3
<1>6. ASSUME NEW w \in Workers, LoseRace(w)
      PROVE  TypeOK'
  BY <1>0, <1>6, GoIdleTypes DEF TypeOK, RowTypes, LoseRace, rows
<1>7. ASSUME NEW w \in Workers, ReadRecipients(w)
      PROVE  TypeOK'
  <2>1. Goto(w, "renew") /\ "renew" \in Working
    BY <1>7 DEF ReadRecipients, Working
  <2>2. mem' \in [Workers -> [job : Jobs \cup {0}, token : Nat, attempts : Nat, now : Nat, to : SUBSET Users]]
    <3>1. members \in SUBSET Users /\ mem' = [mem EXCEPT ![w].to = members]
      BY <1>7 DEF TypeOK, ReadRecipients
    <3> QED
      BY <1>0, <3>1 DEF LoopTypes
  <2>3. UNCHANGED beat
    BY <1>7 DEF ReadRecipients
  <2>4. LoopTypes'
    BY <1>0, <2>1, <2>2, <2>3, GotoTypes DEF LoopTypes, beat
  <2> QED
    BY <1>7, <2>4 DEF TypeOK, RowTypes, ReadRecipients, rows
<1>8. ASSUME NEW w \in Workers, NEW reply \in BOOLEAN, RenewBeforeWrite(w, reply)
      PROVE  TypeOK'
  <2>1. LoopTypes'
    BY <1>0, <1>8, AdvanceTypes, CatchTypes DEF RenewBeforeWrite, Working
  <2>2. leaseUntil' \in [Jobs -> Nat]
    BY <1>0, <1>8, IssueTimesType DEF RenewBeforeWrite, Renewed, RowTypes
  <2> QED
    BY <1>8, <2>1, <2>2 DEF TypeOK, RowTypes, RenewBeforeWrite
<1>9. ASSUME NEW w \in Workers, NEW reply \in BOOLEAN, WriteNotifications(w, reply)
      PROVE  TypeOK'
  <2>1. LoopTypes'
    BY <1>0, <1>9, AdvanceTypes DEF WriteNotifications, Working
  <2>2. notified' \in [Jobs -> SUBSET Users]
    BY <1>0, <1>9 DEF TypeOK, WriteNotifications
  <2> QED
    BY <1>9, <2>1, <2>2 DEF TypeOK, RowTypes, WriteNotifications, rows
<1>10. ASSUME NEW w \in Workers, NEW reply \in BOOLEAN, Complete(w, reply)
       PROVE  TypeOK'
  <2>1. LoopTypes'
    BY <1>0, <1>10, FinallyTypes, CatchTypes DEF Complete
  <2>2. RowTypes'
    BY <1>0, <1>10, SettledTypes DEF RowTypes, Complete
  <2> QED
    BY <1>10, <2>1, <2>2 DEF TypeOK, Complete
<1>11. ASSUME NEW w \in Workers, RecordFailure(w)
       PROVE  TypeOK'
  <2>1. LoopTypes'
    BY <1>0, <1>11, FinallyTypes DEF RecordFailure
  <2>2. availableAt' \in [Jobs -> Nat]
    <3>1. RetryDelay(mem[w].attempts) \in Nat
      BY <1>0, RetryDelayType
    <3>2. PICK now \in IssueTimes(w) :
            \/ availableAt' = [availableAt EXCEPT ![mem[w].job] = now + RetryDelay(mem[w].attempts)]
            \/ UNCHANGED availableAt
      BY <1>11 DEF RecordFailure
    <3> QED
      BY <1>0, <3>1, <3>2, IssueTimesType DEF RowTypes
  <2>3. RowTypes'
    BY <1>0, <1>11, <2>2, SettledTypes DEF RowTypes, RecordFailure
  <2> QED
    BY <1>11, <2>1, <2>3 DEF TypeOK, RecordFailure
<1>12. ASSUME NEW w \in Workers, QueryFails(w)
       PROVE  TypeOK'
  <2>1. LoopTypes'
    BY <1>0, <1>12, GoIdleTypes, CatchTypes, FinallyTypes DEF QueryFails
  <2> QED
    BY <1>12, <2>1 DEF TypeOK, RowTypes, QueryFails, rows
<1>13. ASSUME NEW w \in Workers, Settle(w)
       PROVE  TypeOK'
  BY <1>0, <1>13, GoIdleTypes DEF TypeOK, RowTypes, Settle, rows
<1>14. ASSUME NEW w \in Workers, HeartbeatFires(w)
       PROVE  TypeOK'
  BY <1>14 DEF TypeOK, RowTypes, LoopTypes, HeartbeatFires, Local, rows, loop
<1>15. ASSUME NEW w \in Workers, HeartbeatRenews(w)
       PROVE  TypeOK'
  <2>1. renewal[w] \in Nat
    BY <1>0, <1>15 DEF LoopTypes, HeartbeatRenews
  <2>2. leaseUntil' \in [Jobs -> Nat]
    BY <1>0, <1>15, <2>1 DEF RowTypes, HeartbeatRenews, Renewed
  <2>3. LoopTypes'
    BY <1>0, <1>15 DEF LoopTypes, HeartbeatRenews, loop
  <2> QED
    BY <1>15, <2>2, <2>3 DEF TypeOK, RowTypes, HeartbeatRenews
<1>16. ASSUME NEW w \in Workers, Crash(w)
       PROVE  TypeOK'
  BY <1>0, <1>16, GoIdleTypes DEF TypeOK, RowTypes, Crash, rows
<1>17. CASE UNCHANGED vars
  BY <1>17 DEF TypeOK, RowTypes, LoopTypes, vars, rows, loop, beat
<1> QED
  BY <1>1, <1>2, <1>3, <1>4, <1>5, <1>6, <1>7, <1>8, <1>9, <1>10, <1>11, <1>12, <1>13, <1>14,
     <1>15, <1>16, <1>17 DEF Next

\* In every reachable state the variables have their types: no row gets an unknown status and
\* no clock, counter or lease a value outside its range.
THEOREM TypeCorrect == Spec => []TypeOK
<1> QED
  BY TypeInit, TypeNext, PTL DEF Spec

-----------------------------------------------------------------------------
(* What a step does to the rows and to the job objects.                    *)

\* The worker keeps its job object, but for the recipients and the now of the claim.
SameCopy(w) ==
    /\ mem'[w].job = mem[w].job
    /\ mem'[w].token = mem[w].token
    /\ mem'[w].attempts = mem[w].attempts
    /\ pc'[w] = "claim" => pc[w] = "claim"

Forgets(w) == mem'[w] = NoJob /\ pc'[w] # "claim"

\* No row changes its status, attempts or token.
NoRowStep ==
    /\ UNCHANGED <<status, attempts, leaseToken, issued>>
    /\ \A w \in Workers : SameCopy(w) \/ Forgets(w)

\* The holder settles its job.
Release(w, outcome) ==
    /\ pc[w] \in {"complete", "fail"}
    /\ pc'[w] \notin {pc[w], "claim"}
    /\ \A v \in Workers \ {w} : pc'[v] = pc[v]
    /\ outcome \in {"pending", "completed", "failed"}
    /\ outcome = "completed" => pc[w] = "complete"
    /\ outcome = "failed" => Exhausted(mem[w].attempts)
    /\ \E now \in Nat : Fenced(mem[w].job, mem[w].token, now)
    /\ Settled(mem[w].job, outcome)
    /\ UNCHANGED <<attempts, issued, mem>>

\* Every step is of one of five kinds.
LEMMA StepKinds ==
    ASSUME TypeOK, [Next]_vars
    PROVE  \/ NoRowStep
           \/ \E j \in Jobs, w \in Workers : InsertJob(j, w)
           \/ \E w \in Workers : FindCandidate(w)
           \/ \E w \in Workers, reply \in BOOLEAN : Claim(w, reply)
           \/ \E w \in Workers, outcome \in {"pending", "completed", "failed"} : Release(w, outcome)
<1> USE DEF NoRowStep, SameCopy, Forgets
<1>0. pc \in [Workers -> {"idle", "claim", "settle"} \cup Working] /\ DOMAIN mem = Workers
  BY DEF TypeOK, LoopTypes
<1>1. CASE Tick
  BY <1>1 DEF Tick, rows, loop
<1>2. ASSUME NEW u \in Users, AddMember(u)
      PROVE  NoRowStep
  BY <1>2 DEF AddMember, rows, loop
<1>3. ASSUME NEW w \in Workers, LoseRace(w)
      PROVE  NoRowStep
  BY <1>0, <1>3 DEF LoseRace, GoIdle, Goto, rows
<1>4. ASSUME NEW w \in Workers, ReadRecipients(w)
      PROVE  NoRowStep
  BY <1>0, <1>4 DEF TypeOK, LoopTypes, ReadRecipients, Goto, rows
<1>5. ASSUME NEW w \in Workers, NEW reply \in BOOLEAN, RenewBeforeWrite(w, reply)
      PROVE  NoRowStep
  BY <1>0, <1>5 DEF RenewBeforeWrite, Advance, Catch, Goto
<1>6. ASSUME NEW w \in Workers, NEW reply \in BOOLEAN, WriteNotifications(w, reply)
      PROVE  NoRowStep
  BY <1>0, <1>6 DEF WriteNotifications, Advance, Catch, Goto, rows
<1>7. ASSUME NEW w \in Workers, NEW reply \in BOOLEAN, Complete(w, reply)
      PROVE  NoRowStep \/ Release(w, "completed")
  <2>1. PICK now \in IssueTimes(w) :
          \/ Fenced(mem[w].job, mem[w].token, now) /\ Settled(mem[w].job, "completed")
          \/ ~ Fenced(mem[w].job, mem[w].token, now) /\ UNCHANGED <<status, leaseToken, leaseUntil>>
    BY <1>7 DEF Complete
  <2>2. now \in Nat
    BY IssueTimesType
  <2>3. /\ UNCHANGED <<attempts, issued, mem>>
        /\ pc[w] = "complete" /\ pc'[w] \in {"settle", "fail"}
        /\ \A v \in Workers \ {w} : pc'[v] = pc[v]
    BY <1>0, <1>7 DEF Complete, Finally, Catch, Goto
  <2> QED
    BY <2>1, <2>2, <2>3 DEF Release
<1>8. ASSUME NEW w \in Workers, RecordFailure(w)
      PROVE  NoRowStep \/ \E outcome \in {"pending", "failed"} : Release(w, outcome)
  <2> DEFINE outcome == IF Exhausted(mem[w].attempts) THEN "failed" ELSE "pending"
  <2>1. PICK now \in IssueTimes(w) :
          \/ Fenced(mem[w].job, mem[w].token, now) /\ Settled(mem[w].job, outcome)
          \/ UNCHANGED <<status, leaseToken, leaseUntil>>
    BY <1>8 DEF RecordFailure
  <2>2. now \in Nat
    BY IssueTimesType
  <2>3. /\ UNCHANGED <<attempts, issued, mem>>
        /\ pc[w] = "fail" /\ pc'[w] = "settle"
        /\ \A v \in Workers \ {w} : pc'[v] = pc[v]
    BY <1>0, <1>8 DEF RecordFailure, Finally, Goto
  <2>4. outcome \in {"pending", "failed"} /\ (outcome = "failed" => Exhausted(mem[w].attempts))
    OBVIOUS
  <2> QED
    BY <2>1, <2>2, <2>3, <2>4 DEF Release
<1>9. ASSUME NEW w \in Workers, QueryFails(w)
      PROVE  NoRowStep
  BY <1>0, <1>9 DEF QueryFails, GoIdle, Catch, Finally, Goto, rows
<1>10. ASSUME NEW w \in Workers, Settle(w)
       PROVE  NoRowStep
  BY <1>0, <1>10 DEF Settle, GoIdle, Goto, rows
<1>11. ASSUME NEW w \in Workers, HeartbeatFires(w)
       PROVE  NoRowStep
  BY <1>11 DEF HeartbeatFires, rows, loop
<1>12. ASSUME NEW w \in Workers, HeartbeatRenews(w)
       PROVE  NoRowStep
  BY <1>12 DEF HeartbeatRenews, loop
<1>13. ASSUME NEW w \in Workers, Crash(w)
       PROVE  NoRowStep
  BY <1>0, <1>13 DEF Crash, GoIdle, Goto, rows
<1>14. CASE UNCHANGED vars
  BY <1>14 DEF vars, rows, loop
<1> QED
  BY <1>1, <1>2, <1>3, <1>4, <1>5, <1>6, <1>7, <1>8, <1>9, <1>10, <1>11, <1>12, <1>13, <1>14
  DEF Next

-----------------------------------------------------------------------------
(* The inductive invariant.                                                *)

\* The initial state satisfies the inductive invariant: nobody holds anything.
LEMMA InvInit == Init => Inv
  BY ConstantTypes
  DEF Init, Inv, MemoryInv, Remembers, TokenInv, AttemptInv, AudienceInv, Reaches, NoEarlyGiveUp,
      CompletedReachedAudience, Holds, NoJob, Copy, NoToken, NoTime

\* A job, once inserted, stays in the table.
LEMMA NeverAbsentAgain ==
    ASSUME TypeOK, [Next]_vars, NEW j \in Jobs, status[j] # "absent"
    PROVE  status'[j] # "absent"
<1>0. status \in [Jobs -> {"absent", "pending", "processing", "completed", "failed"}]
  BY DEF TypeOK, RowTypes
<1>1. CASE NoRowStep
  BY <1>1 DEF NoRowStep
<1>2. ASSUME NEW k \in Jobs, NEW w \in Workers, InsertJob(k, w)
      PROVE  status'[j] # "absent"
  BY <1>0, <1>2 DEF InsertJob
<1>3. ASSUME NEW w \in Workers, FindCandidate(w)
      PROVE  status'[j] # "absent"
  BY <1>3 DEF FindCandidate, rows
<1>4. ASSUME NEW w \in Workers, NEW reply \in BOOLEAN, Claim(w, reply)
      PROVE  status'[j] # "absent"
  BY <1>0, <1>4 DEF Claim
<1>5. ASSUME NEW w \in Workers, NEW outcome \in {"pending", "completed", "failed"}, Release(w, outcome)
      PROVE  status'[j] # "absent"
  BY <1>0, <1>5 DEF Release, Settled
<1> QED
  BY <1>1, <1>2, <1>3, <1>4, <1>5, StepKinds

\* Every step keeps what the loops' memories say about where the loops are.
LEMMA MemoryNext ==
    ASSUME TypeOK, MemoryInv, [Next]_vars
    PROVE  MemoryInv'
<1> DEFINE Kept(v) == pc'[v] = pc[v] /\ mem'[v] = mem[v]
           Moved(v) == /\ pc[v] # "idle" /\ pc'[v] \notin {"idle", "claim"}
                       /\ mem'[v].job = mem[v].job
           Idled(v) == pc'[v] = "idle" /\ mem'[v] = NoJob
           Found(v) == /\ pc'[v] = "claim" /\ mem'[v].token = NoToken
                       /\ mem'[v].job \in Jobs /\ status[mem'[v].job] # "absent"
           Fine(v) == Kept(v) \/ Moved(v) \/ Idled(v) \/ Found(v)
           AllFine == \A v \in Workers : Fine(v)
<1>0. /\ pc \in [Workers -> {"idle", "claim", "settle"} \cup Working]
      /\ DOMAIN mem = Workers
  BY DEF TypeOK, LoopTypes
<1>a. ASSUME NEW v \in Workers, Fine(v)
      PROVE  Remembers(v)'
  <2>1. Remembers(v)
    BY DEF MemoryInv
  <2>2. CASE Idled(v)
    BY <2>2 DEF Remembers
  <2>3. CASE Moved(v)
    BY <2>1, <2>3, NeverAbsentAgain DEF Remembers
  <2>4. CASE Found(v)
    BY <2>4, NeverAbsentAgain DEF Remembers
  <2>5. CASE Kept(v)
    BY <2>1, <2>5, NeverAbsentAgain DEF Remembers
  <2> QED
    BY <1>a, <2>2, <2>3, <2>4, <2>5
<1>b. SUFFICES AllFine
  BY <1>a DEF MemoryInv
<1>1. CASE Tick
  BY <1>1 DEF Tick, loop
<1>2. ASSUME NEW u \in Users, AddMember(u)
      PROVE  AllFine
  BY <1>2 DEF AddMember, loop
<1>3. ASSUME NEW j \in Jobs, NEW w \in Workers, InsertJob(j, w)
      PROVE  AllFine
  BY <1>3 DEF InsertJob, loop
<1>4. ASSUME NEW w \in Workers, FindCandidate(w)
      PROVE  AllFine
  <2>1. PICK now \in IssueTimes(w), j \in Jobs :
          Claimable(j, now) /\ mem' = [mem EXCEPT ![w] = Copy(j, NoToken, attempts[j], now)]
    BY <1>4 DEF FindCandidate
  <2>2. status[j] # "absent"
    BY <2>1 DEF Claimable
  <2>3. mem'[w].job = j /\ mem'[w].token = NoToken
    BY <1>0, <2>1 DEF Copy
  <2>4. \A v \in Workers \ {w} : Kept(v)
    BY <1>0, <1>4, <2>1 DEF FindCandidate, Goto
  <2>5. Found(w)
    BY <1>0, <1>4, <2>2, <2>3 DEF FindCandidate, Goto
  <2> QED
    BY <2>4, <2>5
<1>5. ASSUME NEW w \in Workers, NEW reply \in BOOLEAN, Claim(w, reply)
      PROVE  AllFine
  BY <1>0, <1>5 DEF Claim, GoIdle, Goto, Copy
<1>6. ASSUME NEW w \in Workers, LoseRace(w)
      PROVE  AllFine
  BY <1>0, <1>6 DEF LoseRace, GoIdle, Goto
<1>7. ASSUME NEW w \in Workers, ReadRecipients(w)
      PROVE  AllFine
  <2>1. mem'[w].job = mem[w].job
    BY <1>0, <1>7 DEF TypeOK, LoopTypes, ReadRecipients
  <2> QED
    BY <1>0, <1>7, <2>1 DEF ReadRecipients, Goto
<1>8. ASSUME NEW w \in Workers, NEW reply \in BOOLEAN, RenewBeforeWrite(w, reply)
      PROVE  AllFine
  BY <1>0, <1>8 DEF RenewBeforeWrite, Advance, Catch, Goto
<1>9. ASSUME NEW w \in Workers, NEW reply \in BOOLEAN, WriteNotifications(w, reply)
      PROVE  AllFine
  BY <1>0, <1>9 DEF WriteNotifications, Advance, Catch, Goto
<1>10. ASSUME NEW w \in Workers, NEW reply \in BOOLEAN, Complete(w, reply)
       PROVE  AllFine
  BY <1>0, <1>10 DEF Complete, Finally, Catch, Goto
<1>11. ASSUME NEW w \in Workers, RecordFailure(w)
       PROVE  AllFine
  BY <1>0, <1>11 DEF RecordFailure, Finally, Goto
<1>12. ASSUME NEW w \in Workers, QueryFails(w)
       PROVE  AllFine
  BY <1>0, <1>12 DEF QueryFails, GoIdle, Catch, Finally, Goto, Working
<1>13. ASSUME NEW w \in Workers, Settle(w)
       PROVE  AllFine
  BY <1>0, <1>13 DEF Settle, GoIdle, Goto
<1>14. ASSUME NEW w \in Workers, HeartbeatFires(w)
       PROVE  AllFine
  BY <1>14 DEF HeartbeatFires, loop
<1>15. ASSUME NEW w \in Workers, HeartbeatRenews(w)
       PROVE  AllFine
  BY <1>15 DEF HeartbeatRenews, loop
<1>16. ASSUME NEW w \in Workers, Crash(w)
       PROVE  AllFine
  BY <1>0, <1>16 DEF Crash, GoIdle, Goto
<1>17. CASE UNCHANGED vars
  BY <1>17 DEF vars, loop
<1> QED
  BY <1>1, <1>2, <1>3, <1>4, <1>5, <1>6, <1>7, <1>8, <1>9, <1>10, <1>11, <1>12, <1>13, <1>14,
     <1>15, <1>16, <1>17 DEF Next

\* Every step keeps tokens unique, and in the row exactly while the job is processing.
LEMMA TokenNext ==
    ASSUME TypeOK, MemoryInv, TokenInv, [Next]_vars
    PROVE  TokenInv'
<1> USE DEF NoToken
<1>0. /\ status \in [Jobs -> {"absent", "pending", "processing", "completed", "failed"}]
      /\ leaseToken \in [Jobs -> Nat] /\ issued \in Nat /\ DOMAIN mem = Workers
      /\ \A w \in Workers : mem[w].token \in Nat
  BY DEF TypeOK, RowTypes, LoopTypes
<1>1. CASE NoRowStep
  <2>1. \A w \in Workers : SameCopy(w) \/ mem'[w].token = NoToken
    BY <1>1 DEF NoRowStep, Forgets, NoJob, Copy
  <2> QED
    BY <1>0, <1>1, <2>1 DEF TokenInv, NoRowStep, SameCopy, Holds
<1>2. ASSUME NEW k \in Jobs, NEW w \in Workers, InsertJob(k, w)
      PROVE  TokenInv'
  BY <1>0, <1>2 DEF TokenInv, InsertJob, Holds, loop
<1>3. ASSUME NEW w \in Workers, FindCandidate(w)
      PROVE  TokenInv'
  <2>1. mem'[w].token = NoToken /\ \A v \in Workers \ {w} : mem'[v] = mem[v]
    BY <1>0, <1>3 DEF FindCandidate, Copy
  <2> QED
    BY <1>0, <1>3, <2>1 DEF TokenInv, FindCandidate, Holds, rows
<1>4. ASSUME NEW w \in Workers, NEW reply \in BOOLEAN, Claim(w, reply)
      PROVE  TokenInv'
  <2> DEFINE j == mem[w].job
  <2>1. j \in Jobs
    BY <1>4 DEF MemoryInv, Remembers, Claim
  <2>2. /\ issued' = issued + 1
        /\ status' = [status EXCEPT ![j] = "processing"]
        /\ leaseToken' = [leaseToken EXCEPT ![j] = issued + 1]
        /\ \A v \in Workers \ {w} : mem'[v] = mem[v]
        /\ mem'[w].token \in {NoToken, issued + 1}
        /\ mem'[w].token = issued + 1 => mem'[w].job = j
    BY <1>0, <1>4 DEF Claim, FreshToken, GoIdle, NoJob, Copy
  <2> HIDE DEF j
  <2> QED
    BY <1>0, <2>1, <2>2 DEF TokenInv, Holds
<1>5. ASSUME NEW w \in Workers, NEW outcome \in {"pending", "completed", "failed"}, Release(w, outcome)
      PROVE  TokenInv'
  <2> DEFINE j == mem[w].job
  <2>1. /\ mem' = mem /\ issued' = issued
        /\ status' = [status EXCEPT ![j] = outcome]
        /\ leaseToken' = [leaseToken EXCEPT ![j] = NoToken]
    BY <1>5 DEF Release, Settled
  <2> HIDE DEF j
  <2> QED
    BY <1>0, <2>1 DEF TokenInv, Holds
<1> QED
  BY <1>1, <1>2, <1>3, <1>4, <1>5, StepKinds

\* Every step keeps the copy of attempts a holder has equal to, or behind, the row.
LEMMA AttemptNext ==
    ASSUME TypeOK, MemoryInv, TokenInv, AttemptInv, [Next]_vars
    PROVE  AttemptInv'
<1> USE DEF NoToken, Exhausted
<1>0. /\ status \in [Jobs -> {"absent", "pending", "processing", "completed", "failed"}]
      /\ attempts \in [Jobs -> Nat] /\ leaseToken \in [Jobs -> Nat] /\ issued \in Nat
      /\ pc \in [Workers -> {"idle", "claim", "settle"} \cup Working]
      /\ DOMAIN mem = Workers
      /\ \A w \in Workers : mem[w].token \in Nat /\ mem[w].attempts \in Nat
      /\ MaxAttempts \in Nat
  BY ConstantTypes DEF TypeOK, RowTypes, LoopTypes
<1>1. CASE NoRowStep
  <2>1. \A w \in Workers : SameCopy(w) \/ (mem'[w].token = NoToken /\ pc'[w] # "claim")
    BY <1>1 DEF NoRowStep, Forgets, NoJob, Copy
  <2> QED
    BY <1>0, <1>1, <2>1 DEF AttemptInv, NoEarlyGiveUp, NoRowStep, SameCopy, Holds
<1>2. ASSUME NEW k \in Jobs, NEW w \in Workers, InsertJob(k, w)
      PROVE  AttemptInv'
  BY <1>0, <1>2 DEF AttemptInv, NoEarlyGiveUp, InsertJob, Holds, loop
<1>3. ASSUME NEW w \in Workers, FindCandidate(w)
      PROVE  AttemptInv'
  <2>1. PICK now \in IssueTimes(w), j \in Jobs : mem' = [mem EXCEPT ![w] = Copy(j, NoToken, attempts[j], now)]
    BY <1>3 DEF FindCandidate
  <2>2. /\ mem'[w].token = NoToken /\ mem'[w].job = j /\ mem'[w].attempts = attempts[j]
        /\ \A v \in Workers \ {w} : mem'[v] = mem[v] /\ pc'[v] = pc[v]
    BY <1>0, <1>3, <2>1 DEF FindCandidate, Copy, Goto
  <2> QED
    BY <1>0, <1>3, <2>2 DEF AttemptInv, NoEarlyGiveUp, FindCandidate, Holds, rows
<1>4. ASSUME NEW w \in Workers, NEW reply \in BOOLEAN, Claim(w, reply)
      PROVE  AttemptInv'
  <2> DEFINE j == mem[w].job
  <2>1. j \in Jobs /\ mem[w].attempts <= attempts[j]
    BY <1>4 DEF MemoryInv, Remembers, Claim, AttemptInv
  <2>2. /\ status' = [status EXCEPT ![j] = "processing"]
        /\ attempts' = [attempts EXCEPT ![j] = attempts[j] + 1]
        /\ leaseToken' = [leaseToken EXCEPT ![j] = issued + 1]
        /\ \A v \in Workers \ {w} : mem'[v] = mem[v] /\ pc'[v] = pc[v]
        /\ pc'[w] # "claim"
        /\ \/ mem'[w].token = NoToken
           \/ mem'[w].token = issued + 1 /\ mem'[w].attempts = mem[w].attempts + 1
    BY <1>0, <1>4 DEF Claim, CountAttempt, FreshToken, GoIdle, Goto, NoJob, Copy
  <2>3. \A k \in Jobs : attempts'[k] \in Nat /\ attempts[k] <= attempts'[k]
    BY <1>0, <2>1, <2>2
  <2>4. \A v \in Workers : pc'[v] = "claim" => mem'[v].attempts <= attempts'[mem'[v].job]
    <3> SUFFICES ASSUME NEW v \in Workers, pc'[v] = "claim"
                 PROVE  mem'[v].attempts <= attempts'[mem'[v].job]
      OBVIOUS
    <3>1. /\ mem'[v] = mem[v] /\ pc[v] = "claim" /\ mem[v].job \in Jobs
          /\ mem[v].attempts <= attempts[mem[v].job]
      BY <2>2 DEF AttemptInv, MemoryInv, Remembers
    <3> QED
      BY <1>0, <2>3, <3>1
  <2>5. ASSUME NEW v \in Workers, NEW k \in Jobs, Holds(v, k)'
        PROVE  mem'[v].attempts <= attempts'[k]
    <3>1. CASE k = j
      <4>1. mem'[v].token = issued + 1
        BY <1>0, <2>1, <2>2, <2>5, <3>1 DEF Holds
      <4>2. v = w
        BY <1>0, <2>2, <4>1 DEF TokenInv
      <4> QED
        BY <1>0, <2>1, <2>2, <3>1, <4>1, <4>2
    <3>2. CASE k # j
      <4>1. mem'[v].token = leaseToken[k] /\ leaseToken[k] # NoToken /\ leaseToken[k] <= issued
        BY <1>0, <2>1, <2>2, <2>5, <3>2 DEF Holds, TokenInv
      <4>2. v # w
        BY <1>0, <2>2, <4>1
      <4> QED
        BY <1>0, <2>2, <2>3, <4>1, <4>2 DEF AttemptInv, Holds
    <3> QED
      BY <3>1, <3>2
  <2>6. NoEarlyGiveUp'
    BY <1>0, <2>1, <2>2, <2>3 DEF AttemptInv, NoEarlyGiveUp
  <2> QED
    BY <2>4, <2>5, <2>6 DEF AttemptInv
<1>5. ASSUME NEW w \in Workers, NEW outcome \in {"pending", "completed", "failed"}, Release(w, outcome)
      PROVE  AttemptInv'
  <2> DEFINE j == mem[w].job
  <2>1. /\ mem' = mem /\ attempts' = attempts
        /\ status' = [status EXCEPT ![j] = outcome]
        /\ leaseToken' = [leaseToken EXCEPT ![j] = NoToken]
        /\ \A v \in Workers : pc'[v] = "claim" => pc[v] = "claim"
        /\ outcome = "failed" => mem[w].attempts >= MaxAttempts
        /\ status[j] = "processing" /\ leaseToken[j] = mem[w].token
    BY <1>5 DEF Release, Settled, Fenced
  <2>2. j \in Jobs
    BY <1>5 DEF MemoryInv, Remembers, Release
  <2>3. mem[w].attempts <= attempts[j]
    BY <2>1, <2>2 DEF AttemptInv, TokenInv, Holds
  <2> HIDE DEF j
  <2> QED
    BY <1>0, <2>1, <2>2, <2>3 DEF AttemptInv, NoEarlyGiveUp, Holds
<1> QED
  BY <1>1, <1>2, <1>3, <1>4, <1>5, StepKinds

\* Members are never removed, notifications never deleted, and the audience of a job is fixed
\* when it is inserted.
LEMMA OnlyGrows ==
    ASSUME TypeOK, [Next]_vars
    PROVE  /\ members \subseteq members'
           /\ \A j \in Jobs : /\ notified[j] \subseteq notified'[j]
                              /\ status[j] # "absent" => audience'[j] = audience[j]
                              /\ audience'[j] \in {audience[j], members}
<1>0. notified \in [Jobs -> SUBSET Users] /\ audience \in [Jobs -> SUBSET Users]
  BY DEF TypeOK
<1>1. ASSUME NEW u \in Users, AddMember(u)
      PROVE  members \subseteq members' /\ UNCHANGED <<notified, audience>>
  BY <1>1 DEF AddMember
<1>2. ASSUME NEW j \in Jobs, NEW w \in Workers, InsertJob(j, w)
      PROVE  /\ status[j] = "absent" /\ audience' = [audience EXCEPT ![j] = members]
             /\ UNCHANGED <<members, notified>>
  BY <1>2 DEF InsertJob
<1>3. ASSUME NEW w \in Workers, NEW reply \in BOOLEAN, WriteNotifications(w, reply)
      PROVE  /\ notified' = [notified EXCEPT ![mem[w].job] = @ \cup mem[w].to]
             /\ UNCHANGED <<members, audience>>
  BY <1>3 DEF WriteNotifications
<1>4. \/ UNCHANGED <<members, notified, audience>>
      \/ \E u \in Users : AddMember(u)
      \/ \E j \in Jobs, w \in Workers : InsertJob(j, w)
      \/ \E w \in Workers, reply \in BOOLEAN : WriteNotifications(w, reply)
  BY DEF Next, Tick, FindCandidate, Claim, LoseRace, ReadRecipients, RenewBeforeWrite, Complete,
         RecordFailure, QueryFails, Settle, HeartbeatFires, HeartbeatRenews, Crash, vars
<1> QED
  BY <1>0, <1>1, <1>2, <1>3, <1>4

\* A job is completed only by a worker that has written its recipients.
LEMMA CompletedNext ==
    ASSUME TypeOK, MemoryInv, AudienceInv, [Next]_vars
    PROVE  CompletedReachedAudience'
<1> SUFFICES ASSUME NEW j \in Jobs, status'[j] = "completed"
             PROVE  audience'[j] \subseteq notified'[j]
  BY DEF CompletedReachedAudience
<1>0. status \in [Jobs -> {"absent", "pending", "processing", "completed", "failed"}]
  BY DEF TypeOK, RowTypes
<1>1. CASE status[j] = "completed"
  BY <1>1, OnlyGrows DEF AudienceInv, CompletedReachedAudience
<1>2. ASSUME NEW w \in Workers, NEW outcome \in {"pending", "completed", "failed"}, Release(w, outcome),
             status[j] # "completed"
      PROVE  audience'[j] \subseteq notified'[j]
  <2>1. mem[w].job = j /\ outcome = "completed" /\ pc[w] = "complete" /\ status[j] = "processing"
    BY <1>0, <1>2 DEF Release, Settled, Fenced
  <2>2. audience[j] \subseteq notified[j]
    BY <2>1 DEF AudienceInv, Reaches
  <2> QED
    BY <2>1, <2>2, OnlyGrows
<1>3. CASE NoRowStep
  BY <1>1, <1>3 DEF NoRowStep
<1>4. ASSUME NEW k \in Jobs, NEW w \in Workers, InsertJob(k, w)
      PROVE  status[j] = "completed"
  BY <1>0, <1>4 DEF InsertJob
<1>5. ASSUME NEW w \in Workers, FindCandidate(w)
      PROVE  status[j] = "completed"
  BY <1>5 DEF FindCandidate, rows
<1>6. ASSUME NEW w \in Workers, NEW reply \in BOOLEAN, Claim(w, reply)
      PROVE  status[j] = "completed"
  BY <1>0, <1>6 DEF Claim
<1> QED
  BY <1>1, <1>2, <1>3, <1>4, <1>5, <1>6, StepKinds

\* Every step keeps the recipients a loop holds, and the finished jobs, complete.
LEMMA AudienceNext ==
    ASSUME TypeOK, MemoryInv, AudienceInv, [Next]_vars
    PROVE  AudienceInv'
<1> DEFINE Kept(v) == pc'[v] = pc[v] /\ mem'[v] = mem[v]
           Away(v) == pc'[v] \notin {"renew", "write", "complete"}
           Read(v) == /\ pc[v] = "read" /\ pc'[v] = "renew"
                      /\ mem'[v].job = mem[v].job /\ mem'[v].to = members
           Renews(v) == pc[v] = "renew" /\ pc'[v] = "write" /\ mem'[v] = mem[v]
           Wrote(v) == /\ pc[v] = "write" /\ pc'[v] = "complete" /\ mem'[v] = mem[v]
                       /\ mem[v].to \subseteq notified'[mem[v].job]
           Fine(v) == Kept(v) \/ Away(v) \/ Read(v) \/ Renews(v) \/ Wrote(v)
           AllFine == \A v \in Workers : Fine(v)
<1>0. /\ pc \in [Workers -> {"idle", "claim", "settle"} \cup Working]
      /\ DOMAIN mem = Workers
      /\ notified \in [Jobs -> SUBSET Users]
  BY DEF TypeOK, LoopTypes
<1>a. ASSUME NEW v \in Workers, Fine(v)
      PROVE  Reaches(v)'
  <2>1. Remembers(v) /\ Reaches(v)
    BY DEF MemoryInv, AudienceInv
  <2>2. pc[v] # "idle" => /\ audience'[mem[v].job] = audience[mem[v].job]
                          /\ audience[mem[v].job] \subseteq members
                          /\ notified[mem[v].job] \subseteq notified'[mem[v].job]
    BY <2>1, OnlyGrows DEF Remembers, AudienceInv
  <2>3. CASE Kept(v)
    BY <2>1, <2>2, <2>3 DEF Reaches
  <2>4. CASE Away(v)
    BY <2>4 DEF Reaches
  <2>5. CASE Read(v)
    BY <2>2, <2>5 DEF Reaches
  <2>6. CASE Renews(v)
    BY <2>1, <2>2, <2>6 DEF Reaches
  <2>7. CASE Wrote(v)
    BY <2>1, <2>2, <2>7 DEF Reaches
  <2> QED
    BY <1>a, <2>3, <2>4, <2>5, <2>6, <2>7
<1>b. \A j \in Jobs : audience'[j] \subseteq members'
  BY OnlyGrows DEF AudienceInv
<1>c. SUFFICES AllFine
  BY <1>a, <1>b, CompletedNext DEF AudienceInv
<1>1. CASE Tick
  BY <1>1 DEF Tick, loop
<1>2. ASSUME NEW u \in Users, AddMember(u)
      PROVE  AllFine
  BY <1>2 DEF AddMember, loop
<1>3. ASSUME NEW j \in Jobs, NEW w \in Workers, InsertJob(j, w)
      PROVE  AllFine
  BY <1>3 DEF InsertJob, loop
<1>4. ASSUME NEW w \in Workers, FindCandidate(w)
      PROVE  AllFine
  BY <1>0, <1>4 DEF FindCandidate, Goto
<1>5. ASSUME NEW w \in Workers, NEW reply \in BOOLEAN, Claim(w, reply)
      PROVE  AllFine
  BY <1>0, <1>5 DEF Claim, GoIdle, Goto
<1>6. ASSUME NEW w \in Workers, LoseRace(w)
      PROVE  AllFine
  BY <1>0, <1>6 DEF LoseRace, GoIdle, Goto
<1>7. ASSUME NEW w \in Workers, ReadRecipients(w)
      PROVE  AllFine
  <2>1. mem'[w].job = mem[w].job /\ mem'[w].to = members
    BY <1>0, <1>7 DEF TypeOK, LoopTypes, ReadRecipients
  <2> QED
    BY <1>0, <1>7, <2>1 DEF ReadRecipients, Goto
<1>8. ASSUME NEW w \in Workers, NEW reply \in BOOLEAN, RenewBeforeWrite(w, reply)
      PROVE  AllFine
  BY <1>0, <1>8 DEF RenewBeforeWrite, Advance, Catch, Goto
<1>9. ASSUME NEW w \in Workers, NEW reply \in BOOLEAN, WriteNotifications(w, reply)
      PROVE  AllFine
  <2>1. mem[w].job \in Jobs
    BY <1>9 DEF MemoryInv, Remembers, WriteNotifications
  <2>2. mem[w].to \subseteq notified'[mem[w].job]
    BY <1>0, <1>9, <2>1 DEF WriteNotifications
  <2> QED
    BY <1>0, <1>9, <2>2 DEF WriteNotifications, Advance, Catch, Goto
<1>10. ASSUME NEW w \in Workers, NEW reply \in BOOLEAN, Complete(w, reply)
       PROVE  AllFine
  BY <1>0, <1>10 DEF Complete, Finally, Catch, Goto
<1>11. ASSUME NEW w \in Workers, RecordFailure(w)
       PROVE  AllFine
  BY <1>0, <1>11 DEF RecordFailure, Finally, Goto
<1>12. ASSUME NEW w \in Workers, QueryFails(w)
       PROVE  AllFine
  BY <1>0, <1>12 DEF QueryFails, GoIdle, Catch, Finally, Goto
<1>13. ASSUME NEW w \in Workers, Settle(w)
       PROVE  AllFine
  BY <1>0, <1>13 DEF Settle, GoIdle, Goto
<1>14. ASSUME NEW w \in Workers, HeartbeatFires(w)
       PROVE  AllFine
  BY <1>14 DEF HeartbeatFires, loop
<1>15. ASSUME NEW w \in Workers, HeartbeatRenews(w)
       PROVE  AllFine
  BY <1>15 DEF HeartbeatRenews, loop
<1>16. ASSUME NEW w \in Workers, Crash(w)
       PROVE  AllFine
  BY <1>0, <1>16 DEF Crash, GoIdle, Goto
<1>17. CASE UNCHANGED vars
  BY <1>17 DEF vars, loop
<1> QED
  BY <1>1, <1>2, <1>3, <1>4, <1>5, <1>6, <1>7, <1>8, <1>9, <1>10, <1>11, <1>12, <1>13, <1>14,
     <1>15, <1>16, <1>17 DEF Next

-----------------------------------------------------------------------------
(* Theorems.                                                               *)

\* The inductive invariant holds in every reachable state.
LEMMA InvAlways == Spec => [](TypeOK /\ Inv)
<1>1. Init => TypeOK /\ Inv
  BY TypeInit, InvInit
<1>2. TypeOK /\ Inv /\ [Next]_vars => (TypeOK /\ Inv)'
  BY TypeNext, MemoryNext, TokenNext, AttemptNext, AudienceNext DEF Inv
<1> QED
  BY <1>1, <1>2, PTL DEF Spec

\* Whatever takeovers, crashes, slow queries and lost replies came before, a job in processing
\* has one token and at most one worker that can still pass the fence with it.
THEOREM OneHolderAlways == Spec => []OneHolder
<1>1. Inv => OneHolder
  <2> SUFFICES ASSUME TokenInv, NEW j \in Jobs
               PROVE  /\ status[j] = "processing" <=> leaseToken[j] # NoToken
                      /\ \A v, w \in Workers : Holds(v, j) /\ Holds(w, j) => v = w
                      /\ \A w \in Workers : Holds(w, j) => mem[w].job = j
    BY DEF Inv, OneHolder
  <2> QED
    BY DEF TokenInv, Holds
<1> QED
  BY <1>1, InvAlways, PTL

\* A completed job has notified everyone who was a member when it was inserted.
THEOREM CompletedReachedAudienceAlways == Spec => []CompletedReachedAudience
<1>1. Inv => CompletedReachedAudience
  BY DEF Inv, AudienceInv
<1> QED
  BY <1>1, InvAlways, PTL

\* A failed job was attempted MAX_ATTEMPTS times.
THEOREM NoEarlyGiveUpAlways == Spec => []NoEarlyGiveUp
<1>1. Inv => NoEarlyGiveUp
  BY DEF Inv, AttemptInv
<1> QED
  BY <1>1, InvAlways, PTL

\* Completed and failed jobs are never taken up again.
THEOREM TerminalIsFinalAlways == Spec => TerminalIsFinal
<1>1. TypeOK /\ Inv /\ [Next]_vars =>
        [\A j \in Jobs : status[j] \in {"completed", "failed"} =>
            /\ status'[j] = status[j]
            /\ leaseToken'[j] = NoToken
            /\ attempts'[j] = attempts[j]]_vars
  <2> SUFFICES ASSUME TypeOK, Inv, [Next]_vars, NEW j \in Jobs, status[j] \in {"completed", "failed"}
               PROVE  /\ status'[j] = status[j] /\ leaseToken'[j] = NoToken
                      /\ attempts'[j] = attempts[j]
    OBVIOUS
  <2>0. /\ status \in [Jobs -> {"absent", "pending", "processing", "completed", "failed"}]
        /\ attempts \in [Jobs -> Nat] /\ leaseToken \in [Jobs -> Nat]
        /\ leaseToken[j] = NoToken
    BY DEF TypeOK, RowTypes, Inv, TokenInv
  <2>1. CASE NoRowStep
    BY <2>0, <2>1 DEF NoRowStep
  <2>2. ASSUME NEW k \in Jobs, NEW w \in Workers, InsertJob(k, w)
        PROVE  status'[j] = status[j] /\ leaseToken' = leaseToken /\ attempts' = attempts
    BY <2>0, <2>2 DEF InsertJob
  <2>3. ASSUME NEW w \in Workers, FindCandidate(w)
        PROVE  UNCHANGED rows
    BY <2>3 DEF FindCandidate
  <2>4. ASSUME NEW w \in Workers, NEW reply \in BOOLEAN, Claim(w, reply)
        PROVE  /\ status'[j] = status[j] /\ leaseToken'[j] = leaseToken[j]
               /\ attempts'[j] = attempts[j]
    <3>1. mem[w].job # j
      BY <2>4 DEF Claim, Claimable
    <3> QED
      BY <2>0, <2>4, <3>1 DEF Claim, CountAttempt
  <2>5. ASSUME NEW w \in Workers, NEW outcome \in {"pending", "completed", "failed"}, Release(w, outcome)
        PROVE  /\ status'[j] = status[j] /\ leaseToken'[j] = leaseToken[j]
               /\ attempts'[j] = attempts[j]
    <3>1. mem[w].job # j
      BY <2>5 DEF Release, Fenced
    <3> QED
      BY <2>0, <2>5, <3>1 DEF Release, Settled
  <2> QED
    BY <2>0, <2>1, <2>2, <2>3, <2>4, <2>5, StepKinds DEF rows
<1> QED
  BY <1>1, InvAlways, PTL DEF Spec, TerminalIsFinal

\* A lease ends without a takeover only by the settling update of the worker that holds it.
THEOREM ReleasedByHolderAlways == Spec => ReleasedByHolder
<1>1. TypeOK /\ [Next]_vars =>
        [\A j \in Jobs :
            leaseToken[j] # NoToken /\ leaseToken'[j] = NoToken =>
                \E w \in Workers : Holds(w, j) /\ pc[w] \in {"complete", "fail"} /\ pc'[w] # pc[w]]_vars
  <2> SUFFICES ASSUME TypeOK, [Next]_vars, NEW j \in Jobs,
                      leaseToken[j] # NoToken, leaseToken'[j] = NoToken
               PROVE  \E w \in Workers : /\ Holds(w, j) /\ pc[w] \in {"complete", "fail"}
                                        /\ pc'[w] # pc[w]
    OBVIOUS
  <2>0. leaseToken \in [Jobs -> Nat] /\ issued \in Nat
    BY DEF TypeOK, RowTypes
  <2>1. ~ NoRowStep
    BY DEF NoRowStep
  <2>2. ASSUME NEW k \in Jobs, NEW w \in Workers, InsertJob(k, w)
        PROVE  FALSE
    BY <2>2 DEF InsertJob
  <2>3. ASSUME NEW w \in Workers, FindCandidate(w)
        PROVE  FALSE
    BY <2>3 DEF FindCandidate, rows
  <2>4. ASSUME NEW w \in Workers, NEW reply \in BOOLEAN, Claim(w, reply)
        PROVE  FALSE
    <3>1. leaseToken' = [leaseToken EXCEPT ![mem[w].job] = issued + 1]
      BY <2>4 DEF Claim, FreshToken
    <3> QED
      BY <2>0, <3>1 DEF NoToken
  <2>5. ASSUME NEW w \in Workers, NEW outcome \in {"pending", "completed", "failed"}, Release(w, outcome)
        PROVE  Holds(w, j) /\ pc[w] \in {"complete", "fail"} /\ pc'[w] # pc[w]
    <3>1. mem[w].job = j
      BY <2>0, <2>5 DEF Release, Settled
    <3> QED
      BY <2>5, <3>1 DEF Release, Fenced, Holds
  <2> QED
    BY <2>1, <2>2, <2>3, <2>4, <2>5, StepKinds
<1> QED
  BY <1>1, TypeCorrect, PTL DEF Spec, ReleasedByHolder

-----------------------------------------------------------------------------
(* A claim is executed with a now that has passed.                         *)

\* The now that a claim carries was read from the worker's clock in the past.
ClaimsAreDated ==
    \A w \in Workers : pc[w] = "claim" => mem[w].now <= Local(w, clock)

\* A worker is about to claim because it found a candidate, in this step or before.
LEMMA ClaimsWereFound ==
    ASSUME TypeOK, [Next]_vars, NEW w \in Workers, pc'[w] = "claim"
    PROVE  FindCandidate(w) \/ (pc[w] = "claim" /\ mem'[w] = mem[w])
<1>0. pc \in [Workers -> {"idle", "claim", "settle"} \cup Working] /\ DOMAIN mem = Workers
  BY DEF TypeOK, LoopTypes
<1>1. CASE UNCHANGED <<pc, mem>>
  BY <1>1
<1>2. ASSUME NEW v \in Workers,
             \/ LoseRace(v) \/ ReadRecipients(v) \/ RecordFailure(v) \/ QueryFails(v)
             \/ Settle(v) \/ Crash(v)
             \/ \E reply \in BOOLEAN :
                  \/ Claim(v, reply) \/ RenewBeforeWrite(v, reply)
                  \/ WriteNotifications(v, reply) \/ Complete(v, reply)
      PROVE  /\ pc'[v] # "claim"
             /\ \A u \in Workers \ {v} : pc'[u] = pc[u] /\ mem'[u] = mem[u]
  <2>1. \E next \in {"idle", "read", "renew", "write", "complete", "fail", "settle"} : Goto(v, next)
    BY <1>2 DEF LoseRace, ReadRecipients, RecordFailure, QueryFails, Settle, Crash, Claim,
                RenewBeforeWrite, WriteNotifications, Complete, Advance, Catch, Finally, GoIdle
  <2>2. \A u \in Workers \ {v} : mem'[u] = mem[u]
    BY <1>0, <1>2 DEF LoseRace, ReadRecipients, RecordFailure, QueryFails, Settle, Crash, Claim,
                RenewBeforeWrite, WriteNotifications, Complete, Advance, Catch, Finally, GoIdle
  <2> QED
    BY <1>0, <2>1, <2>2 DEF Goto
<1>3. ASSUME NEW v \in Workers, FindCandidate(v), v # w
      PROVE  pc'[w] = pc[w] /\ mem'[w] = mem[w]
  BY <1>0, <1>3 DEF FindCandidate, Goto
<1>4. CASE Tick \/ (\E u \in Users : AddMember(u)) \/ (\E j \in Jobs, v \in Workers : InsertJob(j, v))
  BY <1>1, <1>4 DEF Tick, AddMember, InsertJob, loop
<1>5. ASSUME NEW v \in Workers, HeartbeatFires(v) \/ HeartbeatRenews(v)
      PROVE  UNCHANGED <<pc, mem>>
  BY <1>5 DEF HeartbeatFires, HeartbeatRenews, loop
<1>6. CASE UNCHANGED vars
  BY <1>1, <1>6 DEF vars, loop
<1> QED
  BY <1>1, <1>2, <1>3, <1>4, <1>5, <1>6 DEF Next

\* Time only passes.
LEMMA ClockGrows ==
    ASSUME TypeOK, [Next]_vars
    PROVE  clock' \in Nat /\ clock <= clock'
<1>1. clock' = clock \/ clock' = clock + 1
  BY DEF Next, Tick, AddMember, InsertJob, FindCandidate, Claim, LoseRace, ReadRecipients,
         RenewBeforeWrite, WriteNotifications, Complete, RecordFailure, QueryFails, Settle,
         HeartbeatFires, HeartbeatRenews, Crash, vars
<1> QED
  BY <1>1 DEF TypeOK

\* Every claim under way carries a now of the past.
LEMMA ClaimsAreDatedAlways == Spec => []ClaimsAreDated
<1>1. Init => ClaimsAreDated
  BY DEF Init, ClaimsAreDated
<1>2. TypeOK /\ ClaimsAreDated /\ [Next]_vars => ClaimsAreDated'
  <2> SUFFICES ASSUME TypeOK, ClaimsAreDated, [Next]_vars, NEW w \in Workers, pc'[w] = "claim"
               PROVE  mem'[w].now <= clock' + Skew[w]
    BY DEF ClaimsAreDated, Local
  <2>0. /\ clock \in Nat /\ clock' \in Nat /\ clock <= clock' /\ Skew[w] \in Nat
        /\ mem[w].now \in Nat /\ lastReply[w] \in Nat /\ DOMAIN mem = Workers
    BY ClockGrows, ConstantTypes DEF TypeOK, LoopTypes
  <2>1. CASE pc[w] = "claim" /\ mem'[w] = mem[w]
    <3>1. mem[w].now <= clock + Skew[w]
      BY <2>1 DEF ClaimsAreDated, Local
    <3> QED
      BY <2>0, <2>1, <3>1
  <2>2. CASE FindCandidate(w)
    <3>1. PICK now \in IssueTimes(w), j \in Jobs :
            mem' = [mem EXCEPT ![w] = Copy(j, NoToken, attempts[j], now)]
      BY <2>2 DEF FindCandidate
    <3>2. mem'[w].now = now
      BY <2>0, <3>1 DEF Copy
    <3>3. now <= clock + Skew[w]
      BY <2>0 DEF IssueTimes, Local
    <3>4. now \in Nat
      BY IssueTimesType
    <3> QED
      BY <2>0, <3>2, <3>3, <3>4
  <2> QED
    BY <2>1, <2>2, ClaimsWereFound
<1> QED
  BY <1>1, <1>2, TypeCorrect, PTL DEF Spec

\* A lease that has not run out by any clock is not taken over, however old the claim's now is.
THEOREM LiveLeaseNotStolenAlways == Spec => LiveLeaseNotStolen
<1>1. TypeOK /\ ClaimsAreDated /\ [Next]_vars =>
        [\A j \in Jobs :
            /\ status[j] = "processing"
            /\ \A w \in Workers : leaseUntil[j] > Local(w, clock)
            => attempts'[j] = attempts[j] /\ leaseToken'[j] \in {leaseToken[j], NoToken}]_vars
  <2> SUFFICES ASSUME TypeOK, ClaimsAreDated, [Next]_vars, NEW j \in Jobs, status[j] = "processing",
                      \A w \in Workers : leaseUntil[j] > Local(w, clock)
               PROVE  attempts'[j] = attempts[j] /\ leaseToken'[j] \in {leaseToken[j], NoToken}
    OBVIOUS
  <2>0. /\ attempts \in [Jobs -> Nat] /\ leaseToken \in [Jobs -> Nat] /\ leaseUntil[j] \in Nat
        /\ clock \in Nat
    BY DEF TypeOK, RowTypes
  <2>1. CASE NoRowStep
    BY <2>1 DEF NoRowStep
  <2>2. ASSUME NEW k \in Jobs, NEW w \in Workers, InsertJob(k, w)
        PROVE  leaseToken' = leaseToken /\ attempts' = attempts
    BY <2>2 DEF InsertJob
  <2>3. ASSUME NEW w \in Workers, FindCandidate(w)
        PROVE  leaseToken' = leaseToken /\ attempts' = attempts
    BY <2>3 DEF FindCandidate, rows
  <2>4. ASSUME NEW w \in Workers, NEW reply \in BOOLEAN, Claim(w, reply)
        PROVE  leaseToken'[j] = leaseToken[j] /\ attempts'[j] = attempts[j]
    <3>1. /\ mem[w].now \in Nat /\ mem[w].now <= Local(w, clock) /\ leaseUntil[j] > Local(w, clock)
          /\ Local(w, clock) \in Nat
      BY <2>0, <2>4, ConstantTypes DEF Claim, ClaimsAreDated, TypeOK, LoopTypes, Local
    <3>2. ~ Claimable(j, mem[w].now)
      BY <2>0, <3>1 DEF Claimable
    <3>3. mem[w].job # j
      BY <2>4, <3>2 DEF Claim
    <3> QED
      BY <2>0, <2>4, <3>3 DEF Claim, CountAttempt
  <2>5. ASSUME NEW w \in Workers, NEW outcome \in {"pending", "completed", "failed"}, Release(w, outcome)
        PROVE  attempts' = attempts /\ leaseToken'[j] \in {leaseToken[j], NoToken}
    BY <2>0, <2>5 DEF Release, Settled
  <2> QED
    BY <2>1, <2>2, <2>3, <2>4, <2>5, StepKinds
<1> QED
  BY <1>1, TypeCorrect, ClaimsAreDatedAlways, PTL DEF Spec, LiveLeaseNotStolen

-----------------------------------------------------------------------------
(* The protocol implements NotificationDelivery.                           *)

\* The phase that a status stands for.
PhaseOf(s) ==
    CASE s = "absent" -> "none"
      [] s = "pending" -> "queued"
      [] s = "processing" -> "attempting"
      [] s = "completed" -> "delivered"
      [] OTHER -> "abandoned"

\* The initial state is one of the abstract specification.
LEMMA DeliveryInit == Init => Delivery!Init
  BY DEF Init, Delivery!Init, Phase

\* A step that changes the status of one job changes the phase of that job.
LEMMA PhaseUpdate ==
    ASSUME TypeOK, NEW j \in Jobs, NEW s, status' = [status EXCEPT ![j] = s]
    PROVE  Phase' = [Phase EXCEPT ![j] = PhaseOf(s)]
<1>0. DOMAIN status = Jobs
  BY DEF TypeOK, RowTypes
<1>1. Phase = [k \in Jobs |-> PhaseOf(status[k])] /\ Phase' = [k \in Jobs |-> PhaseOf(status'[k])]
  BY DEF Phase, PhaseOf
<1> HIDE DEF Phase
<1>2. \A k \in Jobs : status'[k] = IF k = j THEN s ELSE status[k]
  BY <1>0
<1>3. Phase' = [k \in Jobs |-> IF k = j THEN PhaseOf(s) ELSE PhaseOf(status[k])]
  BY <1>1, <1>2
<1> QED
  BY <1>1, <1>3

\* The insert of a job queues it.
LEMMA InsertEnqueues ==
    ASSUME TypeOK, NEW j \in Jobs, NEW w \in Workers, InsertJob(j, w)
    PROVE  Delivery!Enqueue(j)
<1>1. status[j] = "absent" /\ status' = [status EXCEPT ![j] = "pending"]
  BY DEF InsertJob
<1>2. Phase[j] = "none" /\ Phase' = [Phase EXCEPT ![j] = "queued"]
  BY <1>1, PhaseUpdate DEF PhaseOf, Phase
<1>3. members \in SUBSET Users /\ audience' = [audience EXCEPT ![j] = members]
  BY DEF TypeOK, InsertJob
<1> QED
  BY <1>2, <1>3 DEF Delivery!Enqueue, InsertJob

\* A claim that wins begins an attempt.
LEMMA ClaimBegins ==
    ASSUME TypeOK, MemoryInv, NEW w \in Workers, NEW reply \in BOOLEAN, Claim(w, reply)
    PROVE  \E j \in Jobs : Delivery!Begin(j)
<1> DEFINE j == mem[w].job
<1>1. j \in Jobs /\ status[j] \in {"pending", "processing"}
  BY DEF MemoryInv, Remembers, Claim, Claimable
<1>2. status' = [status EXCEPT ![j] = "processing"] /\ attempts' = [attempts EXCEPT ![j] = @ + 1]
  BY DEF Claim, CountAttempt
<1> HIDE DEF j
<1>3. Phase[j] \in {"queued", "attempting"} /\ Phase' = [Phase EXCEPT ![j] = "attempting"]
  BY <1>1, <1>2, PhaseUpdate DEF PhaseOf, Phase
<1>4. UNCHANGED <<audience, notified>>
  BY DEF Claim
<1> QED
  BY <1>1, <1>2, <1>3, <1>4 DEF Delivery!Begin

\* The write of an attempt adds notifications of its job.
LEMMA WriteNotifies ==
    ASSUME TypeOK, MemoryInv, NEW w \in Workers, NEW reply \in BOOLEAN, WriteNotifications(w, reply)
    PROVE  \E j \in Jobs : Delivery!Notify(j)
<1> DEFINE j == mem[w].job
<1>1. j \in Jobs /\ status[j] # "absent"
  BY DEF MemoryInv, Remembers, WriteNotifications
<1>2. /\ mem[w].to \in SUBSET Users /\ notified' = [notified EXCEPT ![j] = @ \cup mem[w].to]
      /\ UNCHANGED <<status, attempts, audience>>
  BY DEF TypeOK, LoopTypes, WriteNotifications, rows
<1> HIDE DEF j
<1>3. Phase[j] # "none" /\ Phase' = Phase
  BY <1>1, <1>2 DEF Phase, TypeOK, RowTypes
<1> QED
  BY <1>1, <1>2, <1>3 DEF Delivery!Notify

\* The settling update of the worker that passes the fence ends its job's attempt.
LEMMA SettlingEnds ==
    ASSUME TypeOK, Inv, NEW w \in Workers, NEW outcome \in {"pending", "completed", "failed"},
           Release(w, outcome), UNCHANGED <<audience, notified>>
    PROVE  \E j \in Jobs : Delivery!Deliver(j) \/ Delivery!Requeue(j) \/ Delivery!Abandon(j)
<1> DEFINE j == mem[w].job
<1>0. pc[w] # "idle" /\ status[j] = "processing" /\ leaseToken[j] = mem[w].token
  BY DEF Release, Fenced
<1>1. j \in Jobs
  BY <1>0 DEF Inv, MemoryInv, Remembers
<1>2. status' = [status EXCEPT ![j] = outcome] /\ UNCHANGED <<attempts, audience, notified>>
  BY DEF Release, Settled
<1>3. outcome = "completed" => audience[j] \subseteq notified[j]
  BY DEF Inv, AudienceInv, Reaches, Release
<1>4. outcome = "failed" => attempts[j] >= MaxAttempts
  <2>1. Holds(w, j)
    BY <1>0, <1>1 DEF Inv, TokenInv, Holds
  <2>2. mem[w].attempts <= attempts[j]
    BY <1>1, <2>1 DEF Inv, AttemptInv
  <2>3. outcome = "failed" => mem[w].attempts >= MaxAttempts
    BY DEF Release, Exhausted
  <2>4. mem[w].attempts \in Nat /\ attempts[j] \in Nat /\ MaxAttempts \in Nat
    BY <1>1, ConstantTypes DEF TypeOK, RowTypes, LoopTypes
  <2> QED
    BY <2>2, <2>3, <2>4
<1> HIDE DEF j
<1>5. Phase[j] = "attempting" /\ Phase' = [Phase EXCEPT ![j] = PhaseOf(outcome)]
  BY <1>0, <1>1, <1>2, PhaseUpdate DEF Phase
<1>6. CASE outcome = "completed"
  BY <1>1, <1>2, <1>3, <1>5, <1>6 DEF Delivery!Deliver, PhaseOf
<1>7. CASE outcome = "pending"
  BY <1>1, <1>2, <1>5, <1>7 DEF Delivery!Requeue, PhaseOf
<1>8. CASE outcome = "failed"
  BY <1>1, <1>2, <1>4, <1>5, <1>8 DEF Delivery!Abandon, PhaseOf
<1> QED
  BY <1>6, <1>7, <1>8

\* Notifications and audiences are written by two actions only.
LEMMA WhoWrites ==
    ASSUME [Next]_vars
    PROVE  \/ UNCHANGED <<audience, notified>>
           \/ \E j \in Jobs, w \in Workers : InsertJob(j, w)
           \/ \E w \in Workers, reply \in BOOLEAN : WriteNotifications(w, reply)
  BY DEF Next, Tick, AddMember, FindCandidate, Claim, LoseRace, ReadRecipients, RenewBeforeWrite,
         Complete, RecordFailure, QueryFails, Settle, HeartbeatFires, HeartbeatRenews, Crash, vars

\* Every step of the protocol is a step of the abstract specification, or none.
LEMMA DeliveryNext == TypeOK /\ Inv /\ [Next]_vars => [Delivery!Next]_(Delivery!vars)
<1> SUFFICES ASSUME TypeOK, Inv, [Next]_vars
             PROVE  Delivery!Next \/ UNCHANGED Delivery!vars
  OBVIOUS
<1>0. MemoryInv
  BY DEF Inv
<1>1. ASSUME NEW j \in Jobs, NEW w \in Workers, InsertJob(j, w)
      PROVE  Delivery!Next
  BY <1>1, InsertEnqueues DEF Delivery!Next
<1>2. ASSUME NEW w \in Workers, NEW reply \in BOOLEAN, WriteNotifications(w, reply)
      PROVE  Delivery!Next
  BY <1>0, <1>2, WriteNotifies DEF Delivery!Next
<1>3. ASSUME NEW w \in Workers, NEW reply \in BOOLEAN, Claim(w, reply)
      PROVE  Delivery!Next
  BY <1>0, <1>3, ClaimBegins DEF Delivery!Next
<1>4. ASSUME NEW w \in Workers, NEW outcome \in {"pending", "completed", "failed"}, Release(w, outcome),
             UNCHANGED <<audience, notified>>
      PROVE  Delivery!Next
  BY <1>4, SettlingEnds DEF Delivery!Next
<1>5. ASSUME UNCHANGED <<status, attempts, audience, notified>>
      PROVE  UNCHANGED Delivery!vars
  BY <1>5 DEF Delivery!vars, Phase
<1>6. CASE UNCHANGED <<audience, notified>>
  <2>1. CASE NoRowStep
    BY <1>5, <1>6, <2>1 DEF NoRowStep
  <2>2. ASSUME NEW w \in Workers, FindCandidate(w)
        PROVE  UNCHANGED <<status, attempts>>
    BY <2>2 DEF FindCandidate, rows
  <2> QED
    BY <1>1, <1>3, <1>4, <1>5, <1>6, <2>1, <2>2, StepKinds
<1> QED
  BY <1>1, <1>2, <1>6, WhoWrites

\* The lease protocol implements the abstract delivery of a job: with the phase read off the
\* row's status, its behaviours are behaviours of NotificationDelivery.
THEOREM ImplementsDeliveryAlways == Spec => ImplementsDelivery
<1>1. Spec => Delivery!Init /\ [][Delivery!Next]_(Delivery!vars)
  BY DeliveryInit, DeliveryNext, InvAlways, PTL DEF Spec
<1> QED
  BY <1>1 DEF ImplementsDelivery, Delivery!Spec

=============================================================================
