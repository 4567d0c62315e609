------------------------------ MODULE Santa_proofs ------------------------------
(***************************************************************************)
(* Proofs about Santa for any number of elves, reindeer and deliveries and  *)
(* any size of a group.                                                     *)
(***************************************************************************)
EXTENDS Santa, FiniteSetTheorems, TLAPS

(* The mutexes that are held from one step to the next, and where. *)
Holders ==
  /\ \A e \in Elves : /\ pc[e] = "queue" => holder["elves_wait"] = e
                      /\ pc[e] = "wake_santa" => holder["elves_problem"] = e
  /\ \A r \in Reindeer : pc[r] = "wake_santa" => holder["reindeer_wait"] = r
  /\ pc[Santa] \in {"solve", "solving"} => holder["elves_problem"] = Santa
  /\ pc[Santa] \in {"look_elves", "look_reindeer", "check_elves", "solve", "solving"} =>
       holder["santa_sleep"] = Santa

(* The reindeer that may be counted: not the ones whose wait is over.  A reindeer that   *)
(* misses the broadcast stays among them, but is counted no more; one that wakes without *)
(* it is counted, but not among them.                                                    *)
Waiting == {r \in Reindeer : \/ pc[r] \in {"wake_santa", "at_pole"}
                             \/ pc[r] = "delivering" /\ r \in asleep}
ReindeerAreCounted ==
  /\ reindeer_count <= Cardinality(Waiting) + wakeups
  /\ pc[Santa] = "deliver" => reindeer_count >= TotalReindeer

(* Whoever is in the group is about to wait for Santa, or waits and has not been woken, *)
(* unless it woke by itself.                                                            *)
GroupWaits ==
  /\ \A i \in Group : elves_ids[i] \in Elves
  /\ \A i, j \in Group : elves_ids[i] = elves_ids[j] => i = j \/ elves_ids[i] \in woken
  /\ pc[Santa] # "solving" =>
       \A i \in Group : \/ elves_ids[i] \in woken
                        \/ pc[elves_ids[i]] \in {"wake_santa", "reported"}
                        \/ pc[elves_ids[i]] = "helped" /\ elves_ids[i] \in asleep

(* The call that Santa cannot see any more when he falls asleep: its caller waits for the *)
(* mutex that he holds until then.                                                        *)
CallIsHeard ==
  /\ pc[Santa] = "look_reindeer" \/ Santa \in asleep =>
       (elves_count = MaxElves => \E e \in Elves : pc[e] = "wake_santa")
  /\ Santa \in asleep =>
       (reindeer_count >= TotalReindeer => \E r \in Reindeer : pc[r] = "wake_santa")

StopsInTime == deliveries = MaxDeliveries => pc[Santa] = "exited"

IInv == TypeOK /\ Holders /\ ReindeerAreCounted /\ GroupWaits /\ CallIsHeard /\ StopsInTime

-----------------------------------------------------------------------------
(* Santa, the elves, the reindeer and the holder of a free mutex are different. *)
LEMMA Distinct ==
  /\ Santa \in Threads /\ Santa \notin Elves /\ Santa \notin Reindeer /\ Santa # Nobody
  /\ \A e \in Elves : e \in Threads /\ e \notin Reindeer /\ e # Nobody /\ e # Santa
  /\ \A r \in Reindeer : r \in Threads /\ r \notin Elves /\ r # Nobody /\ r # Santa
BY ThreadsAreDistinct DEF Threads


(* The constants that bound the counts are numbers. *)
LEMMA Numbers == /\ MaxElves \in Nat \ {0} /\ MaxDeliveries \in Nat \ {0}
                 /\ TotalReindeer \in Nat /\ MaxWakeups \in Nat
BY ThreadsAreFinite, Limits, FS_CardinalityType DEF TotalReindeer

(* The reindeer on holiday are not among those that may be counted. *)
LEMMA SomeAreAway == ASSUME IInv
                     PROVE  /\ IsFiniteSet(OnHoliday) /\ Cardinality(OnHoliday) \in Nat
                            /\ reindeer_count + Cardinality(OnHoliday) <= TotalReindeer + wakeups
<1>1. Waiting \subseteq Reindeer /\ OnHoliday \subseteq Reindeer /\ Waiting \cap OnHoliday = {}
  BY DEF Waiting, OnHoliday
<1>2. /\ IsFiniteSet(Waiting) /\ Cardinality(Waiting) \in Nat
      /\ IsFiniteSet(OnHoliday) /\ Cardinality(OnHoliday) \in Nat
  BY <1>1, ThreadsAreFinite, FS_Subset, FS_CardinalityType
<1>3. Cardinality(Waiting \cup OnHoliday) = Cardinality(Waiting) + Cardinality(OnHoliday)
  <2>1. Cardinality(Waiting \cup OnHoliday)
          = Cardinality(Waiting) + Cardinality(OnHoliday) - Cardinality(Waiting \cap OnHoliday)
    BY <1>2, FS_Union
  <2>2. Cardinality(Waiting \cap OnHoliday) = 0
    BY <1>1, FS_EmptySet
  <2> QED
    BY <1>2, <2>1, <2>2
<1>4. Cardinality(Waiting \cup OnHoliday) <= Cardinality(Reindeer)
  BY <1>1, ThreadsAreFinite, FS_Subset
<1>5. /\ reindeer_count <= Cardinality(Waiting) + wakeups
      /\ reindeer_count \in Nat /\ wakeups \in Nat
  BY Numbers DEF IInv, ReindeerAreCounted, TypeOK
<1> QED
  BY <1>2, <1>3, <1>4, <1>5, Numbers DEF TotalReindeer

(* The return of one of them still fits the count. *)
LEMMA OneIsAway == ASSUME IInv, NEW r \in Reindeer, pc[r] = "rest"
                   PROVE  reindeer_count < TotalReindeer + wakeups
<1>1. r \in OnHoliday
  BY DEF OnHoliday
<1>2. IsFiniteSet(OnHoliday) /\ Cardinality(OnHoliday) # 0
  BY <1>1, SomeAreAway, FS_EmptySet
<1> QED
  BY <1>2, SomeAreAway, Numbers DEF IInv, TypeOK

(* What fits a bound fits a larger one. *)
LEMMA WiderRange == ASSUME NEW n \in Nat, NEW t \in Nat, NEW w \in Nat, NEW v \in Nat,
                           n <= t + w, w <= v
                    PROVE  n \in 0 .. t + v
OBVIOUS

(* Every step keeps the types, the bounds of the counts among them. *)
LEMMA TypeStep == ASSUME IInv, [Next]_vars PROVE TypeOK'
<1> USE Distinct DEF IInv, history, Goto, TypeOK, Threads, Mutexes, Take, Give, Free, Broadcast,
      ElfPc, ReindeerPc, SantaPc
<1>1. CASE LockSleep("sleep")
  BY <1>1 DEF LockSleep
<1>2. CASE LookForElves
  BY <1>2 DEF LookForElves
<1>3. CASE LookForReindeer
  BY <1>3 DEF LookForReindeer
<1>4. CASE LockSleep("sleeping")
  BY <1>4 DEF LockSleep
<1>5. CASE CheckReindeer
  BY <1>5 DEF CheckReindeer
<1>6. CASE DeliverPresents
  BY <1>6, Numbers DEF DeliverPresents, StopsInTime
<1>7. CASE LockSleepToHelp
  BY <1>7 DEF LockSleepToHelp
<1>8. CASE CheckElves
  BY <1>8 DEF CheckElves
<1>9. CASE StartSolving
  BY <1>9 DEF StartSolving
<1>10. CASE FinishSolving
  BY <1>10, Numbers DEF FinishSolving, StopsInTime
<1>11. ASSUME NEW e \in Elves, LookAtGroup(e, "work")
      PROVE  TypeOK'
  BY <1>11 DEF LookAtGroup
<1>12. ASSUME NEW e \in Elves, Queue(e)
      PROVE  TypeOK'
  BY <1>12 DEF Queue
<1>13. ASSUME NEW e \in Elves, LookAtGroup(e, "queued")
      PROVE  TypeOK'
  BY <1>13 DEF LookAtGroup
<1>14. ASSUME NEW e \in Elves, ReportProblem(e)
      PROVE  TypeOK'
  BY <1>14, Numbers DEF ReportProblem, StopsInTime
<1>15. ASSUME NEW e \in Elves, ElfWakesSanta(e)
      PROVE  TypeOK'
  BY <1>15 DEF ElfWakesSanta
<1>16. ASSUME NEW e \in Elves, WaitUntilSantaStartsSolvingProblem(e)
      PROVE  TypeOK'
  BY <1>16 DEF WaitUntilSantaStartsSolvingProblem
<1>17. ASSUME NEW r \in Reindeer, ReturnToTheNorthPole(r)
      PROVE  TypeOK'
  BY <1>17, Numbers, OneIsAway DEF ReturnToTheNorthPole
<1>18. ASSUME NEW r \in Reindeer, ReindeerWakesSanta(r)
      PROVE  TypeOK'
  BY <1>18 DEF ReindeerWakesSanta
<1>19. ASSUME NEW r \in Reindeer, DeliverPresentsWithSanta(r)
      PROVE  TypeOK'
  BY <1>19 DEF DeliverPresentsWithSanta
<1>20. ASSUME NEW t \in Threads, WakeSpuriously(t)
      PROVE  TypeOK'
  <2>1. pc[t] = "helped" => t \in Elves
    BY <1>20
  <2>2. wakeups' \in 0 .. MaxWakeups /\ wakeups <= wakeups' /\ wakeups \in Nat
    BY <1>20, Numbers DEF WakeSpuriously
  <2>3. reindeer_count' \in 0 .. TotalReindeer + wakeups'
    <3>1. /\ reindeer_count' = reindeer_count
          /\ reindeer_count \in Nat /\ reindeer_count <= TotalReindeer + wakeups
      BY <1>20, <2>2, Numbers DEF WakeSpuriously
    <3>2. wakeups' \in Nat
      BY <2>2, Numbers
    <3>3. wakeups \in Nat /\ wakeups <= wakeups'
      BY <2>2
    <3> QED
      BY <3>1, <3>2, <3>3, Numbers, WiderRange
  <2> QED
    BY <1>20, <2>1, <2>2, <2>3 DEF WakeSpuriously
<1>21. CASE UNCHANGED vars
  BY <1>21 DEF vars
<1> QED
  BY <1>1, <1>2, <1>3, <1>4, <1>5, <1>6, <1>7, <1>8, <1>9, <1>10, <1>11, <1>12,
     <1>13, <1>14, <1>15, <1>16, <1>17, <1>18, <1>19, <1>20, <1>21
     DEF Next, SantaThread, SantaSleep, Elf, WaitUntilCanReportProblem, ReindeerThread

(* A mutex that is held from one step to the next is given by its holder only. *)
LEMMA HoldersStep == ASSUME IInv, [Next]_vars PROVE Holders'
<1> USE Distinct DEF IInv, history, Goto, TypeOK, Holders, Mutexes, Take, Give, Free, ElfPc,
      ReindeerPc, SantaPc
<1>1. CASE LockSleep("sleep")
  BY <1>1 DEF LockSleep
<1>2. CASE LookForElves
  BY <1>2 DEF LookForElves
<1>3. CASE LookForReindeer
  BY <1>3 DEF LookForReindeer
<1>4. CASE LockSleep("sleeping")
  BY <1>4 DEF LockSleep
<1>5. CASE CheckReindeer
  BY <1>5 DEF CheckReindeer
<1>6. CASE DeliverPresents
  BY <1>6 DEF DeliverPresents
<1>7. CASE LockSleepToHelp
  BY <1>7 DEF LockSleepToHelp
<1>8. CASE CheckElves
  BY <1>8 DEF CheckElves
<1>9. CASE StartSolving
  BY <1>9 DEF StartSolving
<1>10. CASE FinishSolving
  BY <1>10 DEF FinishSolving
<1>11. ASSUME NEW e \in Elves, LookAtGroup(e, "work")
      PROVE  Holders'
  BY <1>11 DEF LookAtGroup
<1>12. ASSUME NEW e \in Elves, Queue(e)
      PROVE  Holders'
  BY <1>12 DEF Queue
<1>13. ASSUME NEW e \in Elves, LookAtGroup(e, "queued")
      PROVE  Holders'
  BY <1>13 DEF LookAtGroup
<1>14. ASSUME NEW e \in Elves, ReportProblem(e)
      PROVE  Holders'
  BY <1>14 DEF ReportProblem
<1>15. ASSUME NEW e \in Elves, ElfWakesSanta(e)
      PROVE  Holders'
  BY <1>15 DEF ElfWakesSanta
<1>16. ASSUME NEW e \in Elves, WaitUntilSantaStartsSolvingProblem(e)
      PROVE  Holders'
  BY <1>16 DEF WaitUntilSantaStartsSolvingProblem
<1>17. ASSUME NEW r \in Reindeer, ReturnToTheNorthPole(r)
      PROVE  Holders'
  BY <1>17 DEF ReturnToTheNorthPole
<1>18. ASSUME NEW r \in Reindeer, ReindeerWakesSanta(r)
      PROVE  Holders'
  BY <1>18 DEF ReindeerWakesSanta
<1>19. ASSUME NEW r \in Reindeer, DeliverPresentsWithSanta(r)
      PROVE  Holders'
  BY <1>19 DEF DeliverPresentsWithSanta
<1>20. ASSUME NEW t \in Threads, WakeSpuriously(t)
      PROVE  Holders'
  BY <1>20 DEF WakeSpuriously
<1>21. CASE UNCHANGED vars
  BY <1>21 DEF vars
<1> QED
  BY <1>1, <1>2, <1>3, <1>4, <1>5, <1>6, <1>7, <1>8, <1>9, <1>10, <1>11, <1>12,
     <1>13, <1>14, <1>15, <1>16, <1>17, <1>18, <1>19, <1>20, <1>21
     DEF Next, SantaThread, SantaSleep, Elf, WaitUntilCanReportProblem, ReindeerThread

(* The last delivery is the last step of the process. *)
LEMMA StopsStep == ASSUME IInv, [Next]_vars PROVE StopsInTime'
<1> USE Distinct DEF IInv, history, Goto, TypeOK, StopsInTime
<1>1. CASE LockSleep("sleep")
  BY <1>1 DEF LockSleep
<1>2. CASE LookForElves
  BY <1>2 DEF LookForElves
<1>3. CASE LookForReindeer
  BY <1>3 DEF LookForReindeer
<1>4. CASE LockSleep("sleeping")
  BY <1>4 DEF LockSleep
<1>5. CASE CheckReindeer
  BY <1>5 DEF CheckReindeer
<1>6. CASE DeliverPresents
  BY <1>6, Numbers DEF DeliverPresents, StopsInTime, TypeOK
<1>7. CASE LockSleepToHelp
  BY <1>7 DEF LockSleepToHelp
<1>8. CASE CheckElves
  BY <1>8 DEF CheckElves
<1>9. CASE StartSolving
  BY <1>9 DEF StartSolving
<1>10. CASE FinishSolving
  BY <1>10 DEF FinishSolving
<1>11. ASSUME NEW e \in Elves, LookAtGroup(e, "work")
      PROVE  StopsInTime'
  BY <1>11 DEF LookAtGroup
<1>12. ASSUME NEW e \in Elves, Queue(e)
      PROVE  StopsInTime'
  BY <1>12 DEF Queue
<1>13. ASSUME NEW e \in Elves, LookAtGroup(e, "queued")
      PROVE  StopsInTime'
  BY <1>13 DEF LookAtGroup
<1>14. ASSUME NEW e \in Elves, ReportProblem(e)
      PROVE  StopsInTime'
  BY <1>14 DEF ReportProblem
<1>15. ASSUME NEW e \in Elves, ElfWakesSanta(e)
      PROVE  StopsInTime'
  BY <1>15 DEF ElfWakesSanta
<1>16. ASSUME NEW e \in Elves, WaitUntilSantaStartsSolvingProblem(e)
      PROVE  StopsInTime'
  BY <1>16 DEF WaitUntilSantaStartsSolvingProblem
<1>17. ASSUME NEW r \in Reindeer, ReturnToTheNorthPole(r)
      PROVE  StopsInTime'
  BY <1>17 DEF ReturnToTheNorthPole
<1>18. ASSUME NEW r \in Reindeer, ReindeerWakesSanta(r)
      PROVE  StopsInTime'
  BY <1>18 DEF ReindeerWakesSanta
<1>19. ASSUME NEW r \in Reindeer, DeliverPresentsWithSanta(r)
      PROVE  StopsInTime'
  BY <1>19 DEF DeliverPresentsWithSanta
<1>20. ASSUME NEW t \in Threads, WakeSpuriously(t)
      PROVE  StopsInTime'
  BY <1>20 DEF WakeSpuriously
<1>21. CASE UNCHANGED vars
  BY <1>21 DEF vars
<1> QED
  BY <1>1, <1>2, <1>3, <1>4, <1>5, <1>6, <1>7, <1>8, <1>9, <1>10, <1>11, <1>12,
     <1>13, <1>14, <1>15, <1>16, <1>17, <1>18, <1>19, <1>20, <1>21
     DEF Next, SantaThread, SantaSleep, Elf, WaitUntilCanReportProblem, ReindeerThread

(* An elf joins the group once, and only Santa wakes the ones in it. *)
LEMMA GroupStep == ASSUME IInv, [Next]_vars PROVE GroupWaits'
<1> USE Distinct DEF IInv, history, Goto, TypeOK, Holders, GroupWaits, Group, Take, Give, Free,
      Broadcast
<1>1. CASE LockSleep("sleep")
  BY <1>1 DEF LockSleep
<1>2. CASE LookForElves
  BY <1>2 DEF LookForElves
<1>3. CASE LookForReindeer
  BY <1>3 DEF LookForReindeer
<1>4. CASE LockSleep("sleeping")
  BY <1>4 DEF LockSleep
<1>5. CASE CheckReindeer
  BY <1>5 DEF CheckReindeer
<1>6. CASE DeliverPresents
  BY <1>6 DEF DeliverPresents
<1>7. CASE LockSleepToHelp
  BY <1>7 DEF LockSleepToHelp
<1>8. CASE CheckElves
  BY <1>8 DEF CheckElves
<1>9. CASE StartSolving
  BY <1>9 DEF StartSolving
<1>10. CASE FinishSolving
  BY <1>10 DEF FinishSolving
<1>11. ASSUME NEW e \in Elves, LookAtGroup(e, "work")
      PROVE  GroupWaits'
  BY <1>11 DEF LookAtGroup
<1>12. ASSUME NEW e \in Elves, Queue(e)
      PROVE  GroupWaits'
  BY <1>12 DEF Queue
<1>13. ASSUME NEW e \in Elves, LookAtGroup(e, "queued")
      PROVE  GroupWaits'
  BY <1>13 DEF LookAtGroup
<1>14. ASSUME NEW e \in Elves, ReportProblem(e)
      PROVE  GroupWaits'
  <2>1. pc[Santa] # "solving" /\ pc'[Santa] # "solving"
    BY <1>14 DEF ReportProblem, Holders, Free, TypeOK
  <2>2. \A i \in Group : elves_ids[i] = e => e \in woken
    BY <1>14, <2>1 DEF ReportProblem, GroupWaits
  <2>3. \A x \in Elves : x # e => pc'[x] = pc[x]
    BY <1>14 DEF ReportProblem, TypeOK
  <2>4. CASE elves_count = MaxElves
    BY <1>14, <2>1, <2>2, <2>3, <2>4, Numbers DEF ReportProblem, GroupWaits, Group
  <2>5. CASE elves_count # MaxElves
    <3>1. elves_count \in 0 .. MaxElves - 1 /\ elves_count < MaxElves
      BY <2>5, Numbers DEF TypeOK
    <3>2. /\ elves_count' = elves_count + 1 /\ UNCHANGED <<asleep, woken>>
          /\ elves_ids' = [elves_ids EXCEPT ![elves_count] = e]
          /\ pc'[e] \in {"wake_santa", "reported"}
      BY <1>14, <3>1 DEF ReportProblem, TypeOK
    <3>3. Group' = Group \cup {elves_count} /\ elves_count \notin Group
      BY <3>1, <3>2, Numbers DEF Group
    <3>4. elves_ids'[elves_count] = e /\ \A i \in Group : elves_ids'[i] = elves_ids[i]
      BY <3>1, <3>2, <3>3 DEF TypeOK, Group
    <3> QED
      BY <2>1, <2>2, <2>3, <3>2, <3>3, <3>4 DEF GroupWaits
  <2> QED
    BY <2>4, <2>5
<1>15. ASSUME NEW e \in Elves, ElfWakesSanta(e)
      PROVE  GroupWaits'
  BY <1>15 DEF ElfWakesSanta
<1>16. ASSUME NEW e \in Elves, WaitUntilSantaStartsSolvingProblem(e)
      PROVE  GroupWaits'
  BY <1>16 DEF WaitUntilSantaStartsSolvingProblem
<1>17. ASSUME NEW r \in Reindeer, ReturnToTheNorthPole(r)
      PROVE  GroupWaits'
  BY <1>17 DEF ReturnToTheNorthPole
<1>18. ASSUME NEW r \in Reindeer, ReindeerWakesSanta(r)
      PROVE  GroupWaits'
  BY <1>18 DEF ReindeerWakesSanta
<1>19. ASSUME NEW r \in Reindeer, DeliverPresentsWithSanta(r)
      PROVE  GroupWaits'
  BY <1>19 DEF DeliverPresentsWithSanta
<1>20. ASSUME NEW t \in Threads, WakeSpuriously(t)
      PROVE  GroupWaits'
  BY <1>20 DEF WakeSpuriously
<1>21. CASE UNCHANGED vars
  BY <1>21 DEF vars
<1> QED
  BY <1>1, <1>2, <1>3, <1>4, <1>5, <1>6, <1>7, <1>8, <1>9, <1>10, <1>11, <1>12,
     <1>13, <1>14, <1>15, <1>16, <1>17, <1>18, <1>19, <1>20, <1>21
     DEF Next, SantaThread, SantaSleep, Elf, WaitUntilCanReportProblem, ReindeerThread

(* A group that Santa has seen incomplete is completed by one who then waits for
   the mutex that Santa holds until he sleeps. *)
LEMMA CallStep == ASSUME IInv, [Next]_vars PROVE CallIsHeard'
<1> USE Distinct DEF IInv, history, Goto, TypeOK, Holders, CallIsHeard, Take, Give, Free, Broadcast
<1>1. CASE LockSleep("sleep")
  BY <1>1 DEF LockSleep
<1>2. CASE LookForElves
  BY <1>2 DEF LookForElves
<1>3. CASE LookForReindeer
  <2>1. TotalReindeer \in Nat /\ reindeer_count \in Nat /\ UNCHANGED reindeer_count
    BY <1>3, Numbers DEF LookForReindeer
  <2>2. Santa \in asleep' => reindeer_count < TotalReindeer
    BY <1>3 DEF LookForReindeer
  <2> QED
    BY <1>3, <2>1, <2>2 DEF LookForReindeer
<1>4. CASE LockSleep("sleeping")
  BY <1>4 DEF LockSleep
<1>5. CASE CheckReindeer
  BY <1>5 DEF CheckReindeer
<1>6. CASE DeliverPresents
  BY <1>6 DEF DeliverPresents
<1>7. CASE LockSleepToHelp
  BY <1>7 DEF LockSleepToHelp
<1>8. CASE CheckElves
  BY <1>8 DEF CheckElves
<1>9. CASE StartSolving
  BY <1>9 DEF StartSolving
<1>10. CASE FinishSolving
  BY <1>10 DEF FinishSolving
<1>11. ASSUME NEW e \in Elves, LookAtGroup(e, "work")
      PROVE  CallIsHeard'
  BY <1>11 DEF LookAtGroup
<1>12. ASSUME NEW e \in Elves, Queue(e)
      PROVE  CallIsHeard'
  BY <1>12 DEF Queue
<1>13. ASSUME NEW e \in Elves, LookAtGroup(e, "queued")
      PROVE  CallIsHeard'
  BY <1>13 DEF LookAtGroup
<1>14. ASSUME NEW e \in Elves, ReportProblem(e)
      PROVE  CallIsHeard'
  BY <1>14 DEF ReportProblem
<1>15. ASSUME NEW e \in Elves, ElfWakesSanta(e)
      PROVE  CallIsHeard'
  <2>1. pc[Santa] # "look_reindeer" /\ UNCHANGED pc[Santa]
    BY <1>15 DEF ElfWakesSanta, Holders, Free, TypeOK
  <2>2. Santa \notin asleep'
    BY <1>15 DEF ElfWakesSanta, Broadcast, TypeOK, SantaPc
  <2> QED
    BY <2>1, <2>2 DEF CallIsHeard
<1>16. ASSUME NEW e \in Elves, WaitUntilSantaStartsSolvingProblem(e)
      PROVE  CallIsHeard'
  BY <1>16 DEF WaitUntilSantaStartsSolvingProblem
<1>17. ASSUME NEW r \in Reindeer, ReturnToTheNorthPole(r)
      PROVE  CallIsHeard'
  <2>1. /\ TotalReindeer \in Nat /\ reindeer_count \in Nat
        /\ reindeer_count' = reindeer_count + 1 /\ UNCHANGED <<asleep, elves_count>>
        /\ pc'[Santa] = pc[Santa] /\ \A e \in Elves : pc'[e] = pc[e]
    BY <1>17, Numbers DEF ReturnToTheNorthPole
  <2>2. \A s \in Reindeer : pc[s] # "wake_santa"
    BY <1>17 DEF ReturnToTheNorthPole
  <2>3. Santa \in asleep => reindeer_count < TotalReindeer
    BY <2>1, <2>2
  <2>4. reindeer_count + 1 = TotalReindeer => pc'[r] = "wake_santa"
    BY <1>17 DEF ReturnToTheNorthPole
  <2>5. Santa \in asleep' /\ reindeer_count' >= TotalReindeer => pc'[r] = "wake_santa"
    BY <2>1, <2>3, <2>4
  <2> QED
    BY <2>1, <2>5
<1>18. ASSUME NEW r \in Reindeer, ReindeerWakesSanta(r)
      PROVE  CallIsHeard'
  <2>1. pc[Santa] # "look_reindeer" /\ UNCHANGED pc[Santa]
    BY <1>18 DEF ReindeerWakesSanta, Holders, Free, TypeOK
  <2>2. Santa \notin asleep'
    BY <1>18 DEF ReindeerWakesSanta, Broadcast, TypeOK, SantaPc
  <2> QED
    BY <2>1, <2>2 DEF CallIsHeard
<1>19. ASSUME NEW r \in Reindeer, DeliverPresentsWithSanta(r)
      PROVE  CallIsHeard'
  BY <1>19 DEF DeliverPresentsWithSanta
<1>20. ASSUME NEW t \in Threads, WakeSpuriously(t)
      PROVE  CallIsHeard'
  BY <1>20 DEF WakeSpuriously
<1>21. CASE UNCHANGED vars
  BY <1>21 DEF vars
<1> QED
  BY <1>1, <1>2, <1>3, <1>4, <1>5, <1>6, <1>7, <1>8, <1>9, <1>10, <1>11, <1>12,
     <1>13, <1>14, <1>15, <1>16, <1>17, <1>18, <1>19, <1>20, <1>21
     DEF Next, SantaThread, SantaSleep, Elf, WaitUntilCanReportProblem, ReindeerThread

(* The reindeer that may be counted stay so until Santa has delivered. *)
LEMMA ReindeerStep == ASSUME IInv, [Next]_vars PROVE ReindeerAreCounted'
<1> USE Distinct, Numbers DEF IInv, history, Goto
<1>1. \A S \in SUBSET Reindeer : IsFiniteSet(S) /\ Cardinality(S) \in Nat
  BY ThreadsAreFinite, FS_Subset, FS_CardinalityType
<1>2. IsFiniteSet(Waiting') /\ Cardinality(Waiting) \in Nat /\ Cardinality(Waiting') \in Nat
  BY <1>1 DEF Waiting
<1>3. reindeer_count \in Nat /\ wakeups \in Nat
  BY DEF TypeOK
<1>4. ASSUME Waiting \subseteq Waiting', UNCHANGED <<reindeer_count, wakeups>>,
             pc'[Santa] = "deliver" => pc[Santa] = "deliver" \/ reindeer_count >= TotalReindeer
      PROVE  ReindeerAreCounted'
  <2>1. Cardinality(Waiting) <= Cardinality(Waiting')
    BY <1>2, <1>4, FS_Subset
  <2> QED
    BY <1>2, <1>3, <1>4, <2>1 DEF ReindeerAreCounted
<1>5. CASE SantaThread /\ ~ DeliverPresents
  <2>1. Waiting \subseteq Waiting'
    BY <1>5 DEF SantaThread, SantaSleep, LockSleep, LookForElves, LookForReindeer, CheckReindeer,
       LockSleepToHelp, CheckElves, StartSolving, FinishSolving, Waiting, TypeOK, Broadcast
  <2>2. /\ UNCHANGED <<reindeer_count, wakeups>>
        /\ pc'[Santa] = "deliver" => reindeer_count >= TotalReindeer
    BY <1>5 DEF SantaThread, SantaSleep, LockSleep, LookForElves, LookForReindeer, CheckReindeer,
       LockSleepToHelp, CheckElves, StartSolving, FinishSolving, TypeOK
  <2> QED
    BY <1>4, <2>1, <2>2
<1>6. CASE DeliverPresents
  BY <1>2, <1>6 DEF DeliverPresents, ReindeerAreCounted, TypeOK
<1>7. ASSUME NEW e \in Elves, Elf(e)
      PROVE  ReindeerAreCounted'
  <2>1. Waiting \subseteq Waiting' /\ UNCHANGED <<reindeer_count, wakeups, pc[Santa]>>
    BY <1>7 DEF Elf, WaitUntilCanReportProblem, LookAtGroup, Queue, ReportProblem, ElfWakesSanta,
       WaitUntilSantaStartsSolvingProblem, Waiting, TypeOK, Broadcast
  <2> QED
    BY <1>4, <2>1
<1>8. ASSUME NEW r \in Reindeer, ReturnToTheNorthPole(r)
      PROVE  ReindeerAreCounted'
  <2>1. /\ pc[r] = "rest" /\ reindeer_count' = reindeer_count + 1 /\ UNCHANGED <<asleep, wakeups, pc[Santa]>>
        /\ pc'[r] \in {"wake_santa", "at_pole"} /\ \A s \in Reindeer : s # r => pc'[s] = pc[s]
    BY <1>8 DEF ReturnToTheNorthPole, TypeOK
  <2>2. Waiting' = Waiting \cup {r} /\ r \notin Waiting
    BY <2>1 DEF Waiting
  <2>3. Cardinality(Waiting') = Cardinality(Waiting) + 1
    BY <1>1, <2>2, FS_AddElement DEF Waiting
  <2> QED
    BY <1>2, <1>3, <2>1, <2>3 DEF ReindeerAreCounted
<1>9. ASSUME NEW r \in Reindeer, ReindeerWakesSanta(r) \/ DeliverPresentsWithSanta(r)
      PROVE  ReindeerAreCounted'
  <2>1. Waiting \subseteq Waiting' /\ UNCHANGED <<reindeer_count, wakeups, pc[Santa]>>
    BY <1>9 DEF ReindeerWakesSanta, DeliverPresentsWithSanta, Waiting, TypeOK, Broadcast
  <2> QED
    BY <1>4, <2>1
<1>10. ASSUME NEW s \in Threads, WakeSpuriously(s)
       PROVE  ReindeerAreCounted'
  <2>1. UNCHANGED <<reindeer_count, pc>>
    BY <1>10 DEF WakeSpuriously
  <2>2. CASE s \in Waiting
    <3>1. s \in Reindeer /\ s \in asleep /\ asleep' = asleep \ {s} /\ pc[s] = "delivering"
      BY <1>10, <2>2 DEF WakeSpuriously, Waiting, TypeOK
    <3>2. Waiting' = Waiting \ {s}
      BY <2>1, <3>1 DEF Waiting
    <3>3. Cardinality(Waiting') = Cardinality(Waiting) - 1
      <4>1. IsFiniteSet(Waiting)
        BY <1>1 DEF Waiting
      <4> QED
        BY <2>2, <3>2, <4>1, FS_RemoveElement
    <3>4. wakeups' = wakeups + 1
      BY <1>10, <3>1 DEF WakeSpuriously
    <3> QED
      BY <1>2, <1>3, <2>1, <3>3, <3>4 DEF ReindeerAreCounted
  <2>3. CASE s \notin Waiting
    <3>1. Waiting' = Waiting /\ (wakeups' = wakeups \/ wakeups' = wakeups + 1)
      BY <1>10, <2>1, <2>3 DEF WakeSpuriously, Waiting
    <3> QED
      BY <1>2, <1>3, <2>1, <3>1 DEF ReindeerAreCounted
  <2> QED
    BY <2>2, <2>3
<1>11. CASE UNCHANGED vars
  BY <1>4, <1>11 DEF vars, Waiting
<1> QED
  BY <1>5, <1>6, <1>7, <1>8, <1>9, <1>10, <1>11 DEF Next, ReindeerThread

-----------------------------------------------------------------------------
(* Nobody waits, holds a mutex or is counted at first. *)
LEMMA InitIInv == Init => IInv
<1> USE Distinct, Numbers DEF Init
<1>1. ASSUME Init
      PROVE  TypeOK /\ Group = {}
  BY <1>1 DEF TypeOK, Threads, Mutexes, ElfPc, ReindeerPc, SantaPc, Group
<1>2. ASSUME Init
      PROVE  Holders /\ GroupWaits /\ CallIsHeard /\ StopsInTime
  BY <1>1, <1>2 DEF Holders, GroupWaits, CallIsHeard, StopsInTime
<1>3. ASSUME Init
      PROVE  ReindeerAreCounted
  <2>1. Waiting \in SUBSET Reindeer
    BY DEF Waiting
  <2>2. Cardinality(Waiting) \in Nat
    BY <2>1, ThreadsAreFinite, FS_Subset, FS_CardinalityType
  <2> QED
    BY <1>3, <2>2 DEF ReindeerAreCounted
<1> QED
  BY <1>1, <1>2, <1>3 DEF IInv

(* Every step keeps every part of the inductive invariant. *)
LEMMA NextIInv == IInv /\ [Next]_vars => IInv'
BY TypeStep, HoldersStep, ReindeerStep, GroupStep, CallStep, StopsStep DEF IInv

(* The inductive invariant holds throughout. *)
THEOREM Invariance == Spec => []IInv
BY InitIInv, NextIInv, PTL DEF Spec

(* README.md:48 and elf.c:51: no more than MaxElves elves are counted as waiting, *)
(* in a group of any size, and no more reindeer than there are, but for the ones  *)
(* that woke by themselves.                                                       *)
THEOREM TypeCorrect == Spec => []TypeOK
<1>1. IInv => TypeOK
  BY DEF IInv
<1> QED
  BY <1>1, Invariance, PTL

(* README.md:47: Santa does not sleep on while all reindeer or enough elves wait   *)
(* for him and no one is about to wake him, although santa.c:55 reads their counts *)
(* without the mutexes that guard them.                                            *)
THEOREM CallNeverMissed == Spec => []SantaHearsTheCall
<1>1. IInv => SantaHearsTheCall
  BY DEF IInv, CallIsHeard, SantaHearsTheCall
<1> QED
  BY <1>1, Invariance, PTL

(* README.md:8: a group is made of different elves, and until Santa starts on it  *)
(* each of them still waits for him; the exceptions are the elves whose wait at   *)
(* elf.c:74 ended without his broadcast.                                          *)
THEOREM GroupOfDifferentElves == Spec => []NoElfCountedTwice
<1>1. IInv => NoElfCountedTwice
  BY DEF IInv, GroupWaits, NoElfCountedTwice
<1> QED
  BY <1>1, Invariance, PTL

(* README.md:41: while Santa delivers there are no more reindeer on holiday than *)
(* waits at reindeer.c:60 ended without a broadcast since the last delivery, so  *)
(* none if there were none, even if some missed the broadcast of an earlier one. *)
THEOREM PresentsByAll == Spec => []DeliversWithAll
<1>1. ASSUME IInv
      PROVE  DeliversWithAll
  <2>1. SUFFICES ASSUME pc[Santa] = "deliver"
                 PROVE  Cardinality(OnHoliday) <= wakeups
    BY DEF DeliversWithAll
  <2>2. reindeer_count >= TotalReindeer
    BY <1>1, <2>1 DEF IInv, ReindeerAreCounted
  <2>3. reindeer_count \in Nat /\ wakeups \in Nat
    BY <1>1, Numbers DEF IInv, TypeOK
  <2> QED
    BY <1>1, <2>2, <2>3, SomeAreAway, Numbers
<1> QED
  BY <1>1, Invariance, PTL

(* README.md:10: between Santa's look at the group and the end of his work on it *)
(* no elf joins the group and no other one leaves it.                            *)
THEOREM GroupIsFixed == Spec => GroupStaysAsItIs
<1>1. ASSUME IInv, [Next]_vars,
             pc[Santa] \in {"solve", "solving"}, pc'[Santa] \in {"solve", "solving"}
      PROVE  UNCHANGED <<elves_count, elves_ids>>
  <2> USE Distinct DEF IInv, history, Goto
  <2>1. CASE SantaThread
    BY <1>1, <2>1 DEF SantaThread, SantaSleep, LockSleep, LookForElves, LookForReindeer, CheckReindeer,
       DeliverPresents, LockSleepToHelp, CheckElves, StartSolving, FinishSolving, TypeOK
  <2>2. ASSUME NEW e \in Elves, Elf(e)
        PROVE  UNCHANGED <<elves_count, elves_ids>>
    BY <1>1, <2>2 DEF Elf, WaitUntilCanReportProblem, LookAtGroup, Queue, ReportProblem, ElfWakesSanta,
       WaitUntilSantaStartsSolvingProblem, Holders, Free
  <2>3. ASSUME NEW r \in Reindeer, ReindeerThread(r)
        PROVE  UNCHANGED <<elves_count, elves_ids>>
    BY <2>3 DEF ReindeerThread, ReturnToTheNorthPole, ReindeerWakesSanta, DeliverPresentsWithSanta
  <2>4. ASSUME NEW s \in Threads, WakeSpuriously(s)
        PROVE  UNCHANGED <<elves_count, elves_ids>>
    BY <2>4 DEF WakeSpuriously
  <2> QED
    BY <1>1, <2>1, <2>2, <2>3, <2>4 DEF Next, vars
<1> QED
  BY <1>1, Invariance, PTL DEF Spec, GroupStaysAsItIs
=============================================================================
