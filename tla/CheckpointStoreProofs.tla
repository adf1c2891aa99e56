----------------------- MODULE CheckpointStoreProofs -----------------------
(***************************************************************************)
(* A kill at any moment leaves the tracked checkpoint complete, for every  *)
(* number of roles and versions and every retention limit but one.         *)
(***************************************************************************)
EXTENDS CheckpointStore, FiniteSetTheorems, TLAPS

\* A save is under way.
Saving == pc \in {"begin", "write", "register", "open", "track"}

\* The trainer runs.
Up == pc \notin {"down", "broken"}

\* Part i of the checkpoint being saved is on disk.
Done(i) == i < part \/ (i = part /\ pc \in {"register", "open", "track"})

\* register_checkpoint has run for role r in the save under way.
Registered(r) == Saving /\ \E i \in 1..(part - 1) : SaveOrder[i] = r

\* How far a save is, and what the tracker file says of it.
ControlInv ==
    /\ pc = "register" => part <= Len(Roles)
    /\ pc \in {"open", "track"} => part = Len(Roles) + 1
    /\ Saving => lastCkpt < version
    /\ lastCkpt <= version
    /\ Up => lastCkpt = tracker
    /\ ~Up => lastCkpt = 0 /\ version = 0
    /\ torn => pc \in {"track", "down", "broken"}
    /\ Saving /\ (part > 1 \/ pc # "begin") => version \in folders
    /\ tracker > 0 => tracker \in folders

\* What the manager of role r tracks is older than the tracked checkpoint,
\* except for the newest entry, and for the checkpoint being saved.
PathOK(r) ==
    \A i \in 1..Len(saved[r]) :
        /\ Up
        /\ Registered(r) => /\ saved[r][i] <= version
                            /\ i < Len(saved[r]) => saved[r][i] <= lastCkpt
        /\ ~Registered(r) => /\ saved[r][i] <= lastCkpt
                             /\ i < Len(saved[r]) => saved[r][i] < lastCkpt

\* So it is for every role.
PathsInv == \A r \in RoleSet : PathOK(r)

\* The parts already written belong to the save under way.
WrittenInv ==
    Saving => \A i \in 1..(Len(Roles) + 1) : Done(i) =>
        /\ disk[SaveOrder[i]][version] = "complete"
        /\ content[SaveOrder[i]][version] = updates

\* The inductive invariant.
IInv == TypeOK /\ ControlInv /\ PathsInv /\ WrittenInv /\ TrackedComplete

-----------------------------------------------------------------------------

\* The order of writes: every role once, then data.pt.
LEMMA OrderFacts ==
    /\ Len(Roles) \in Nat \ {0}
    /\ Len(SaveOrder) = Len(Roles) + 1
    /\ \A i \in 1..Len(Roles) : SaveOrder[i] \in RoleSet
    /\ SaveOrder[Len(Roles) + 1] = "data"
    /\ "data" \notin RoleSet
    /\ \A i, j \in 1..(Len(Roles) + 1) : SaveOrder[i] = SaveOrder[j] => i = j
    /\ \A p \in Parts : \E i \in 1..(Len(Roles) + 1) : SaveOrder[i] = p
    /\ \A i \in 1..(Len(Roles) + 1) : SaveOrder[i] \in Parts
<1>1. /\ Roles \in Seq({"actor", "critic"}) /\ Len(Roles) > 0
      /\ \A i, j \in 1..Len(Roles) : Roles[i] = Roles[j] => i = j
  BY CheckpointAssumption
<1>2. /\ Len(Roles) \in Nat \ {0}
      /\ \A i \in 1..Len(Roles) : Roles[i] \in {"actor", "critic"}
  BY <1>1
<1>3. /\ Len(SaveOrder) = Len(Roles) + 1
      /\ \A i \in 1..Len(Roles) : SaveOrder[i] = Roles[i]
      /\ SaveOrder[Len(Roles) + 1] = "data"
  BY <1>1, <1>2 DEF SaveOrder
<1>4. "data" \notin RoleSet
  BY <1>2 DEF RoleSet
<1>5. \A i \in 1..Len(Roles) : SaveOrder[i] \in RoleSet
  BY <1>3 DEF RoleSet
<1>6. \A i, j \in 1..(Len(Roles) + 1) : SaveOrder[i] = SaveOrder[j] => i = j
  BY <1>1, <1>2, <1>3
<1>7. \A p \in Parts : \E i \in 1..(Len(Roles) + 1) : SaveOrder[i] = p
  <2>1. TAKE p \in Parts
  <2>2. CASE p = "data"
    BY <1>2, <1>3, <2>2
  <2>3. CASE p \in RoleSet
    BY <1>2, <1>3, <2>3 DEF RoleSet
  <2>4. QED
    BY <2>2, <2>3 DEF Parts
<1>8. QED
  BY <1>2, <1>3, <1>4, <1>5, <1>6, <1>7 DEF Parts

\* Dropping the first n entries of a list of paths.
LEMMA DropFacts ==
    ASSUME NEW S, NEW s \in Seq(S), NEW n \in 0..Len(s)
    PROVE  /\ SubSeq(s, n + 1, Len(s)) \in Seq(S)
           /\ Len(SubSeq(s, n + 1, Len(s))) = Len(s) - n
           /\ \A i \in 1..(Len(s) - n) :
                SubSeq(s, n + 1, Len(s))[i] = s[i + n]
  OBVIOUS

\* How much rotation deletes, whatever Keep is.
LEMMA ExcessRange ==
    ASSUME TypeOK, NEW r \in RoleSet
    PROVE  /\ ExcessBeforeSave(r) \in 0..Len(saved[r])
           /\ ExcessAfterSave(Len(saved[r]) + 1) \in 0..(Len(saved[r]) + 1)
<1>1. Keep \in Nat /\ Len(saved[r]) \in Nat
  BY CheckpointAssumption DEF TypeOK
<1>2. QED
  BY <1>1 DEF ExcessBeforeSave, ExcessAfterSave

\* With Keep other than one, the newest path a manager tracks is deleted
\* neither before a save nor after it.
LEMMA ExcessSparesNewest ==
    ASSUME Keep # 1, TypeOK, NEW r \in RoleSet
    PROVE  /\ ExcessBeforeSave(r) > 0 => ExcessBeforeSave(r) < Len(saved[r])
           /\ ExcessAfterSave(Len(saved[r]) + 1) > 0
                => ExcessAfterSave(Len(saved[r]) + 1) < Len(saved[r])
<1>1. Keep \in Nat /\ Len(saved[r]) \in Nat
  BY CheckpointAssumption DEF TypeOK
<1>2. QED
  BY <1>1 DEF ExcessBeforeSave, ExcessAfterSave

\* The part being saved.
LEMMA CurrentFacts ==
    ASSUME TypeOK
    PROVE  /\ part \in 1..(Len(Roles) + 1)
           /\ Current \in Parts
           /\ Current = "data" <=> part = Len(Roles) + 1
           /\ Current # "data" => Current \in RoleSet
<1>1. part \in 1..(Len(Roles) + 1)
  BY OrderFacts DEF TypeOK
<1>2. QED
  BY <1>1, OrderFacts DEF Current, Parts

-----------------------------------------------------------------------------
(* Types and control *)

\* Deletion keeps the type of the disk.
LEMMA WithoutFirstType ==
    ASSUME TypeOK, NEW r \in RoleSet, NEW paths, NEW n
    PROVE  WithoutFirst(r, paths, n)
             \in [Parts -> [Versions -> {"absent", "partial", "complete"}]]
  BY DEF TypeOK, WithoutFirst, Parts

\* The disk keeps its type.
LEMMA DiskTypes ==
    ASSUME TypeOK, ControlInv, Next
    PROVE  /\ disk' \in [Parts -> [Versions -> {"absent", "partial", "complete"}]]
           /\ content' \in [Parts -> [Versions -> Nat]]
           /\ folders' \in SUBSET Versions
           /\ tracker' \in 0..VersionBound /\ torn' \in BOOLEAN
<1>1. VersionBound \in Nat
  BY CheckpointAssumption
<1>2. Saving => version \in Versions
  BY <1>1 DEF ControlInv, Versions, TypeOK
<1>3. CASE BeginPart
  <2>1. version \in Versions
    BY <1>2, <1>3 DEF BeginPart, Saving
  <2>2. folders' \in SUBSET Versions /\ UNCHANGED <<content, tracker, torn>>
    BY <1>3, <2>1 DEF BeginPart, TypeOK
  <2>3. CASE Current = "data"
    BY <1>3, <2>1, <2>2, <2>3, CurrentFacts DEF BeginPart, TypeOK
  <2>4. CASE Current # "data"
    <3>1. WithoutFirst(Current, saved[Current], ExcessBeforeSave(Current))
            \in [Parts -> [Versions -> {"absent", "partial", "complete"}]]
      BY <2>4, CurrentFacts, WithoutFirstType
    <3>2. QED
      BY <1>3, <2>1, <2>2, <2>4, <3>1, CurrentFacts DEF BeginPart, TypeOK
  <2>5. QED
    BY <2>3, <2>4
<1>4. CASE WritePart
  <2>1. version \in Versions
    BY <1>2, <1>4 DEF WritePart, Saving
  <2>2. QED
    BY <1>4, <2>1, CurrentFacts DEF WritePart, TypeOK
<1>5. CASE Register
  <2>1. UNCHANGED <<content, folders, tracker, torn>>
    BY <1>5 DEF Register
  <2>2. Current \in RoleSet
    BY <1>5, CurrentFacts, OrderFacts DEF Register, ControlInv
  <2>3. disk' \in [Parts -> [Versions -> {"absent", "partial", "complete"}]]
    BY <1>5, <2>2, WithoutFirstType DEF Register
  <2>4. QED
    BY <2>1, <2>3 DEF TypeOK
<1>6. CASE TrackerOpen
  BY <1>6 DEF TrackerOpen, TypeOK
<1>7. CASE TrackerWrite
  BY <1>7 DEF TrackerWrite, TypeOK
<1>8. CASE TrainStep \/ SaveDecision \/ FinalSave \/ Kill \/ Restart
  BY <1>8 DEF TrainStep, SaveDecision, FinalSave, Kill, Restart,
     StartFromScratch, Resume, ResumeFails, diskVars, TypeOK
<1>9. QED
  BY <1>3, <1>4, <1>5, <1>6, <1>7, <1>8 DEF Next, Save

\* The managers' lists of paths keep their type.
LEMMA SavedTypes ==
    ASSUME TypeOK, ControlInv, Next
    PROVE  saved' \in [RoleSet -> Seq(Versions)]
<1>1. saved \in [RoleSet -> Seq(Versions)]
  BY DEF TypeOK
<1>2. VersionBound \in Nat
  BY CheckpointAssumption
<1>3. CASE BeginPart
  <2>1. CASE Current = "data"
    BY <1>1, <1>3, <2>1 DEF BeginPart
  <2>2. CASE Current # "data"
    <3>1. Current \in RoleSet
      BY <2>2, CurrentFacts
    <3>2. SubSeq(saved[Current], ExcessBeforeSave(Current) + 1,
                 Len(saved[Current])) \in Seq(Versions)
      BY <1>1, <3>1, ExcessRange, DropFacts
    <3>3. QED
      BY <1>1, <1>3, <2>2, <3>1, <3>2 DEF BeginPart
  <2>3. QED
    BY <2>1, <2>2
<1>4. CASE Register
  <2> DEFINE paths == Append(saved[Current], version)
             n == ExcessAfterSave(Len(saved[Current]) + 1)
  <2>a. Current \in RoleSet
    BY <1>4, CurrentFacts, OrderFacts DEF Register, ControlInv
  <2>b. version \in Versions
    BY <1>2, <1>4 DEF Register, ControlInv, Saving, TypeOK, Versions
  <2>1. Current \in RoleSet /\ version \in Versions
    BY <2>a, <2>b
  <2>2. paths \in Seq(Versions) /\ Len(paths) = Len(saved[Current]) + 1
    BY <1>1, <2>1
  <2>3. n \in 0..Len(paths)
    BY <2>1, <2>2, ExcessRange
  <2>4. SubSeq(paths, n + 1, Len(paths)) \in Seq(Versions)
    <3> HIDE DEF paths, n
    <3> QED BY <2>2, <2>3, DropFacts
  <2>5. QED
    BY <1>1, <1>4, <2>1, <2>4 DEF Register
<1>5. CASE Kill
  BY <1>5 DEF Kill
<1>6. CASE UNCHANGED saved
  BY <1>1, <1>6
<1>7. QED
  BY <1>3, <1>4, <1>5, <1>6 DEF Next, Save, TrainStep, SaveDecision, FinalSave,
     WritePart, TrackerOpen, TrackerWrite, Restart, StartFromScratch, Resume,
     ResumeFails, MemoryKept

\* The trainer's places and counters keep their types.
LEMMA ScalarTypes ==
    ASSUME TypeOK, ControlInv, Next
    PROVE  /\ pc' \in {"train", "decide", "begin", "write", "register", "open",
                       "track", "ended", "down", "broken"}
           /\ part' \in 1..Len(SaveOrder)
           /\ version' \in 0..VersionBound /\ localStep' \in 1..TriggerSyncStep
           /\ updates' \in Nat /\ lastCkpt' \in 0..VersionBound
           /\ crashes' \in 0..CrashBound
<1>1. /\ TriggerSyncStep \in Nat \ {0} /\ VersionBound \in Nat \ {0}
      /\ CrashBound \in Nat
  BY CheckpointAssumption
<1>2. /\ part \in 1..Len(SaveOrder) /\ version \in 0..VersionBound
      /\ localStep \in 1..TriggerSyncStep /\ updates \in Nat
      /\ lastCkpt \in 0..VersionBound /\ crashes \in 0..CrashBound
      /\ tracker \in 0..VersionBound
      /\ pc \in {"train", "decide", "begin", "write", "register", "open",
                 "track", "ended", "down", "broken"}
  BY DEF TypeOK
<1>3. Len(SaveOrder) = Len(Roles) + 1 /\ Len(Roles) \in Nat
  BY OrderFacts
<1>4. CASE TrainStep
  BY <1>1, <1>2, <1>4 DEF TrainStep, MoreLocalSteps
<1>5. CASE SaveDecision \/ FinalSave
  BY <1>1, <1>2, <1>3, <1>5 DEF SaveDecision, FinalSave, MemoryKept, modelVars
<1>6. CASE BeginPart \/ WritePart \/ TrackerOpen \/ TrackerWrite
  BY <1>1, <1>2, <1>6 DEF BeginPart, WritePart, TrackerOpen, TrackerWrite,
     MemoryKept, modelVars
<1>7. CASE Register
  BY <1>1, <1>2, <1>3, <1>7 DEF Register, modelVars, ControlInv
<1>8. CASE Kill
  BY <1>1, <1>2, <1>3, <1>8 DEF Kill
<1>9. CASE StartFromScratch \/ ResumeFails
  BY <1>2, <1>9 DEF StartFromScratch, ResumeFails, MemoryKept, modelVars
<1>10. CASE Resume
  <2>1. tracker \in Versions /\ Roles[1] \in Parts
    BY <1>2, <1>10, OrderFacts DEF Resume, LatestFound, TypeOK, RoleSet, Parts
  <2>2. content[Roles[1]][tracker] \in Nat
    BY <2>1 DEF TypeOK
  <2>3. QED
    BY <1>1, <1>2, <1>10, <2>2 DEF Resume, LastCkptLoaded
<1>11. QED
  BY <1>4, <1>5, <1>6, <1>7, <1>8, <1>9, <1>10 DEF Next, Save, Restart

\* `ending' is a flag.
LEMMA EndingType == TypeOK /\ Next => ending' \in BOOLEAN
  BY Zenon DEF TypeOK, Next, Save, Restart, TrainStep, SaveDecision, FinalSave,
     BeginPart, WritePart, Register, TrackerOpen, TrackerWrite, Kill,
     StartFromScratch, Resume, ResumeFails, MemoryKept

\* Every step keeps the relation between the trainer's place, its counters and
\* the tracker file.
LEMMA ControlStep ==
    ASSUME TypeOK, ControlInv, Next
    PROVE  ControlInv'
<1>1. /\ part \in 1..(Len(Roles) + 1) /\ Len(Roles) \in Nat \ {0}
      /\ version \in Nat /\ lastCkpt \in Nat /\ tracker \in Nat
      /\ torn \in BOOLEAN
  BY CurrentFacts, OrderFacts, CheckpointAssumption DEF TypeOK
<1>2. CASE TrainStep
  BY <1>1, <1>2 DEF TrainStep, ControlInv, Saving, Up, diskVars
<1>3. CASE SaveDecision
  BY <1>1, <1>3 DEF SaveDecision, ControlInv, Saving, Up, diskVars, MemoryKept,
     modelVars, SaveAllowed
<1>4. CASE FinalSave
  BY <1>1, <1>4 DEF FinalSave, ControlInv, Saving, Up, diskVars, modelVars,
     SaveAllowed
<1>5. CASE BeginPart
  BY <1>1, <1>5 DEF BeginPart, ControlInv, Saving, Up, modelVars
<1>6. CASE WritePart
  BY <1>1, <1>6, CurrentFacts DEF WritePart, ControlInv, Saving, Up, MemoryKept,
     modelVars
<1>7. CASE Register
  BY <1>1, <1>7 DEF Register, ControlInv, Saving, Up, modelVars
<1>8. CASE TrackerOpen
  BY <1>1, <1>8 DEF TrackerOpen, ControlInv, Saving, Up, MemoryKept, modelVars
<1>9. CASE TrackerWrite
  BY <1>1, <1>9 DEF TrackerWrite, ControlInv, Saving, Up
<1>10. CASE Kill
  BY <1>1, <1>10 DEF Kill, ControlInv, Saving, Up, diskVars
<1>11. CASE StartFromScratch
  BY <1>1, <1>11 DEF StartFromScratch, LatestFound, ControlInv, Saving, Up,
     diskVars, MemoryKept, modelVars
<1>12. CASE Resume
  BY <1>1, <1>12 DEF Resume, LatestFound, LastCkptLoaded, ControlInv, Saving,
     Up, diskVars
<1>13. CASE ResumeFails
  BY <1>1, <1>13 DEF ResumeFails, ControlInv, Saving, Up, diskVars, MemoryKept,
     modelVars
<1>14. QED
  BY <1>2, <1>3, <1>4, <1>5, <1>6, <1>7, <1>8, <1>9, <1>10, <1>11, <1>12,
     <1>13 DEF Next, Save, Restart

\* A role's state of registration in the steps of a save.
LEMMA RegisteredFacts ==
    ASSUME TypeOK, ControlInv, NEW r \in RoleSet
    PROVE  /\ r = Current => ~Registered(r)
           /\ pc = "track" => Registered(r)
           /\ BeginPart \/ WritePart \/ TrackerOpen
                => (Registered(r)' <=> Registered(r))
           /\ Register => (Registered(r)' <=> Registered(r) \/ r = Current)
           /\ TrainStep \/ SaveDecision \/ FinalSave \/ TrackerWrite \/ Kill
                \/ Restart => ~Registered(r)'
           /\ ~Saving => ~Registered(r)
<1>1. /\ part \in 1..(Len(Roles) + 1) /\ Len(Roles) \in Nat \ {0}
      /\ Current = SaveOrder[part]
  BY CurrentFacts, OrderFacts DEF Current
<1>2. r = Current => ~Registered(r)
  BY <1>1, OrderFacts DEF Registered
<1>3. pc = "track" => Registered(r)
  <2>1. \E i \in 1..(Len(Roles) + 1) : SaveOrder[i] = r
    BY OrderFacts DEF Parts
  <2>2. r # "data"
    BY OrderFacts
  <2>3. QED
    BY <1>1, <2>1, <2>2, OrderFacts DEF Registered, ControlInv, Saving
<1>4. BeginPart \/ WritePart \/ TrackerOpen => (Registered(r)' <=> Registered(r))
  BY DEF BeginPart, WritePart, TrackerOpen, Registered, Saving
<1>5. Register => (Registered(r)' <=> Registered(r) \/ r = Current)
  <2>1. SUFFICES ASSUME Register
                 PROVE  Registered(r)' <=> Registered(r) \/ r = Current
    OBVIOUS
  <2>2. Saving /\ Saving' /\ part' = part + 1
    BY <2>1 DEF Register, Saving
  <2>3. 1..(part' - 1) = 1..(part - 1) \cup {part}
    BY <1>1, <2>2
  <2>4. QED
    BY <1>1, <2>2, <2>3 DEF Registered
<1>6. TrainStep \/ SaveDecision \/ FinalSave \/ TrackerWrite \/ Kill \/ Restart
        => ~Registered(r)'
  BY DEF TrainStep, SaveDecision, FinalSave, TrackerWrite, Kill, Restart,
     StartFromScratch, Resume, ResumeFails, Registered, Saving
<1>7. QED
  BY <1>2, <1>3, <1>4, <1>5, <1>6 DEF Registered

\* Every step keeps the managers' lists older than the tracked checkpoint.
LEMMA PathsStep ==
    ASSUME TypeOK, ControlInv, PathsInv, Next
    PROVE  PathsInv'
<1> SUFFICES ASSUME NEW r \in RoleSet PROVE PathOK(r)'
  BY DEF PathsInv
<1>1. PathOK(r)
  BY DEF PathsInv
<1>2. /\ saved \in [RoleSet -> Seq(Versions)]
      /\ version \in Nat /\ lastCkpt \in Nat
      /\ \A i \in 1..Len(saved[r]) : saved[r][i] \in Nat
      /\ Len(saved[r]) \in Nat
  BY CheckpointAssumption DEF TypeOK, Versions
<1>3. CASE UNCHANGED <<saved, version, lastCkpt>> /\ (Up => Up')
           /\ (Registered(r)' <=> Registered(r))
  BY <1>1, <1>3 DEF PathOK
<1>4. CASE TrainStep
  <2>1. UNCHANGED <<saved, lastCkpt>> /\ Up' /\ ~Saving
    BY <1>4 DEF TrainStep, Up, Saving
  <2>2. ~Registered(r) /\ ~Registered(r)'
    BY <1>4, <2>1, RegisteredFacts
  <2>3. QED
    BY <1>1, <2>1, <2>2 DEF PathOK
<1>5. CASE SaveDecision \/ FinalSave
  <2>1. UNCHANGED <<saved, version, lastCkpt>> /\ Up' /\ ~Saving
    BY <1>5 DEF SaveDecision, FinalSave, MemoryKept, modelVars, Up, Saving
  <2>2. QED
    BY <1>3, <1>5, <2>1, RegisteredFacts
<1>6. CASE WritePart \/ TrackerOpen
  <2>1. UNCHANGED <<saved, version, lastCkpt>> /\ Up'
    BY <1>6 DEF WritePart, TrackerOpen, MemoryKept, modelVars, Up
  <2>2. QED
    BY <1>3, <1>6, <2>1, RegisteredFacts
<1>7. CASE BeginPart
  <2>1. UNCHANGED <<version, lastCkpt>> /\ Up' /\ Up
    BY <1>7 DEF BeginPart, modelVars, Up
  <2>2. CASE r # Current
    <3>1. saved'[r] = saved[r]
      BY <1>2, <1>7, <2>2 DEF BeginPart
    <3>2. QED
      BY <1>1, <1>7, <2>1, <3>1, RegisteredFacts DEF PathOK
  <2>3. CASE r = Current
    <3> DEFINE n == ExcessBeforeSave(r)
    <3>1. n \in 0..Len(saved[r])
      BY ExcessRange
    <3>2. saved'[r] = SubSeq(saved[r], n + 1, Len(saved[r]))
      BY <1>2, <1>7, <2>3, OrderFacts DEF BeginPart
    <3> HIDE DEF n
    <3>3. /\ Len(saved'[r]) = Len(saved[r]) - n
          /\ \A i \in 1..(Len(saved[r]) - n) : saved'[r][i] = saved[r][i + n]
      BY <1>2, <3>1, <3>2, DropFacts
    <3>4. ~Registered(r) /\ ~Registered(r)'
      BY <1>7, <2>3, RegisteredFacts
    <3>5. ASSUME NEW i \in 1..Len(saved'[r])
          PROVE  /\ saved'[r][i] <= lastCkpt'
                 /\ i < Len(saved'[r]) => saved'[r][i] < lastCkpt'
      <4>1. i + n \in 1..Len(saved[r]) /\ saved'[r][i] = saved[r][i + n]
        BY <1>2, <3>1, <3>3
      <4>2. i < Len(saved'[r]) => i + n < Len(saved[r])
        BY <1>2, <3>1, <3>3
      <4>3. QED
        BY <1>1, <2>1, <3>4, <4>1, <4>2 DEF PathOK
    <3>6. QED
      BY <2>1, <3>4, <3>5 DEF PathOK
  <2>4. QED
    BY <2>2, <2>3
<1>8. CASE Register
  <2>1. UNCHANGED <<version, lastCkpt>> /\ Up' /\ Saving
    BY <1>8 DEF Register, modelVars, Up, Saving
  <2>2. CASE r # Current
    <3>1. saved'[r] = saved[r]
      BY <1>2, <1>8, <2>2 DEF Register
    <3>2. QED
      BY <1>1, <1>8, <2>1, <2>2, <3>1, RegisteredFacts DEF PathOK
  <2>3. CASE r = Current
    <3> DEFINE n == ExcessAfterSave(Len(saved[r]) + 1)
               paths == Append(saved[r], version)
    <3>1. /\ paths \in Seq(Nat) /\ Len(paths) = Len(saved[r]) + 1
          /\ \A i \in 1..Len(saved[r]) : paths[i] = saved[r][i]
          /\ paths[Len(saved[r]) + 1] = version
      <4>1. saved[r] \in Seq(Nat)
        BY <1>2 DEF Versions
      <4>2. QED
        BY <1>2, <4>1
    <3>2. n \in 0..Len(paths)
      BY <3>1, ExcessRange
    <3>3. saved'[r] = SubSeq(paths, n + 1, Len(paths))
      BY <1>2, <1>8, <2>3 DEF Register
    <3> HIDE DEF n, paths
    <3>4. /\ Len(saved'[r]) = Len(paths) - n
          /\ \A i \in 1..(Len(paths) - n) : saved'[r][i] = paths[i + n]
      BY <3>1, <3>2, <3>3, DropFacts
    <3>5. ~Registered(r) /\ Registered(r)'
      BY <1>8, <2>3, RegisteredFacts
    <3>6. lastCkpt < version
      BY <2>1 DEF ControlInv
    <3>7. ASSUME NEW i \in 1..Len(saved'[r])
          PROVE  /\ saved'[r][i] <= version'
                 /\ i < Len(saved'[r]) => saved'[r][i] <= lastCkpt'
      <4>1. i + n \in 1..Len(paths) /\ saved'[r][i] = paths[i + n]
        BY <3>1, <3>2, <3>4
      <4>2. CASE i + n = Len(paths)
        BY <1>2, <2>1, <3>1, <3>2, <3>4, <4>1, <4>2
      <4>3. CASE i + n # Len(paths)
        <5>1. i + n \in 1..Len(saved[r]) /\ saved'[r][i] = saved[r][i + n]
          BY <1>2, <3>1, <3>2, <4>1, <4>3
        <5>2. saved[r][i + n] <= lastCkpt
          BY <1>1, <3>5, <5>1 DEF PathOK
        <5>3. QED
          BY <1>2, <2>1, <3>6, <5>1, <5>2
      <4>4. QED
        BY <4>2, <4>3
    <3>8. QED
      BY <2>1, <3>5, <3>7 DEF PathOK
  <2>4. QED
    BY <2>2, <2>3
<1>9. CASE TrackerWrite
  <2>1. saved' = saved /\ lastCkpt' = version /\ Up' /\ lastCkpt < version
        /\ pc = "track"
    BY <1>9 DEF TrackerWrite, Up, ControlInv, Saving
  <2>2. Registered(r) /\ ~Registered(r)'
    BY <1>9, <2>1, RegisteredFacts
  <2>3. QED
    BY <1>1, <1>2, <2>1, <2>2 DEF PathOK
<1>10. CASE Kill
  BY <1>10 DEF Kill, PathOK
<1>11. CASE Restart
  <2>1. saved' = saved /\ ~Up
    BY <1>11 DEF Restart, StartFromScratch, Resume, ResumeFails, MemoryKept, Up
  <2>2. Len(saved[r]) = 0
    BY <1>1, <1>2, <2>1 DEF PathOK
  <2>3. QED
    BY <2>1, <2>2 DEF PathOK
<1>12. QED
  BY <1>4, <1>5, <1>6, <1>7, <1>8, <1>9, <1>10, <1>11 DEF Next, Save

\* Rotation deletes only checkpoints older than the tracked one.
LEMMA DeletesOlder ==
    ASSUME Keep # 1, TypeOK, ControlInv, PathsInv, Saving, Current # "data"
    PROVE  /\ \A i \in 1..ExcessBeforeSave(Current) :
                saved[Current][i] < lastCkpt
           /\ \A i \in 1..ExcessAfterSave(Len(saved[Current]) + 1) :
                Append(saved[Current], version)[i] < lastCkpt
<1>1. Current \in RoleSet
  BY CurrentFacts
<1>2. PathOK(Current) /\ ~Registered(Current)
  BY <1>1, RegisteredFacts DEF PathsInv
<1>3. Len(saved[Current]) \in Nat /\ saved[Current] \in Seq(Versions)
  BY <1>1 DEF TypeOK
<1>4. \A i \in 1..(Len(saved[Current]) - 1) : saved[Current][i] < lastCkpt
  BY <1>2, <1>3 DEF PathOK
<1>5. \A i \in 1..ExcessBeforeSave(Current) : saved[Current][i] < lastCkpt
  BY <1>1, <1>3, <1>4, ExcessRange, ExcessSparesNewest
<1>6. ASSUME NEW i \in 1..ExcessAfterSave(Len(saved[Current]) + 1)
      PROVE  Append(saved[Current], version)[i] < lastCkpt
  <2>1. i \in 1..(Len(saved[Current]) - 1)
    BY <1>1, <1>3, ExcessRange, ExcessSparesNewest
  <2>2. Append(saved[Current], version)[i] = saved[Current][i]
    BY <1>3, <2>1
  <2>3. QED
    BY <1>4, <2>1, <2>2
<1>7. QED
  BY <1>5, <1>6

\* What BeginPart and Register leave as it was on disk: everything but the
\* checkpoint being saved and what is older than the tracked one.
LEMMA RotationSpares ==
    ASSUME Keep # 1, TypeOK, ControlInv, PathsInv, BeginPart \/ Register,
           NEW p \in Parts, NEW v \in Versions, v >= lastCkpt,
           BeginPart => p # Current \/ v # version
    PROVE  disk'[p][v] = disk[p][v]
<1>1. disk \in [Parts -> [Versions -> {"absent", "partial", "complete"}]]
      /\ lastCkpt \in Nat /\ v \in Nat
  BY CheckpointAssumption DEF TypeOK, Versions
<1>2. Saving /\ version \in Versions
  BY CheckpointAssumption, SMTT(60) DEF BeginPart, Register, Saving, ControlInv, TypeOK,
     Versions
<1>3. CASE Register
  <2> DEFINE paths == Append(saved[Current], version)
             n == ExcessAfterSave(Len(saved[Current]) + 1)
  <2>1. Current # "data" /\ Current \in Parts
    BY <1>3, CurrentFacts DEF Register, ControlInv
  <2>2. ~ \E i \in 1..n : paths[i] = v
    <3>1. \A i \in 1..n : paths[i] < lastCkpt
      BY <1>2, <2>1, DeletesOlder
    <3>2. SUFFICES ASSUME NEW i \in 1..n, paths[i] = v PROVE FALSE
      OBVIOUS
    <3>3. v < lastCkpt
      BY <3>1, <3>2
    <3>4. QED
      BY <1>1, <3>3
  <2>3. disk' = WithoutFirst(Current, paths, n)
    BY <1>3 DEF Register
  <2> HIDE DEF paths, n
  <2>4. QED
    BY <1>1, <2>1, <2>2, <2>3 DEF WithoutFirst
<1>4. CASE BeginPart /\ Current = "data"
  <2>1. disk' = [disk EXCEPT ![Current][version] = "partial"]
    BY <1>4 DEF BeginPart
  <2>2. QED
    BY <1>1, <1>2, <1>4, <2>1, CurrentFacts
<1>5. CASE BeginPart /\ Current # "data"
  <2> DEFINE n == ExcessBeforeSave(Current)
             rest == WithoutFirst(Current, saved[Current], n)
  <2>1. disk' = [rest EXCEPT ![Current][version] = "partial"]
    BY <1>5 DEF BeginPart
  <2>2. ~ \E i \in 1..n : saved[Current][i] = v
    <3>1. \A i \in 1..n : saved[Current][i] < lastCkpt
      BY <1>2, <1>5, DeletesOlder
    <3>2. SUFFICES ASSUME NEW i \in 1..n, saved[Current][i] = v PROVE FALSE
      OBVIOUS
    <3>3. v < lastCkpt
      BY <3>1, <3>2
    <3>4. QED
      BY <1>1, <3>3
  <2>3. Current \in Parts /\ Current \in RoleSet
    BY <1>5, CurrentFacts
  <2>4. rest[p][v] = disk[p][v]
    <3> HIDE DEF n
    <3> QED BY <1>1, <2>2, <2>3 DEF WithoutFirst
  <2>5. rest \in [Parts -> [Versions -> {"absent", "partial", "complete"}]]
    BY <2>3, WithoutFirstType
  <2> HIDE DEF rest
  <2>6. QED
    BY <1>2, <1>5, <2>1, <2>3, <2>4, <2>5
<1>6. QED
  BY <1>3, <1>4, <1>5

\* The parts written by the save under way stay complete.
LEMMA WrittenStep ==
    ASSUME Keep # 1, TypeOK, ControlInv, PathsInv, WrittenInv, Next
    PROVE  WrittenInv'
<1>1. /\ part \in 1..(Len(Roles) + 1) /\ Len(Roles) \in Nat \ {0}
      /\ version \in Nat /\ lastCkpt \in Nat
  BY CurrentFacts, OrderFacts, CheckpointAssumption DEF TypeOK
<1>2. Saving => version \in Versions
  BY <1>1, CheckpointAssumption DEF ControlInv, Versions, TypeOK
<1>3. CASE TrainStep \/ TrackerWrite \/ Kill \/ Restart
  BY <1>3 DEF TrainStep, TrackerWrite, Kill, Restart, StartFromScratch, Resume,
     ResumeFails, WrittenInv, Saving
<1>4. CASE SaveDecision \/ FinalSave
  BY <1>4 DEF SaveDecision, FinalSave, WrittenInv, Saving, Done
<1>5. CASE TrackerOpen
  BY <1>1, <1>5 DEF TrackerOpen, WrittenInv, Saving, Done, MemoryKept, modelVars
<1>6. CASE WritePart
  <2>1. SUFFICES ASSUME NEW i \in 1..(Len(Roles) + 1), Done(i)'
                 PROVE  /\ disk'[SaveOrder[i]][version'] = "complete"
                        /\ content'[SaveOrder[i]][version'] = updates'
    BY DEF WrittenInv
  <2>2. /\ version' = version /\ updates' = updates /\ part' = part
        /\ version \in Versions /\ Saving
        /\ pc = "write"
    BY <1>2, <1>6 DEF WritePart, MemoryKept, modelVars, Saving
  <2>3. CASE i = part
    BY <1>6, <2>2, <2>3, CurrentFacts DEF WritePart, Current, TypeOK
  <2>4. CASE i # part
    <3>1. Done(i)
      BY <1>1, <2>1, <2>2, <2>4 DEF Done
    <3>2. SaveOrder[i] # Current
      BY <1>1, <2>4, OrderFacts DEF Current
    <3>3. SaveOrder[i] \in Parts
      BY OrderFacts
    <3>4. QED
      BY <1>6, <2>2, <3>1, <3>2, <3>3 DEF WritePart, WrittenInv, TypeOK
  <2>5. QED
    BY <2>3, <2>4
<1>7. CASE BeginPart \/ Register
  <2>1. SUFFICES ASSUME NEW i \in 1..(Len(Roles) + 1), Done(i)'
                 PROVE  /\ disk'[SaveOrder[i]][version'] = "complete"
                        /\ content'[SaveOrder[i]][version'] = updates'
    BY DEF WrittenInv
  <2>2. /\ version' = version /\ updates' = updates /\ content' = content
        /\ version \in Versions /\ Saving /\ lastCkpt < version
    BY <1>2, <1>7 DEF BeginPart, Register, modelVars, Saving, ControlInv
  <2>3. Done(i) /\ (BeginPart => i # part)
    BY <1>1, <1>7, <2>1 DEF BeginPart, Register, Done
  <2>4. SaveOrder[i] \in Parts /\ (BeginPart => SaveOrder[i] # Current)
    BY <1>1, <2>3, OrderFacts DEF Current
  <2>5. disk'[SaveOrder[i]][version] = disk[SaveOrder[i]][version]
    BY <1>1, <1>7, <2>2, <2>4, RotationSpares
  <2>6. QED
    BY <2>2, <2>3, <2>5 DEF WrittenInv
<1>8. QED
  BY <1>3, <1>4, <1>5, <1>6, <1>7 DEF Next, Save

\* The tracked checkpoint stays complete.
LEMMA TrackedStep ==
    ASSUME Keep # 1, TypeOK, ControlInv, PathsInv, WrittenInv, TrackedComplete,
           Next
    PROVE  TrackedComplete'
<1>1. SUFFICES ASSUME tracker' > 0, NEW p \in Parts
               PROVE  /\ disk'[p][tracker'] = "complete"
                      /\ content'[p][tracker'] = content'["data"][tracker']
  BY DEF TrackedComplete
<1>2. /\ version \in Nat /\ lastCkpt \in Nat /\ tracker \in 0..VersionBound
      /\ "data" \in Parts /\ VersionBound \in Nat
  BY CheckpointAssumption DEF TypeOK, Parts
<1>3. CASE UNCHANGED <<disk, content, tracker>>
  BY <1>1, <1>3 DEF TrackedComplete
<1>4. CASE BeginPart \/ Register
  <2>1. tracker' = tracker /\ content' = content /\ lastCkpt = tracker
        /\ lastCkpt < version
    BY <1>4 DEF BeginPart, Register, ControlInv, Up, Saving
  <2>2. tracker \in Versions
    BY <1>1, <1>2, <2>1 DEF Versions
  <2>3. disk'[p][tracker] = disk[p][tracker]
    BY <1>2, <1>4, <2>1, <2>2, RotationSpares
  <2>4. QED
    BY <1>1, <2>1, <2>3 DEF TrackedComplete
<1>5. CASE WritePart
  <2>1. tracker' = tracker /\ lastCkpt = tracker /\ lastCkpt < version
    BY <1>5 DEF WritePart, ControlInv, Up, Saving
  <2>2. tracker # version
    BY <1>2, <2>1
  <2>3. \A q \in Parts : /\ disk'[q][tracker] = disk[q][tracker]
                         /\ content'[q][tracker] = content[q][tracker]
    BY <1>5, <2>2, CurrentFacts DEF WritePart, TypeOK
  <2>4. QED
    BY <1>1, <1>2, <2>1, <2>3 DEF TrackedComplete
<1>6. CASE TrackerWrite
  <2>1. tracker' = version /\ disk' = disk /\ content' = content /\ Saving
        /\ pc = "track" /\ part = Len(Roles) + 1
    BY <1>6 DEF TrackerWrite, Saving, ControlInv
  <2>2. \A i \in 1..(Len(Roles) + 1) : Done(i)
    BY <2>1, OrderFacts DEF Done
  <2>3. \A q \in Parts : /\ disk[q][version] = "complete"
                         /\ content[q][version] = updates
    BY <2>1, <2>2, OrderFacts DEF WrittenInv
  <2>4. QED
    BY <1>2, <2>1, <2>3
<1>7. QED
  BY <1>3, <1>4, <1>5, <1>6 DEF Next, Save, TrainStep, SaveDecision, FinalSave,
     TrackerOpen, Kill, Restart, StartFromScratch, Resume, ResumeFails, diskVars

-----------------------------------------------------------------------------

\* The initial state satisfies the invariant.
LEMMA InitIInv == Init => IInv
<1> SUFFICES ASSUME Init PROVE IInv
  OBVIOUS
<1>1. /\ TriggerSyncStep \in Nat \ {0} /\ VersionBound \in Nat
      /\ CrashBound \in Nat /\ Len(SaveOrder) \in Nat \ {0}
  BY CheckpointAssumption, OrderFacts
<1>2. TypeOK
  <2>1. disk \in [Parts -> [Versions -> {"absent", "partial", "complete"}]]
    BY DEF Init
  <2>2. content \in [Parts -> [Versions -> Nat]]
    BY DEF Init
  <2>3. saved \in [RoleSet -> Seq(Versions)]
    BY DEF Init
  <2>4. folders \in SUBSET Versions /\ torn \in BOOLEAN /\ ending \in BOOLEAN
    BY DEF Init
  <2>5. /\ tracker \in 0..VersionBound /\ version \in 0..VersionBound
        /\ lastCkpt \in 0..VersionBound /\ crashes \in 0..CrashBound
        /\ part \in 1..Len(SaveOrder) /\ localStep \in 1..TriggerSyncStep
        /\ updates \in Nat
    BY <1>1 DEF Init
  <2>6. QED
    BY <2>1, <2>2, <2>3, <2>4, <2>5 DEF Init, TypeOK
<1>3. ControlInv /\ WrittenInv /\ TrackedComplete
  BY DEF Init, ControlInv, WrittenInv, TrackedComplete, Saving, Up
<1>4. PathsInv
  BY DEF Init, PathsInv, PathOK
<1>5. QED
  BY <1>2, <1>3, <1>4 DEF IInv

\* Types and control do not depend on the retention limit.
LEMMA TypeControlStep ==
    TypeOK /\ ControlInv /\ [Next]_vars => TypeOK' /\ ControlInv'
<1> SUFFICES ASSUME TypeOK, ControlInv, [Next]_vars
             PROVE  TypeOK' /\ ControlInv'
  OBVIOUS
<1>1. CASE Next
  <2>1. TypeOK'
    BY <1>1, DiskTypes, SavedTypes, ScalarTypes, EndingType DEF TypeOK
  <2>2. QED
    BY <1>1, <2>1, ControlStep
<1>2. CASE UNCHANGED vars
  BY <1>2 DEF vars, diskVars, modelVars, TypeOK, ControlInv, Saving, Up
<1>3. QED
  BY <1>1, <1>2

\* The invariant is inductive when Keep is not one.
LEMMA NextIInv ==
    ASSUME Keep # 1
    PROVE  IInv /\ [Next]_vars => IInv'
<1> SUFFICES ASSUME IInv, [Next]_vars PROVE IInv'
  OBVIOUS
<1>1. TypeOK' /\ ControlInv'
  BY TypeControlStep DEF IInv
<1>2. CASE Next
  BY <1>1, <1>2, PathsStep, WrittenStep, TrackedStep DEF IInv
<1>3. CASE UNCHANGED vars
  BY <1>1, <1>3 DEF vars, diskVars, modelVars, IInv, PathsInv, PathOK,
     Registered, WrittenInv, TrackedComplete, Saving, Up, Done
<1>4. QED
  BY <1>2, <1>3

\* Type correctness of the trainer, the checkpoint managers and the disk, for
\* every configuration.
THEOREM CheckpointTypeCorrect == Spec => []TypeOK
<1>1. Init => TypeOK /\ ControlInv
  BY InitIInv DEF IInv
<1>2. QED
  BY <1>1, TypeControlStep, PTL DEF Spec

\* With any retention limit but one, a kill at any moment of _save_checkpoint,
\* ensure_checkpoint_capacity or register_checkpoint leaves the checkpoint that
\* the tracker file names complete and written by one save.
THEOREM TrackedCheckpointComplete ==
    ASSUME Keep # 1
    PROVE  Spec => []TrackedComplete
<1>1. IInv => TrackedComplete
  BY DEF IInv
<1>2. QED
  BY <1>1, InitIInv, NextIInv, PTL DEF Spec

\* Hence a restart fails only on a torn tracker file.
THEOREM RestartFailsOnlyWhenTorn ==
    ASSUME Keep # 1
    PROVE  Spec => []BrokenOnlyWhenTorn
<1> DEFINE J == IInv /\ BrokenOnlyWhenTorn
<1>1. Init => J
  BY InitIInv DEF Init, BrokenOnlyWhenTorn
<1>2. J /\ [Next]_vars => J'
  <2> SUFFICES ASSUME J, [Next]_vars PROVE J'
    OBVIOUS
  <2>1. IInv'
    BY NextIInv
  <2>2. CASE ResumeFails
    <3>1. LatestFound => Loadable(tracker)
      BY OrderFacts DEF IInv, TrackedComplete, LatestFound, Loadable, Parts
    <3>2. torn'
      BY <2>2, <3>1 DEF ResumeFails, diskVars
    <3>3. QED
      BY <2>1, <3>2 DEF BrokenOnlyWhenTorn
  <2>3. CASE Next /\ ~ResumeFails
    <3>1. pc' # "broken"
      BY <2>3 DEF Next, Save, Restart, TrainStep, SaveDecision, FinalSave,
         BeginPart, WritePart, Register, TrackerOpen, TrackerWrite, Kill,
         StartFromScratch, Resume
    <3>2. QED
      BY <2>1, <3>1 DEF BrokenOnlyWhenTorn
  <2>4. CASE UNCHANGED vars
    BY <2>1, <2>4 DEF vars, diskVars, BrokenOnlyWhenTorn
  <2>5. QED
    BY <2>2, <2>3, <2>4
<1>3. J => BrokenOnlyWhenTorn
  OBVIOUS
<1>4. QED
  BY <1>1, <1>2, <1>3, PTL DEF Spec

-----------------------------------------------------------------------------
(* Progress: the remainder of a version by the saving period *)

\* The remainder of a natural number is a number below the divisor.
LEMMA ModRange ==
    ASSUME NEW v \in Nat, NEW F \in Nat \ {0}
    PROVE  v % F \in 0..(F - 1)
  OBVIOUS

\* A number is a multiple of the divisor plus its remainder.
LEMMA ModSplit ==
    ASSUME NEW v \in Nat, NEW F \in Nat \ {0}
    PROVE  \E q \in Int, r \in 0..(F - 1) : v = F * q + r /\ v % F = r
<1>1. v \div F \in Int /\ v = F * (v \div F) + (v % F)
  OBVIOUS
<1>2. v % F \in 0..(F - 1)
  BY ModRange
<1>3. QED
  BY <1>1, <1>2, Zenon

\* ... in one way only.
LEMMA ModUnique ==
    ASSUME NEW v \in Nat, NEW F \in Nat \ {0}, NEW q \in Int, NEW r \in 0..(F - 1),
           v = F * q + r
    PROVE  v % F = r
<1>1. PICK p \in Int, s \in 0..(F - 1) : v = F * p + s /\ v % F = s
  BY ModSplit
<1>2. F * (q - p) = s - r
  BY <1>1
<1>3. \A d \in Int : (d >= 1 => F * d >= F) /\ (d <= -1 => F * d <= -F)
  OBVIOUS
<1>4. q - p = 0
  BY <1>2, <1>3
<1>5. QED
  BY <1>1, <1>2, <1>4

\* The remainder goes up with the number, or back to zero.
LEMMA ModSucc ==
    ASSUME NEW v \in Nat, NEW F \in Nat \ {0}
    PROVE  (v + 1) % F = IF (v % F) + 1 = F THEN 0 ELSE (v % F) + 1
<1>1. PICK q \in Int, r \in 0..(F - 1) : v = F * q + r /\ v % F = r
  BY ModSplit
<1>2. CASE r + 1 = F
  <2>1. v + 1 = F * (q + 1) + 0 /\ 0 \in 0..(F - 1) /\ q + 1 \in Int /\ v + 1 \in Nat
    BY <1>1, <1>2
  <2>2. (v + 1) % F = 0
    BY <2>1, ModUnique
  <2>3. QED
    BY <1>1, <1>2, <2>2
<1>3. CASE r + 1 # F
  <2>1. v + 1 = F * q + (r + 1) /\ r + 1 \in 0..(F - 1) /\ v + 1 \in Nat
    BY <1>1, <1>3
  <2>2. (v + 1) % F = r + 1
    BY <2>1, ModUnique
  <2>3. QED
    BY <1>1, <1>3, <2>2
<1>4. QED
  BY <1>2, <1>3

\* The tracked version is at most as far behind as the last version that was
\* due for saving, or a full period behind while a save is due.
ProgressInv ==
    Up => \/ version - tracker <= version % SaveFreq
          \/ /\ pc \notin {"train", "ended"} /\ version % SaveFreq = 0
             /\ version - tracker <= SaveFreq

\* Every step keeps the distance.
LEMMA ProgressStep ==
    ASSUME TypeOK, ControlInv, ProgressInv, Next
    PROVE  ProgressInv'
<1>1. /\ SaveFreq \in Nat \ {0} /\ version \in Nat /\ tracker \in Nat
      /\ version % SaveFreq \in 0..(SaveFreq - 1)
      /\ (version + 1) % SaveFreq
           = IF (version % SaveFreq) + 1 = SaveFreq THEN 0
             ELSE (version % SaveFreq) + 1
  <2>1. SaveFreq \in Nat \ {0} /\ version \in Nat /\ tracker \in Nat
    BY CheckpointAssumption DEF TypeOK
  <2>2. QED
    BY <2>1, ModRange, ModSucc
<1>2. CASE TrainStep
  <2>1. version' \in {version, version + 1} /\ tracker' = tracker
    BY <1>2 DEF TrainStep, diskVars
  <2>2. pc = "train" /\ pc' = "decide" /\ Up
    BY <1>2 DEF TrainStep, Up
  <2>3. version - tracker <= version % SaveFreq
    BY <2>2 DEF ProgressInv
  <2>4. CASE version' = version /\ tracker' = tracker
    BY <2>3, <2>4 DEF ProgressInv
  <2>5. CASE version' = version + 1 /\ tracker' = tracker
    BY <1>1, <2>2, <2>3, <2>5 DEF ProgressInv
  <2>6. QED
    BY <2>1, <2>4, <2>5
<1>3. CASE SaveDecision
  <2>1. Up /\ UNCHANGED <<version, tracker>> /\ pc' \in {"begin", "train"}
    BY <1>3 DEF SaveDecision, Up, MemoryKept, modelVars, diskVars
  <2>2. pc' = "train" => version = tracker \/ version % SaveFreq # 0
    BY <1>3, <2>1 DEF SaveDecision, SaveAllowed, SaveDue, ControlInv
  <2>3. QED
    BY <1>1, <2>1, <2>2 DEF ProgressInv
<1>4. CASE FinalSave
  <2>1. UNCHANGED <<version, tracker>> /\ pc = "train" /\ Up
    BY <1>4 DEF FinalSave, modelVars, diskVars, Up
  <2>2. QED
    BY <2>1 DEF ProgressInv
<1>5. CASE BeginPart \/ WritePart \/ Register \/ TrackerOpen
  <2>1. Up /\ UNCHANGED <<version, tracker>> /\ pc' \notin {"train", "ended"}
    BY <1>5 DEF BeginPart, WritePart, Register, TrackerOpen, MemoryKept, modelVars, Up
  <2>2. QED
    BY <2>1 DEF ProgressInv
<1>6. CASE TrackerWrite
  BY <1>1, <1>6 DEF TrackerWrite, ProgressInv
<1>7. CASE Kill \/ ResumeFails
  BY <1>7 DEF Kill, ResumeFails, ProgressInv, Up
<1>8. CASE StartFromScratch
  <2>1. version = 0 /\ tracker = 0 /\ UNCHANGED <<version, tracker>>
    BY <1>1, <1>8 DEF StartFromScratch, LatestFound, ControlInv, Up, MemoryKept,
       modelVars, diskVars
  <2>2. QED
    BY <1>1, <2>1 DEF ProgressInv
<1>9. CASE Resume
  <2>1. version' = tracker /\ tracker' = tracker
    BY <1>9 DEF Resume, diskVars
  <2>2. tracker % SaveFreq \in 0..(SaveFreq - 1)
    BY <1>1, ModRange
  <2>3. QED
    BY <1>1, <2>1, <2>2 DEF ProgressInv
<1>10. QED
  BY <1>2, <1>3, <1>4, <1>5, <1>6, <1>7, <1>8, <1>9 DEF Next, Save, Restart

\* Whatever retention limit, roles and saving period, and however often the
\* instance asks for early saves: a job that is killed, at any moment, has
\* trained at most SaveFreq versions beyond the checkpoint the tracker names.
THEOREM ProgressLostBounded == Spec => []LostProgress
<1> DEFINE J == TypeOK /\ ControlInv /\ ProgressInv
<1>1. Init => J
  <2>1. Init => 0 % SaveFreq \in 0..(SaveFreq - 1)
    BY ModRange, CheckpointAssumption
  <2>2. Init => ProgressInv
    BY <2>1, CheckpointAssumption DEF Init, ProgressInv
  <2>3. QED
    BY <2>2, InitIInv DEF IInv
<1>2. J /\ [Next]_vars => J'
  <2> SUFFICES ASSUME J, [Next]_vars PROVE J'
    OBVIOUS
  <2>1. CASE Next
    BY <2>1, TypeControlStep, ProgressStep
  <2>2. CASE UNCHANGED vars
    <3>1. ProgressInv'
      BY <2>2 DEF vars, diskVars, modelVars, ProgressInv, Up
    <3>2. QED
      BY <3>1, TypeControlStep
  <2>3. QED
    BY <2>1, <2>2
<1>3. J => LostProgress
  <2>1. ASSUME J PROVE LostProgress
    <3>1. SaveFreq \in Nat \ {0} /\ version \in Nat /\ tracker \in Nat
      BY <2>1, CheckpointAssumption DEF TypeOK
    <3>2. version % SaveFreq \in 0..(SaveFreq - 1)
      BY <3>1, ModRange
    <3>3. QED
      BY <2>1, <3>1, <3>2 DEF LostProgress, ProgressInv, Up
  <2>2. QED
    BY <2>1
<1>4. QED
  BY <1>1, <1>2, <1>3, PTL DEF Spec

-----------------------------------------------------------------------------
(* Disk use *)

\* Role r's part of the checkpoint under way has been begun and is not yet
\* registered.
Begun(r) == pc \in {"write", "register"} /\ Current = r

\* The steps in the list of role r.
Tracked(r) == {saved[r][i] : i \in 1..Len(saved[r])}

\* The checkpoints of r this incarnation of the job answers for.
Mine(r) == Tracked(r) \cup (IF Begun(r) THEN {version} ELSE {})

\* A manager's list is in the order of the saves and leaves room for the save
\* that has begun.
ListInv ==
    \A r \in RoleSet :
        /\ \A i, j \in 1..Len(saved[r]) : i < j => saved[r][i] < saved[r][j]
        /\ Len(saved[r]) <= Keep
        /\ Begun(r) => Len(saved[r]) < Keep

\* What earlier incarnations left behind.
LeftBehind == \A r \in RoleSet : Cardinality(Present(r) \ Mine(r)) <= Keep * crashes

\* The inductive invariant for the use of the disk.
DiskIInv == IInv /\ ListInv /\ TrackedPathsOnDisk /\ LeftBehind

\* What ensure_checkpoint_capacity and register_checkpoint leave of a list.
LEMMA RotationLengths ==
    ASSUME Keep > 1, TypeOK, NEW r \in RoleSet, Len(saved[r]) <= Keep
    PROVE  /\ Len(saved[r]) - ExcessBeforeSave(r) < Keep
           /\ Len(saved[r]) < Keep => ExcessAfterSave(Len(saved[r]) + 1) = 0
<1>1. Keep \in Nat /\ Len(saved[r]) \in Nat
  BY CheckpointAssumption DEF TypeOK
<1>2. CASE Len(saved[r]) >= Keep
  <2>1. ExcessBeforeSave(r) = Len(saved[r]) - Keep + 1
    BY <1>1, <1>2 DEF ExcessBeforeSave
  <2>2. QED
    BY <1>1, <1>2, <2>1
<1>3. CASE Len(saved[r]) < Keep
  <2>1. ExcessBeforeSave(r) = 0 /\ ExcessAfterSave(Len(saved[r]) + 1) = 0
    BY <1>1, <1>3 DEF ExcessBeforeSave, ExcessAfterSave
  <2>2. QED
    BY <1>1, <1>3, <2>1
<1>4. QED
  BY <1>1, <1>2, <1>3

\* What a step does to the list of a manager and to its role's checkpoints: a
\* part begins, one is written, one is registered, memory is lost, or nothing.
LEMMA ListChange ==
    ASSUME Keep > 1, IInv, ListInv, Next, NEW r \in RoleSet
    PROVE  \/ /\ \E n \in 0..Len(saved[r]) :
                    /\ Len(saved[r]) - n < Keep
                    /\ saved'[r] = SubSeq(saved[r], n + 1, Len(saved[r]))
                    /\ disk'[r] = [v \in Versions |->
                          IF v = version THEN "partial"
                          ELSE IF \E i \in 1..n : saved[r][i] = v THEN "absent"
                          ELSE disk[r][v]]
              /\ ~Begun(r) /\ Begun(r)'
              /\ version \in Versions /\ version' = version /\ crashes' = crashes
              /\ \A i \in 1..Len(saved[r]) : saved[r][i] < version
           \/ /\ saved'[r] = saved[r] /\ Begun(r) /\ Begun(r)'
              /\ disk'[r] = [disk[r] EXCEPT ![version] = "complete"]
              /\ version \in Versions /\ version' = version /\ crashes' = crashes
           \/ /\ saved'[r] = Append(saved[r], version) /\ disk'[r] = disk[r]
              /\ Begun(r) /\ ~Begun(r)' /\ crashes' = crashes
              /\ version \in Versions /\ disk[r][version] = "complete"
              /\ \A i \in 1..Len(saved[r]) : saved[r][i] < version
           \/ /\ saved'[r] = <<>> /\ ~Begun(r)' /\ disk'[r] = disk[r]
              /\ crashes' = crashes + 1
           \/ /\ saved'[r] = saved[r] /\ ~Begun(r) /\ ~Begun(r)'
              /\ disk'[r] = disk[r] /\ crashes' = crashes
<1>1. /\ saved \in [RoleSet -> Seq(Versions)] /\ Len(saved[r]) \in Nat
      /\ disk \in [Parts -> [Versions -> {"absent", "partial", "complete"}]]
      /\ r \in Parts /\ r # "data" /\ TypeOK /\ ControlInv
  BY OrderFacts DEF IInv, TypeOK, Parts
<1>2. Saving => version \in Versions
  BY CheckpointAssumption DEF IInv, ControlInv, Versions, TypeOK
<1>3. ASSUME Saving, Current = r
      PROVE  \A i \in 1..Len(saved[r]) : saved[r][i] < version
  <2>1. PathOK(r) /\ ~Registered(r) /\ lastCkpt < version
    BY <1>1, <1>3, RegisteredFacts DEF IInv, PathsInv, ControlInv
  <2>2. version \in Nat /\ lastCkpt \in Nat
    BY <1>1, CheckpointAssumption DEF TypeOK
  <2>3. \A i \in 1..Len(saved[r]) : saved[r][i] \in Nat
    BY <1>1, CheckpointAssumption DEF Versions
  <2>4. QED
    BY <2>1, <2>2, <2>3 DEF PathOK
<1>4. CASE BeginPart
  <2>1. Saving /\ pc = "begin" /\ UNCHANGED <<version, crashes, part>> /\ pc' = "write"
    BY <1>4 DEF BeginPart, Saving, modelVars
  <2>2. CASE Current = r
    <3> DEFINE n == ExcessBeforeSave(r)
    <3>1. n \in 0..Len(saved[r]) /\ Len(saved[r]) - n < Keep
      BY <1>1, ExcessRange, RotationLengths DEF ListInv
    <3>2. /\ saved'[r] = SubSeq(saved[r], n + 1, Len(saved[r]))
          /\ disk'[r] = [WithoutFirst(r, saved[r], n)[r] EXCEPT ![version] = "partial"]
      <4>1. WithoutFirst(r, saved[r], n)
              \in [Parts -> [Versions -> {"absent", "partial", "complete"}]]
        BY <1>1, WithoutFirstType
      <4>2. QED
        BY <1>1, <1>4, <2>2, <4>1 DEF BeginPart
    <3>3. WithoutFirst(r, saved[r], n)[r]
            = [v \in Versions |->
                 IF \E i \in 1..n : saved[r][i] = v THEN "absent" ELSE disk[r][v]]
      BY <1>1 DEF WithoutFirst
    <3> HIDE DEF n
    <3>4. disk'[r] = [v \in Versions |->
                          IF v = version THEN "partial"
                          ELSE IF \E i \in 1..n : saved[r][i] = v THEN "absent"
                          ELSE disk[r][v]]
      BY <3>2, <3>3
    <3>5. ~Begun(r) /\ Begun(r)'
      BY <2>1, <2>2 DEF Begun, Current
    <3>6. QED
      BY <1>2, <1>3, <2>1, <2>2, <3>1, <3>2, <3>4, <3>5
  <2>3. CASE Current # r
    <3>1. saved'[r] = saved[r]
      BY <1>1, <1>4, <2>3 DEF BeginPart
    <3>2. disk'[r] = disk[r]
      <4>1. CASE Current = "data"
        BY <1>1, <1>4, <2>3, <4>1 DEF BeginPart
      <4>2. CASE Current # "data"
        <5>1. WithoutFirst(Current, saved[Current], ExcessBeforeSave(Current))
                \in [Parts -> [Versions -> {"absent", "partial", "complete"}]]
          BY <1>1, <4>2, CurrentFacts, WithoutFirstType
        <5>2. WithoutFirst(Current, saved[Current], ExcessBeforeSave(Current))[r] = disk[r]
          BY <1>1, <2>3 DEF WithoutFirst
        <5>3. QED
          BY <1>1, <1>4, <2>3, <4>2, <5>1, <5>2 DEF BeginPart
      <4>3. QED
        BY <4>1, <4>2
    <3>3. ~Begun(r) /\ ~Begun(r)'
      BY <2>1, <2>3 DEF Begun, Current
    <3>4. QED
      BY <2>1, <3>1, <3>2, <3>3
  <2>4. QED
    BY <2>2, <2>3
<1>5. CASE WritePart
  <2>1. /\ Saving /\ pc = "write" /\ UNCHANGED <<version, crashes, saved, part>>
        /\ pc' = IF Current = "data" THEN "open" ELSE "register"
    BY <1>5 DEF WritePart, Saving, modelVars, MemoryKept
  <2>2. CASE Current = r
    <3>1. Begun(r) /\ Begun(r)'
      BY <1>1, <2>1, <2>2 DEF Begun, Current
    <3>2. disk'[r] = [disk[r] EXCEPT ![version] = "complete"]
      BY <1>1, <1>5, <2>2 DEF WritePart
    <3>3. QED
      BY <1>2, <2>1, <3>1, <3>2
  <2>3. CASE Current # r
    <3>1. ~Begun(r) /\ ~Begun(r)'
      BY <2>1, <2>3 DEF Begun, Current
    <3>2. disk'[r] = disk[r]
      BY <1>1, <1>5, <2>3 DEF WritePart
    <3>3. QED
      BY <2>1, <3>1, <3>2
  <2>4. QED
    BY <2>2, <2>3
<1>6. CASE Register
  <2>1. /\ Saving /\ pc = "register" /\ UNCHANGED <<version, crashes>>
        /\ pc' = "begin"
    BY <1>6 DEF Register, Saving, modelVars
  <2>2. CASE Current = r
    <3>1. Begun(r) /\ ~Begun(r)'
      BY <2>1, <2>2 DEF Begun
    <3>2. Len(saved[r]) < Keep /\ ExcessAfterSave(Len(saved[r]) + 1) = 0
      BY <1>1, <3>1, RotationLengths DEF ListInv
    <3>3. version \in Versions
      BY <1>2, <2>1
    <3>4. saved'[r] = Append(saved[r], version)
      <4>1. saved'[r] = SubSeq(Append(saved[r], version), 1, Len(Append(saved[r], version)))
        BY <1>1, <1>6, <2>2, <3>2 DEF Register
      <4>2. Append(saved[r], version) \in Seq(Versions)
        BY <1>1, <3>3
      <4>3. QED
        BY <4>1, <4>2
    <3>5. disk'[r] = disk[r]
      <4>1. disk' = WithoutFirst(r, Append(saved[r], version), 0)
        BY <1>6, <2>2, <3>2 DEF Register
      <4>2. QED
        BY <1>1, <4>1 DEF WithoutFirst
    <3>6. disk[r][version] = "complete"
      <4>1. part \in 1..(Len(Roles) + 1) /\ Done(part) /\ SaveOrder[part] = r
        BY <1>1, <2>1, <2>2, CurrentFacts DEF Done, Current
      <4>2. QED
        BY <2>1, <4>1 DEF IInv, WrittenInv
    <3>7. QED
      BY <1>3, <2>1, <2>2, <3>1, <3>3, <3>4, <3>5, <3>6
  <2>3. CASE Current # r
    <3>1. ~Begun(r) /\ ~Begun(r)'
      BY <2>1, <2>3 DEF Begun
    <3>2. saved'[r] = saved[r]
      BY <1>1, <1>6, <2>3 DEF Register
    <3>3. disk'[r] = disk[r]
      BY <1>1, <1>6, <2>3 DEF Register, WithoutFirst
    <3>4. QED
      BY <2>1, <3>1, <3>2, <3>3
  <2>4. QED
    BY <2>2, <2>3
<1>7. CASE Kill
  BY <1>7 DEF Kill, diskVars, Begun
<1>8. CASE TrainStep \/ SaveDecision \/ FinalSave \/ TrackerOpen \/ TrackerWrite
           \/ Restart
  <2>1. UNCHANGED <<saved, disk, crashes>>
    BY <1>8 DEF TrainStep, SaveDecision, FinalSave, TrackerOpen, TrackerWrite,
       Restart, StartFromScratch, Resume, ResumeFails, diskVars, MemoryKept
  <2>2. ~Begun(r) /\ ~Begun(r)'
    BY <1>8 DEF TrainStep, SaveDecision, FinalSave, TrackerOpen, TrackerWrite,
       Restart, StartFromScratch, Resume, ResumeFails, Begun
  <2>3. QED
    BY <2>1, <2>2
<1>9. QED
  BY <1>4, <1>5, <1>6, <1>7, <1>8 DEF Next, Save

\* The numbers from one to n are n.
LEMMA IntervalSize ==
    ASSUME NEW n \in Nat
    PROVE  IsFiniteSet(1..n) /\ Cardinality(1..n) = n
<1>1. /\ IsFiniteSet(1..n)
      /\ Cardinality(1..n) = IF 1 > n THEN 0 ELSE n - 1 + 1
  BY FS_Interval
<1>2. QED
  BY <1>1

\* One element more is at most one more.
LEMMA AddOne ==
    ASSUME NEW S, NEW x, IsFiniteSet(S)
    PROVE  Cardinality(S \cup {x}) <= Cardinality(S) + 1
<1>1. Cardinality(S) \in Nat
  BY FS_CardinalityType
<1>2. Cardinality(S \cup {x}) = IF x \in S THEN Cardinality(S) ELSE Cardinality(S) + 1
  BY FS_AddElement
<1>3. QED
  BY <1>1, <1>2

\* Two sets together are at most as many as each on its own.
LEMMA UnionBound ==
    ASSUME NEW S, NEW T, IsFiniteSet(S), IsFiniteSet(T), NEW m \in Nat, NEW n \in Nat,
           Cardinality(S) <= m, Cardinality(T) <= n
    PROVE  IsFiniteSet(S \cup T) /\ Cardinality(S \cup T) <= m + n
<1>1. /\ IsFiniteSet(S \cup T)
      /\ Cardinality(S \cup T) = Cardinality(S) + Cardinality(T) - Cardinality(S \cap T)
  BY FS_Union
<1>2. Cardinality(S) \in Nat /\ Cardinality(T) \in Nat /\ Cardinality(S \cap T) \in Nat
  BY FS_Intersection, FS_CardinalityType
<1>3. QED
  BY <1>1, <1>2

\* The sets of versions are finite, and a list tracks no more than its length.
LEMMA FiniteFacts ==
    ASSUME TypeOK, NEW r \in RoleSet
    PROVE  /\ IsFiniteSet(Versions) /\ IsFiniteSet(Present(r))
           /\ IsFiniteSet(Tracked(r)) /\ Cardinality(Tracked(r)) <= Len(saved[r])
           /\ IsFiniteSet(Mine(r))
<1>1. /\ saved[r] \in Seq(Versions) /\ Len(saved[r]) \in Nat
      /\ saved[r] \in [1..Len(saved[r]) -> Versions]
  BY DEF TypeOK
<1>2. IsFiniteSet(Versions)
  BY FS_Interval, CheckpointAssumption DEF Versions
<1>3. IsFiniteSet(Present(r))
  BY <1>2, FS_Subset DEF Present
<1>4. /\ IsFiniteSet(1..Len(saved[r]))
      /\ Cardinality(1..Len(saved[r])) = Len(saved[r])
  BY <1>1, IntervalSize
<1>5. saved[r] \in Surjection(1..Len(saved[r]), Tracked(r))
  BY <1>1 DEF Surjection, Tracked
<1>6. /\ IsFiniteSet(Tracked(r)) /\ Cardinality(Tracked(r)) <= Len(saved[r])
  <2>1. /\ IsFiniteSet(Tracked(r))
        /\ Cardinality(Tracked(r)) <= Cardinality(1..Len(saved[r]))
    BY <1>4, <1>5, FS_Surjection
  <2>2. QED
    BY <1>4, <2>1
<1>7. IsFiniteSet(Mine(r))
  BY <1>6, FS_AddElement DEF Mine
<1>8. QED
  BY <1>2, <1>3, <1>6, <1>7

\* This incarnation answers for at most Keep checkpoints of a role.
LEMMA MineBound ==
    ASSUME Keep > 1, TypeOK, ListInv, NEW r \in RoleSet
    PROVE  Cardinality(Mine(r)) <= Keep
<1>1. Keep \in Nat /\ Len(saved[r]) \in Nat
  BY CheckpointAssumption DEF TypeOK
<1>2. /\ IsFiniteSet(Tracked(r)) /\ Cardinality(Tracked(r)) <= Len(saved[r])
      /\ Cardinality(Tracked(r)) \in Nat
  BY FiniteFacts, FS_CardinalityType
<1>3. CASE Begun(r)
  <2>1. Mine(r) = Tracked(r) \cup {version} /\ Len(saved[r]) < Keep
    BY <1>3 DEF Mine, ListInv
  <2>2. Cardinality(Mine(r)) <= Cardinality(Tracked(r)) + 1
    BY <1>2, <2>1, AddOne
  <2>3. Cardinality(Mine(r)) \in Nat
    BY FiniteFacts, FS_CardinalityType
  <2>4. QED
    BY <1>1, <1>2, <2>1, <2>2, <2>3
<1>4. CASE ~Begun(r)
  <2>1. Mine(r) = Tracked(r) /\ Len(saved[r]) <= Keep
    BY <1>4 DEF Mine, ListInv
  <2>2. QED
    BY <1>1, <1>2, <2>1
<1>5. QED
  BY <1>3, <1>4

\* A set that is no larger than another one has no more elements.
LEMMA FewerElements ==
    ASSUME NEW S, NEW T \in SUBSET S, IsFiniteSet(S), NEW n \in Nat, Cardinality(S) <= n
    PROVE  Cardinality(T) <= n
<1>1. IsFiniteSet(T) /\ Cardinality(T) <= Cardinality(S)
  BY FS_Subset
<1>2. Cardinality(T) \in Nat /\ Cardinality(S) \in Nat
  BY <1>1, FS_CardinalityType
<1>3. QED
  BY <1>1, <1>2

\* Every step keeps the lists in order, their checkpoints on disk, and what is
\* left behind.
LEMMA DiskStep ==
    ASSUME Keep > 1, DiskIInv, IInv', Next
    PROVE  ListInv' /\ TrackedPathsOnDisk' /\ LeftBehind'
<1> SUFFICES ASSUME NEW r \in RoleSet
             PROVE  /\ \A i, j \in 1..Len(saved'[r]) : i < j => saved'[r][i] < saved'[r][j]
                    /\ Len(saved'[r]) <= Keep
                    /\ Begun(r)' => Len(saved'[r]) < Keep
                    /\ \A i \in 1..Len(saved'[r]) : disk'[r][saved'[r][i]] = "complete"
                    /\ Cardinality((Present(r) \ Mine(r))') <= Keep * crashes'
  BY DEF ListInv, TrackedPathsOnDisk, LeftBehind
<1> DEFINE old == saved[r]
           new == saved'[r]
<1>1. /\ TypeOK /\ TypeOK' /\ Keep \in Nat /\ Keep * crashes \in Nat /\ crashes \in Nat
      /\ old \in Seq(Versions) /\ Len(old) \in Nat
      /\ \A i \in 1..Len(old) : old[i] \in Versions /\ old[i] \in Nat
      /\ disk[r] \in [Versions -> {"absent", "partial", "complete"}]
  <2>1. TypeOK /\ TypeOK' /\ Keep \in Nat /\ CrashBound \in Nat
    BY CheckpointAssumption DEF DiskIInv, IInv
  <2>2. crashes \in Nat /\ Keep * crashes \in Nat
    BY <2>1 DEF TypeOK
  <2>3. old \in Seq(Versions) /\ disk[r] \in [Versions -> {"absent", "partial", "complete"}]
    BY <2>1 DEF TypeOK, Parts
  <2>4. QED
    BY <2>1, <2>2, <2>3, CheckpointAssumption DEF Versions
<1>2. /\ \A i, j \in 1..Len(old) : i < j => old[i] < old[j]
      /\ Len(old) <= Keep
      /\ Begun(r) => Len(old) < Keep
      /\ \A i \in 1..Len(old) : disk[r][old[i]] = "complete"
      /\ Cardinality(Present(r) \ Mine(r)) <= Keep * crashes
  BY DEF DiskIInv, ListInv, TrackedPathsOnDisk, LeftBehind
<1>3. IsFiniteSet(Present(r)) /\ IsFiniteSet(Present(r) \ Mine(r)) /\ IsFiniteSet(Mine(r))
  BY <1>1, FiniteFacts, FS_Difference
<1>4. ASSUME (Present(r) \ Mine(r))' \in SUBSET (Present(r) \ Mine(r)), crashes' = crashes
      PROVE  Cardinality((Present(r) \ Mine(r))') <= Keep * crashes'
  BY <1>1, <1>2, <1>3, <1>4, FewerElements
<1>5. ASSUME NEW n \in 0..Len(old), Len(old) - n < Keep,
             saved'[r] = SubSeq(old, n + 1, Len(old)),
             disk'[r] = [v \in Versions |->
                          IF v = version THEN "partial"
                          ELSE IF \E i \in 1..n : old[i] = v THEN "absent"
                          ELSE disk[r][v]],
             ~Begun(r), Begun(r)', version \in Versions, version' = version,
             crashes' = crashes, \A i \in 1..Len(old) : old[i] < version
      PROVE  /\ \A i, j \in 1..Len(new) : i < j => new[i] < new[j]
             /\ Len(new) < Keep
             /\ \A i \in 1..Len(new) : disk'[r][new[i]] = "complete"
             /\ Cardinality((Present(r) \ Mine(r))') <= Keep * crashes'
  <2>1. /\ Len(new) = Len(old) - n
        /\ \A i \in 1..Len(new) : new[i] = old[i + n] /\ i + n \in 1..Len(old)
    BY <1>1, <1>5, DropFacts
  <2>a. n \in Nat /\ Len(old) \in Nat /\ n <= Len(old)
    BY <1>1
  <2>2. ASSUME NEW i \in 1..Len(new), NEW j \in 1..Len(new), i < j
        PROVE  new[i] < new[j]
    <3>a. i + n < j + n
      BY <2>2
    <3>1. /\ i + n \in 1..Len(old) /\ j + n \in 1..Len(old) /\ i + n < j + n
          /\ new[i] = old[i + n] /\ new[j] = old[j + n]
      BY <2>1, <3>a
    <3>2. old[i + n] < old[j + n]
      BY <1>2, <3>1
    <3>3. QED
      BY <3>1, <3>2
  <2>3. ASSUME NEW i \in 1..Len(new) PROVE disk'[r][new[i]] = "complete"
    <3>1. /\ i + n \in 1..Len(old) /\ new[i] = old[i + n] /\ old[i + n] \in Versions
          /\ old[i + n] < version /\ old[i + n] \in Nat
      BY <1>1, <1>5, <2>1
    <3>2. ASSUME NEW k \in 1..n PROVE old[k] < old[i + n]
      <4>1. k \in 1..Len(old) /\ k < i + n
        BY <2>a, <3>1
      <4>2. QED
        BY <1>2, <3>1, <4>1
    <3>3. \A k \in 1..n : old[k] # old[i + n]
      BY <1>1, <1>5, <3>1, <3>2
    <3>4. old[i + n] # version
      BY <3>1, CheckpointAssumption DEF Versions
    <3>5. \A v \in Versions : (v # version /\ \A k \in 1..n : old[k] # v)
                             => disk'[r][v] = disk[r][v]
      BY <1>5
    <3>6. disk[r][old[i + n]] = "complete"
      BY <1>2, <3>1
    <3>7. disk'[r][old[i + n]] = disk[r][old[i + n]]
      BY <3>1, <3>3, <3>4, <3>5
    <3>8. QED
      BY <3>1, <3>6, <3>7
  <2>4. (Present(r) \ Mine(r))' \in SUBSET (Present(r) \ Mine(r))
    <3>1. SUFFICES ASSUME NEW v \in Present(r)', v \notin Mine(r)'
                   PROVE  v \in Present(r) /\ v \notin Mine(r)
      OBVIOUS
    <3>2. v \in Versions /\ disk'[r][v] # "absent" /\ v \notin Tracked(r)' /\ v # version
      BY <1>5, <3>1 DEF Present, Mine
    <3>3. (\A k \in 1..n : old[k] # v) /\ disk[r][v] # "absent"
      BY <1>5, <3>2
    <3>4. v \notin Tracked(r)
      <4>1. SUFFICES ASSUME NEW k \in 1..Len(old), old[k] = v PROVE FALSE
        BY DEF Tracked
      <4>2. k > n
        BY <1>1, <1>5, <3>3, <4>1
      <4>3. k - n \in 1..Len(new) /\ new[k - n] = v
        <5>1. k - n \in 1..Len(new) /\ (k - n) + n = k
          BY <2>a, <2>1, <4>1, <4>2
        <5>2. QED
          BY <2>1, <4>1, <5>1
      <4>4. v \in Tracked(r)'
        BY <4>3 DEF Tracked
      <4>5. QED
        BY <3>2, <4>4
    <3>5. QED
      BY <1>5, <3>2, <3>3, <3>4 DEF Present, Mine
  <2>5. QED
    BY <1>1, <1>4, <1>5, <2>1, <2>2, <2>3, <2>4
<1>6. ASSUME saved'[r] = old, Begun(r), Begun(r)',
             disk'[r] = [disk[r] EXCEPT ![version] = "complete"],
             version \in Versions, version' = version, crashes' = crashes
      PROVE  /\ \A i \in 1..Len(new) : disk'[r][new[i]] = "complete"
             /\ Cardinality((Present(r) \ Mine(r))') <= Keep * crashes'
  <2>1. \A i \in 1..Len(new) : disk'[r][new[i]] = "complete"
    BY <1>1, <1>2, <1>6
  <2>2. (Present(r) \ Mine(r))' \in SUBSET (Present(r) \ Mine(r))
    BY <1>1, <1>6 DEF Present, Mine, Tracked
  <2>3. QED
    BY <1>4, <1>6, <2>1, <2>2
<1>7. ASSUME saved'[r] = Append(old, version), disk'[r] = disk[r], Begun(r), ~Begun(r)',
             crashes' = crashes, version \in Versions, disk[r][version] = "complete",
             \A i \in 1..Len(old) : old[i] < version
      PROVE  /\ \A i, j \in 1..Len(new) : i < j => new[i] < new[j]
             /\ Len(new) <= Keep
             /\ \A i \in 1..Len(new) : disk'[r][new[i]] = "complete"
             /\ Cardinality((Present(r) \ Mine(r))') <= Keep * crashes'
  <2>1. /\ Len(new) = Len(old) + 1
        /\ \A i \in 1..Len(old) : new[i] = old[i]
        /\ new[Len(old) + 1] = version
    BY <1>1, <1>7
  <2>2. \A i, j \in 1..Len(new) : i < j => new[i] < new[j]
    BY <1>1, <1>2, <1>7, <2>1
  <2>3. \A i \in 1..Len(new) : disk'[r][new[i]] = "complete"
    BY <1>1, <1>2, <1>7, <2>1
  <2>4. Tracked(r)' = Tracked(r) \cup {version}
    BY <1>1, <2>1 DEF Tracked
  <2>5. (Present(r) \ Mine(r))' \in SUBSET (Present(r) \ Mine(r))
    BY <1>7, <2>4 DEF Present, Mine
  <2>6. QED
    BY <1>1, <1>2, <1>4, <1>7, <2>1, <2>2, <2>3, <2>5
<1>8. ASSUME saved'[r] = <<>>, ~Begun(r)', disk'[r] = disk[r], crashes' = crashes + 1
      PROVE  Cardinality((Present(r) \ Mine(r))') <= Keep * crashes'
  <2>1. (Present(r) \ Mine(r))' \in SUBSET Present(r)
    BY <1>8 DEF Present
  <2>2. Cardinality(Present(r)) <= Keep * crashes + Keep
    <3>1. Cardinality(Mine(r)) <= Keep
      BY <1>1, MineBound DEF DiskIInv
    <3>2. /\ IsFiniteSet((Present(r) \ Mine(r)) \cup Mine(r))
          /\ Cardinality((Present(r) \ Mine(r)) \cup Mine(r)) <= Keep * crashes + Keep
      BY <1>1, <1>2, <1>3, <3>1, UnionBound
    <3>3. Keep * crashes + Keep \in Nat
      BY <1>1
    <3>4. Present(r) \in SUBSET ((Present(r) \ Mine(r)) \cup Mine(r))
      OBVIOUS
    <3>5. QED
      BY <3>2, <3>3, <3>4, FewerElements
  <2>3. Keep * crashes' = Keep * crashes + Keep /\ Keep * crashes + Keep \in Nat
    BY <1>1, <1>8
  <2>4. QED
    BY <1>3, <2>1, <2>2, <2>3, FewerElements
<1>9. ASSUME saved'[r] = old, ~Begun(r), ~Begun(r)', disk'[r] = disk[r], crashes' = crashes
      PROVE  Cardinality((Present(r) \ Mine(r))') <= Keep * crashes'
  <2>1. (Present(r) \ Mine(r))' = Present(r) \ Mine(r)
    BY <1>9 DEF Present, Mine, Tracked
  <2>2. QED
    BY <1>2, <1>9, <2>1
<1>10. IInv /\ ListInv
  BY DEF DiskIInv
<1>11. \/ /\ \E n \in 0..Len(old) :
               /\ Len(old) - n < Keep
               /\ saved'[r] = SubSeq(old, n + 1, Len(old))
               /\ disk'[r] = [v \in Versions |->
                     IF v = version THEN "partial"
                     ELSE IF \E i \in 1..n : old[i] = v THEN "absent"
                     ELSE disk[r][v]]
          /\ ~Begun(r) /\ Begun(r)'
          /\ version \in Versions /\ version' = version /\ crashes' = crashes
          /\ \A i \in 1..Len(old) : old[i] < version
       \/ /\ saved'[r] = old /\ Begun(r) /\ Begun(r)'
          /\ disk'[r] = [disk[r] EXCEPT ![version] = "complete"]
          /\ version \in Versions /\ version' = version /\ crashes' = crashes
       \/ /\ saved'[r] = Append(old, version) /\ disk'[r] = disk[r]
          /\ Begun(r) /\ ~Begun(r)' /\ crashes' = crashes
          /\ version \in Versions /\ disk[r][version] = "complete"
          /\ \A i \in 1..Len(old) : old[i] < version
       \/ /\ saved'[r] = <<>> /\ ~Begun(r)' /\ disk'[r] = disk[r]
          /\ crashes' = crashes + 1
       \/ /\ saved'[r] = old /\ ~Begun(r) /\ ~Begun(r)'
          /\ disk'[r] = disk[r] /\ crashes' = crashes
  BY <1>10, ListChange
<1> DEFINE P == /\ \A i, j \in 1..Len(new) : i < j => new[i] < new[j]
                /\ Len(new) <= Keep
                /\ Begun(r)' => Len(new) < Keep
                /\ \A i \in 1..Len(new) : disk'[r][new[i]] = "complete"
                /\ Cardinality((Present(r) \ Mine(r))') <= Keep * crashes'
<1>12. CASE Begun(r)' /\ ~Begun(r)
  <2>1. PICK n \in 0..Len(old) :
               /\ Len(old) - n < Keep
               /\ saved'[r] = SubSeq(old, n + 1, Len(old))
               /\ disk'[r] = [v \in Versions |->
                     IF v = version THEN "partial"
                     ELSE IF \E i \in 1..n : old[i] = v THEN "absent"
                     ELSE disk[r][v]]
    BY <1>11, <1>12
  <2>2. /\ version \in Versions /\ version' = version /\ crashes' = crashes
        /\ \A i \in 1..Len(old) : old[i] < version
    BY <1>11, <1>12
  <2>3. /\ \A i, j \in 1..Len(new) : i < j => new[i] < new[j]
        /\ Len(new) < Keep
        /\ \A i \in 1..Len(new) : disk'[r][new[i]] = "complete"
        /\ Cardinality((Present(r) \ Mine(r))') <= Keep * crashes'
    BY <1>5, <1>12, <2>1, <2>2
  <2>4. Len(new) <= Keep
    <3>1. Len(new) \in Nat
      BY <1>1 DEF TypeOK
    <3>2. QED
      BY <1>1, <2>3, <3>1
  <2>5. QED
    BY <2>3, <2>4
<1>13. CASE Begun(r)' /\ Begun(r)
  BY <1>2, <1>6, <1>11, <1>13
<1>14. CASE ~Begun(r)' /\ Begun(r) /\ crashes' = crashes
  <2>1. crashes' # crashes + 1
    BY <1>1, <1>14
  <2>2. /\ saved'[r] = Append(old, version) /\ disk'[r] = disk[r]
        /\ version \in Versions /\ disk[r][version] = "complete"
        /\ \A i \in 1..Len(old) : old[i] < version
    BY <1>11, <1>14, <2>1
  <2>3. QED
    BY <1>7, <1>14, <2>2
<1>15. CASE ~Begun(r)' /\ crashes' = crashes + 1
  <2>1. saved'[r] = <<>> /\ disk'[r] = disk[r]
    BY <1>1, <1>11, <1>15
  <2>2. Cardinality((Present(r) \ Mine(r))') <= Keep * crashes'
    BY <1>8, <1>15, <2>1
  <2>3. Len(new) = 0
    BY <2>1
  <2>4. QED
    BY <1>1, <1>15, <2>2, <2>3
<1>16. CASE ~Begun(r)' /\ ~Begun(r) /\ crashes' = crashes
  <2>1. saved'[r] = old /\ disk'[r] = disk[r]
    BY <1>1, <1>11, <1>16
  <2>2. Cardinality((Present(r) \ Mine(r))') <= Keep * crashes'
    BY <1>9, <1>16, <2>1
  <2>3. QED
    BY <1>2, <1>16, <2>1, <2>2
<1>17. QED
  BY <1>11, <1>12, <1>13, <1>14, <1>15, <1>16

\* With two or more checkpoints kept, rotation never deletes a checkpoint that
\* a manager goes on counting, and every incarnation of the job leaves at most
\* Keep checkpoints of a role on disk, for every number of kills.
THEOREM DiskUseBounded ==
    ASSUME Keep > 1
    PROVE  Spec => []DiskInv
<1>1. Init => DiskIInv
  <2> SUFFICES ASSUME Init PROVE DiskIInv
    OBVIOUS
  <2>1. IInv /\ TypeOK
    BY InitIInv DEF IInv
  <2>2. ListInv /\ TrackedPathsOnDisk
    BY CheckpointAssumption DEF Init, ListInv, TrackedPathsOnDisk, Begun
  <2>3. ASSUME NEW r \in RoleSet PROVE Present(r) \ Mine(r) = {}
    BY DEF Init, Present, Parts
  <2>4. LeftBehind
    <3>1. Keep * crashes = 0 /\ Cardinality({}) = 0
      BY FS_EmptySet, CheckpointAssumption DEF Init
    <3>2. QED
      BY <2>3, <3>1 DEF LeftBehind
  <2>5. QED
    BY <2>1, <2>2, <2>4 DEF DiskIInv
<1>2. DiskIInv /\ [Next]_vars => DiskIInv'
  <2> SUFFICES ASSUME DiskIInv, [Next]_vars PROVE DiskIInv'
    OBVIOUS
  <2>1. IInv'
    BY NextIInv, CheckpointAssumption DEF DiskIInv
  <2>2. CASE Next
    BY <2>1, <2>2, DiskStep DEF DiskIInv
  <2>3. CASE UNCHANGED vars
    BY <2>1, <2>3 DEF vars, diskVars, modelVars, DiskIInv, ListInv, Begun, Current,
       TrackedPathsOnDisk, LeftBehind, Present, Mine, Tracked
  <2>4. QED
    BY <2>2, <2>3
<1>3. DiskIInv => DiskInv
  <2> SUFFICES ASSUME DiskIInv, NEW r \in RoleSet
               PROVE  Cardinality(Present(r)) <= Keep * (crashes + 1)
    BY DEF DiskInv, DiskIInv, DiskGrowth
  <2>1. TypeOK /\ ListInv /\ Keep \in Nat /\ crashes \in Nat /\ Keep * crashes \in Nat
    BY CheckpointAssumption DEF DiskIInv, IInv, TypeOK
  <2>2. IsFiniteSet(Present(r) \ Mine(r)) /\ IsFiniteSet(Mine(r)) /\ IsFiniteSet(Present(r))
    BY <2>1, FiniteFacts, FS_Difference
  <2>3. /\ Cardinality(Present(r) \ Mine(r)) <= Keep * crashes
        /\ Cardinality(Mine(r)) <= Keep
    BY <2>1, MineBound DEF DiskIInv, LeftBehind
  <2>4. /\ Cardinality(Present(r) \ Mine(r)) = Cardinality(Present(r))
             - Cardinality(Present(r) \cap Mine(r))
        /\ Cardinality(Present(r) \cap Mine(r)) <= Cardinality(Mine(r))
        /\ IsFiniteSet(Present(r) \cap Mine(r))
    BY <2>2, FS_Difference, FS_Intersection
  <2>5. /\ Cardinality(Present(r)) \in Nat /\ Cardinality(Mine(r)) \in Nat
        /\ Cardinality(Present(r) \cap Mine(r)) \in Nat
    BY <2>2, <2>4, FS_CardinalityType
  <2>6. Keep * (crashes + 1) = Keep * crashes + Keep
    BY <2>1
  <2>7. QED
    BY <2>1, <2>3, <2>4, <2>5, <2>6
<1>4. QED
  BY <1>1, <1>2, <1>3, PTL DEF Spec
=============================================================================
