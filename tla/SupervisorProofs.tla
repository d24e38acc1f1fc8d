-------------------------- MODULE SupervisorProofs --------------------------
(***************************************************************************)
(* Proofs about Supervisor, for any number of processes and names, any     *)
(* limits of the backoff and any number of reloads and faults.             *)
(***************************************************************************)
EXTENDS Supervisor, TLAPS

\* What the invariants of Supervisor rest on.

\* A process is in children_ from its fork to its waitpid(), under its name.
Placed ==
    \A p \in Pid :
        /\ proc[p] = "none" <=> p \notin children
        /\ p \in children => name[p] \in Name

\* Where the master stands, and whether it is stopping.
Stands ==
    /\ at = "boot" => retiring = {} /\ then = "loop" /\ ~shutting
    /\ at = "reload" => ~shutting
    /\ at = "reap" /\ then = "loop" => ~shutting
    /\ at = "reap" /\ then \in {"term", "quit", "killed"} => shutting
    /\ killTimer => shutting

\* ToldToStop for one child.
ToldIfItMust(p) ==
    shutting \/ conf[p] # current \/ p \in retiring => p \in retiring /\ proc[p] # "running"

\* Before, in and after the handlers that mark children and tell them.
ToldInv ==
    /\ at = "boot" => \A p \in children : conf[p] = current
    /\ at = "reload" => \A p \in children : conf[p] # current => p \in retiring
    /\ at = "loop" \/ (at = "reap" /\ then \notin {"term", "quit"}) =>
           \A p \in children : ToldIfItMust(p)

\* NoNameForgotten for one name.
Remembered(n) ==
    \/ respawns[n] > 0
    \/ \E p \in children \ retiring : name[p] = n
    \/ winched /\ n \in Worker

\* While names are forked one by one, and from then on.
NamesInv ==
    /\ at \in {"boot", "reload"} =>
           \A n \in Name \ todo : \E p \in children \ retiring : name[p] = n
    /\ at \in {"loop", "reap"} /\ ~shutting => \A n \in Name : Remembered(n)

\* The inductive invariant.
Inv == TypeOK /\ Placed /\ Stands /\ ToldInv /\ NamesInv /\ StormHolds

-----------------------------------------------------------------------------
(* Types.                                                                  *)

LEMMA InitType == ASSUME ConstantsAssumption, Init PROVE TypeOK
  <1>1. rapid \in [Name -> 0..Ceiling] BY DEF Init, ConstantsAssumption
  <1>2. conf \in [Pid -> 0..MaxReloads] /\ current \in 0..MaxReloads /\ faults \in 0..MaxFaults
    BY DEF Init, ConstantsAssumption
  <1>3. name \in [Pid -> Name \cup {Free}] /\ proc \in [Pid -> Doing]
    BY DEF Init, Doing
  <1>4. /\ storm \in [Name -> BOOLEAN] /\ delayed \in [Name -> BOOLEAN]
        /\ respawns \in [Name -> Nat]
    BY DEF Init
  <1> QED BY <1>1, <1>2, <1>3, <1>4 DEF Init, TypeOK

\* The counts of quick deaths stay at or under the ceiling.
LEMMA BackoffType ==
  ASSUME ConstantsAssumption, TypeOK, NEW n \in Name,
         NEW gap \in {"quick", "later", "stable"}, Backoff(n, gap)
  PROVE  /\ rapid' \in [Name -> 0..Ceiling]
         /\ storm' \in [Name -> BOOLEAN] /\ delayed' \in [Name -> BOOLEAN]
  <1>1. Counted(n, gap) \in 0..Ceiling
    BY DEF TypeOK, Counted, ConstantsAssumption
  <1>2. rapid' \in [Name -> 0..Ceiling] BY <1>1 DEF Backoff, TypeOK
  <1>3. storm' \in [Name -> BOOLEAN] BY DEF Backoff, TypeOK
  <1>4. delayed' \in [Name -> BOOLEAN] BY DEF Backoff, TypeOK, Held
  <1> QED BY <1>2, <1>3, <1>4

LEMMA ForkedType ==
  ASSUME ConstantsAssumption, TypeOK, NEW n \in Name, NEW p \in Unborn, Forked(p, n)
  PROVE  /\ children' \subseteq Pid /\ retiring' \subseteq children'
         /\ name' \in [Pid -> Name \cup {Free}] /\ conf' \in [Pid -> 0..MaxReloads]
         /\ proc' \in [Pid -> Doing]
  BY DEF Forked, Unborn, TypeOK, Doing

LEMMA GoneType ==
  ASSUME ConstantsAssumption, TypeOK, NEW p \in children, Gone(p), retiring' = retiring \ {p}
  PROVE  /\ children' \subseteq Pid /\ retiring' \subseteq children'
         /\ name' \in [Pid -> Name \cup {Free}] /\ conf' \in [Pid -> 0..MaxReloads]
         /\ proc' \in [Pid -> Doing]
  BY DEF Gone, TypeOK, Doing, ConstantsAssumption

LEMMA GoneForType ==
  ASSUME ConstantsAssumption, TypeOK, NEW p \in children, NEW b \in Unborn \cup {p},
         GoneFor(p, b), retiring' = retiring \ {p}
  PROVE  /\ children' \subseteq Pid /\ retiring' \subseteq children'
         /\ name' \in [Pid -> Name \cup {Free}] /\ conf' \in [Pid -> 0..MaxReloads]
         /\ proc' \in [Pid -> Doing]
  <1>1. p \in Pid /\ b \in Pid BY DEF TypeOK, Unborn
  <1>2. children' \subseteq Pid /\ retiring' \subseteq children'
    BY <1>1 DEF GoneFor, TypeOK
  <1>3. name' \in [Pid -> Name \cup {Free}] BY <1>1 DEF GoneFor, TypeOK
  <1>4. conf' \in [Pid -> 0..MaxReloads] BY <1>1 DEF GoneFor, TypeOK, ConstantsAssumption
  <1>5. proc' \in [Pid -> Doing] BY <1>1 DEF GoneFor, TypeOK, Doing
  <1> QED BY <1>2, <1>3, <1>4, <1>5

LEMMA ToldType ==
  ASSUME TypeOK, NEW S PROVE Told(S) \in [Pid -> Doing]
  BY DEF Told, TypeOK, Doing

LEMMA ReapOneType ==
  ASSUME ConstantsAssumption, TypeOK, Placed, NEW p \in Pid, ReapOne(p)
  PROVE  TypeOK'
  <1>1. p \in children /\ name[p] \in Name /\ retiring' = retiring \ {p}
    BY DEF ReapOne, Zombies, Placed
  <1>2. /\ children' \subseteq Pid /\ retiring' \subseteq children'
        /\ name' \in [Pid -> Name \cup {Free}] /\ conf' \in [Pid -> 0..MaxReloads]
        /\ proc' \in [Pid -> Doing]
    BY <1>1, GoneType, GoneForType DEF ReapOne
  <1>3. /\ rapid' \in [Name -> 0..Ceiling]
        /\ storm' \in [Name -> BOOLEAN] /\ delayed' \in [Name -> BOOLEAN]
    BY <1>1, BackoffType DEF ReapOne, TypeOK, backing
  <1>4. respawns' \in [Name -> Nat]
    BY <1>1 DEF ReapOne, TypeOK, backing
  <1>5. faults' \in 0..MaxFaults /\ at' \in {"boot", "loop", "reap", "reload", "over"}
    BY DEF ReapOne, TypeOK, Throws, ConstantsAssumption
  <1> QED BY <1>2, <1>3, <1>4, <1>5 DEF ReapOne, TypeOK

LEMMA TypeStep ==
  ASSUME ConstantsAssumption, TypeOK, Placed, [Next]_vars PROVE TypeOK'
  <1> USE DEF spawn, backing
  <1>1. ASSUME NEW n \in Name, BootForks(n) \/ ReloadForks(n) PROVE TypeOK'
    <2>1. /\ children' \subseteq Pid /\ retiring' \subseteq children'
          /\ name' \in [Pid -> Name \cup {Free}] /\ conf' \in [Pid -> 0..MaxReloads]
          /\ proc' \in [Pid -> Doing]
      BY <1>1, ForkedType DEF BootForks, ReloadForks, TypeOK
    <2>2. faults' \in 0..MaxFaults /\ at' \in {"boot", "loop", "reap", "reload", "over"}
      BY <1>1 DEF BootForks, ReloadForks, TypeOK, Throws, ConstantsAssumption
    <2> QED BY <1>1, <2>1, <2>2 DEF BootForks, ReloadForks, TypeOK
  <1>2. CASE MasterRun BY <1>2 DEF MasterRun, TypeOK
  <1>3. ASSUME NEW p \in Pid, ReapOne(p) PROVE TypeOK'
    BY <1>3, ReapOneType
  <1>4. CASE Reaped
    <2>1. faults' \in 0..MaxFaults /\ at' \in {"boot", "loop", "reap", "reload", "over"}
      BY <1>4 DEF Reaped, TypeOK, Throws, ConstantsAssumption
    <2>2. killTimer' \in BOOLEAN BY <1>4 DEF Reaped, TypeOK
    <2>3. proc' \in [Pid -> Doing] /\ retiring' \subseteq children
      BY <1>4, ToldType DEF Reaped, TypeOK, Retired
    <2> QED BY <1>4, <2>1, <2>2, <2>3 DEF Reaped, TypeOK
  <1>5. CASE TakesChild \/ TakesTerm \/ TakesQuit
    BY <1>5 DEF TakesChild, TakesTerm, TakesQuit, Takes, TypeOK
  <1>6. CASE TakesWinch
    BY <1>6, ToldType DEF TakesWinch, Takes, TypeOK
  <1>7. CASE TakesHup
    BY <1>7 DEF TakesHup, Takes, TypeOK, Retired, ConstantsAssumption
  <1>8. CASE ReloadTells
    BY <1>8, ToldType DEF ReloadTells, TypeOK
  <1>9. ASSUME NEW n \in Name, RespawnTimer(n) PROVE TypeOK'
    <2>1. /\ children' \subseteq Pid /\ retiring' \subseteq children'
          /\ name' \in [Pid -> Name \cup {Free}] /\ conf' \in [Pid -> 0..MaxReloads]
          /\ proc' \in [Pid -> Doing]
      BY <1>9, ForkedType DEF RespawnTimer, TypeOK
    <2>2. faults' \in 0..MaxFaults /\ at' \in {"boot", "loop", "reap", "reload", "over"}
      BY <1>9 DEF RespawnTimer, TypeOK, Throws, ConstantsAssumption
    <2>3. respawns' \in [Name -> Nat] BY <1>9 DEF RespawnTimer, TypeOK
    <2> QED BY <1>9, <2>1, <2>2, <2>3 DEF RespawnTimer, TypeOK
  <1>10. CASE KillTimer
    BY <1>10 DEF KillTimer, Killed, TypeOK, Doing
  <1>11. ASSUME NEW p \in Pid, Dies(p) \/ Finishes(p) \/ Falls(p) PROVE TypeOK'
    BY <1>11 DEF Dies, Finishes, Falls, Dead, TypeOK, Doing, Signals
  <1>12. ASSUME NEW s \in {"TERM", "QUIT", "HUP", "WINCH"}, Sent(s) PROVE TypeOK'
    BY <1>12 DEF Sent, TypeOK, Signals
  <1>13. CASE UNCHANGED vars
    BY <1>13 DEF vars, TypeOK
  <1> QED
    BY <1>1, <1>2, <1>3, <1>4, <1>5, <1>6, <1>7, <1>8, <1>9, <1>10, <1>11, <1>12, <1>13
    DEF Next, Steps

-----------------------------------------------------------------------------
(* A process is in children_ from its fork to its waitpid().               *)

LEMMA PlacedStep ==
  ASSUME ConstantsAssumption, TypeOK, Placed, [Next]_vars PROVE Placed'
  <1> USE DEF spawn, backing
  <1>1. ASSUME NEW n \in Name, BootForks(n) \/ ReloadForks(n) \/ RespawnTimer(n) PROVE Placed'
    BY <1>1 DEF BootForks, ReloadForks, RespawnTimer, Forked, Unborn, TypeOK, Placed
  <1>2. ASSUME NEW p \in Pid, ReapOne(p) PROVE Placed'
    <2>1. p \in children /\ name[p] \in Name BY <1>2 DEF ReapOne, Zombies, Placed
    <2>2. CASE Gone(p) BY <2>1, <2>2 DEF Gone, TypeOK, Placed
    <2>3. ASSUME NEW b \in Unborn \cup {p}, GoneFor(p, b) PROVE Placed'
      BY <2>1, <2>3 DEF GoneFor, Unborn, TypeOK, Placed
    <2> QED BY <1>2, <2>2, <2>3 DEF ReapOne
  <1>3. ASSUME NEW S, proc' = Told(S), UNCHANGED <<children, name>> PROVE Placed'
    BY <1>3 DEF Told, TypeOK, Placed
  <1>4. CASE Reaped BY <1>3, <1>4 DEF Reaped, Placed
  <1>5. CASE TakesWinch \/ ReloadTells
    BY <1>3, <1>5 DEF TakesWinch, ReloadTells
  <1>6. CASE KillTimer
    BY <1>6 DEF KillTimer, Killed, TypeOK, Placed
  <1>7. ASSUME NEW p \in Pid, Dies(p) \/ Finishes(p) \/ Falls(p) PROVE Placed'
    BY <1>7 DEF Dies, Finishes, Falls, Dead, TypeOK, Placed
  <1>8. ASSUME NEW s \in {"TERM", "QUIT", "HUP", "WINCH"}, Sent(s) PROVE Placed'
    BY <1>8 DEF Sent, Placed
  <1>9. CASE MasterRun \/ TakesChild \/ TakesTerm \/ TakesQuit \/ TakesHup \/ UNCHANGED vars
    BY <1>9 DEF MasterRun, TakesChild, TakesTerm, TakesQuit, TakesHup, vars, Placed
  <1> QED
    BY <1>1, <1>2, <1>4, <1>5, <1>6, <1>7, <1>8, <1>9 DEF Next, Steps

-----------------------------------------------------------------------------
(* Where the master stands.                                                *)

LEMMA StandsStep ==
  ASSUME TypeOK, Stands, [Next]_vars PROVE Stands'
  <1> USE DEF spawn, backing, TypeOK, Stands
  <1>1. ASSUME NEW n \in Name, BootForks(n) \/ ReloadForks(n) \/ RespawnTimer(n) PROVE Stands'
    BY <1>1 DEF BootForks, ReloadForks, RespawnTimer, Forked, Throws
  <1>2. ASSUME NEW p \in Pid, ReapOne(p) PROVE Stands'
    BY <1>2 DEF ReapOne, Throws
  <1>3. CASE Reaped BY <1>3 DEF Reaped, Throws
  <1>4. CASE MasterRun \/ TakesChild \/ TakesTerm \/ TakesQuit
    BY <1>4 DEF MasterRun, TakesChild, TakesTerm, TakesQuit, Takes
  <1>5. CASE TakesWinch \/ TakesHup \/ ReloadTells
    BY <1>5 DEF TakesWinch, TakesHup, ReloadTells, Takes, ReloadTaken
  <1>6. CASE KillTimer BY <1>6 DEF KillTimer
  <1>7. ASSUME NEW p \in Pid, Dies(p) \/ Finishes(p) \/ Falls(p) PROVE Stands'
    BY <1>7 DEF Dies, Finishes, Falls, Dead
  <1>8. ASSUME NEW s \in {"TERM", "QUIT", "HUP", "WINCH"}, Sent(s) PROVE Stands'
    BY <1>8 DEF Sent
  <1>9. CASE UNCHANGED vars BY <1>9 DEF vars
  <1> QED
    BY <1>1, <1>2, <1>3, <1>4, <1>5, <1>6, <1>7, <1>8, <1>9 DEF Next, Steps

-----------------------------------------------------------------------------
(* Children that have to go are marked and told.                           *)

\* A child forked now is of the configuration in force, and is to stay.
LEMMA ForkedIsCurrent ==
  ASSUME TypeOK, Placed, NEW n \in Name, NEW p \in Unborn, Forked(p, n), UNCHANGED current
  PROVE  /\ p \notin children /\ p \notin retiring' /\ conf'[p] = current'
         /\ children' = children \cup {p} /\ retiring' = retiring
         /\ \A q \in children : conf'[q] = conf[q] /\ proc'[q] = proc[q]
  BY DEF Forked, Unborn, TypeOK, Placed

\* One told to stop does not run; nobody is set running by it.
LEMMA ToldStops ==
  ASSUME TypeOK, NEW S
  PROVE  /\ \A p \in Pid \cap S : Told(S)[p] # "running"
         /\ \A p \in Pid : Told(S)[p] = "running" => proc[p] = "running"
  BY DEF Told, TypeOK

LEMMA ToldStep ==
  ASSUME ConstantsAssumption, TypeOK, Placed, Stands, ToldInv, [Next]_vars PROVE ToldInv'
  <1> USE DEF spawn, backing
  <1>1. ASSUME NEW n \in Name, BootForks(n) \/ ReloadForks(n) \/ RespawnTimer(n) PROVE ToldInv'
    <2>1. ASSUME NEW p \in Unborn, Forked(p, n), UNCHANGED <<at, shutting, current, then>>,
                 at = "loop" => ~shutting
          PROVE  ToldInv'
      <3>1. at = "boot" => \A q \in children' : conf'[q] = current'
        BY <2>1, ForkedIsCurrent DEF ToldInv
      <3>2. at = "reload" => \A q \in children' : conf'[q] # current' => q \in retiring'
        BY <2>1, ForkedIsCurrent DEF ToldInv
      <3>3. CASE at = "loop"
        BY <2>1, <3>3, ForkedIsCurrent DEF ToldInv, ToldIfItMust
      <3>4. at # "reap" BY <1>1 DEF BootForks, ReloadForks, RespawnTimer
      <3> QED BY <2>1, <3>1, <3>2, <3>3, <3>4 DEF ToldInv
    <2>2. CASE UNCHANGED <<spawn, at, shutting, current, then>>
      BY <2>2 DEF ToldInv, ToldIfItMust
    <2>3. CASE at' = "over" BY <2>3 DEF ToldInv
    <2> QED BY <1>1, <2>1, <2>2, <2>3
            DEF BootForks, ReloadForks, RespawnTimer, Throws, RespawnStands
  <1>2. ASSUME NEW p \in Pid, ReapOne(p) PROVE ToldInv'
    <2>1. /\ p \in children /\ at = "reap" /\ retiring' = retiring \ {p}
          /\ UNCHANGED <<shutting, current, then>>
      BY <1>2 DEF ReapOne, Zombies
    <2>2. CASE at' = "over" BY <2>2 DEF ToldInv
    <2>3. CASE Gone(p) /\ at' = at
      BY <2>1, <2>3 DEF Gone, TypeOK, ToldInv, ToldIfItMust
    <2>4. ASSUME NEW b \in Unborn \cup {p}, GoneFor(p, b), ~shutting, at' = at PROVE ToldInv'
      <3>1. b \in Pid /\ b \notin retiring' BY <2>1, <2>4 DEF Unborn, Placed, TypeOK
      <3>2. conf'[b] = current' BY <2>1, <2>4, <3>1 DEF GoneFor, TypeOK
      <3>3. \A q \in children' : q # b => q \in children /\ q # p /\ conf'[q] = conf[q] /\ proc'[q] = proc[q]
        BY <2>1, <2>4, <3>1 DEF GoneFor, TypeOK
      <3> QED BY <2>1, <2>4, <3>1, <3>2, <3>3 DEF ToldInv, ToldIfItMust
    <2> QED BY <1>2, <2>2, <2>3, <2>4 DEF ReapOne, Throws, Replaced
  <1>3. CASE Reaped
    <2>1. CASE then = "loop" \/ then \in {"child", "killed"}
      BY <1>3, <2>1 DEF Reaped, ToldInv, ToldIfItMust
    <2>2. CASE then \in {"term", "quit"}
      <3>1. retiring' = children /\ proc' = Told(children) /\ UNCHANGED <<children, then>>
        BY <1>3, <2>2 DEF Reaped, Retired
      <3>2. \A q \in children' : q \in retiring' /\ proc'[q] # "running"
        BY <3>1, ToldStops DEF TypeOK
      <3> QED BY <1>3, <2>2, <3>2 DEF Reaped, Throws, ToldInv, ToldIfItMust
    <2> QED BY <2>1, <2>2 DEF TypeOK
  <1>4. CASE MasterRun
    BY <1>4 DEF MasterRun, Stands, ToldInv, ToldIfItMust
  <1>5. CASE TakesChild \/ TakesTerm \/ TakesQuit
    BY <1>5 DEF TakesChild, TakesTerm, TakesQuit, Takes, ToldInv, ToldIfItMust
  <1>6. CASE TakesWinch
    <2> DEFINE W == {p \in children : name[p] \in Worker}
    <2>1. /\ retiring' = retiring \cup W /\ proc' = Told(W)
          /\ UNCHANGED <<children, conf, shutting, current, at>> /\ at = "loop"
      BY <1>6 DEF TakesWinch, Takes
    <2> HIDE DEF W
    <2>2. \A p \in children : p \in W \/ ToldIfItMust(p)
      BY <2>1 DEF ToldInv
    <2> QED BY <2>1, <2>2, ToldStops DEF TypeOK, ToldInv, ToldIfItMust
  <1>7. CASE TakesHup
    BY <1>7 DEF TakesHup, Takes, Retired, ToldInv, ToldIfItMust
  <1>8. CASE ReloadTells
    BY <1>8, ToldStops DEF ReloadTells, TypeOK, Stands, ToldInv, ToldIfItMust
  <1>9. CASE KillTimer
    BY <1>9 DEF KillTimer, Killed, TypeOK, ToldInv, ToldIfItMust
  <1>10. ASSUME NEW p \in Pid, Dies(p) \/ Finishes(p) \/ Falls(p) PROVE ToldInv'
    BY <1>10 DEF Dies, Finishes, Falls, Dead, TypeOK, ToldInv, ToldIfItMust
  <1>11. ASSUME NEW s \in {"TERM", "QUIT", "HUP", "WINCH"}, Sent(s) PROVE ToldInv'
    BY <1>11 DEF Sent, ToldInv, ToldIfItMust
  <1>12. CASE UNCHANGED vars BY <1>12 DEF vars, ToldInv, ToldIfItMust
  <1> QED
    BY <1>1, <1>2, <1>3, <1>4, <1>5, <1>6, <1>7, <1>8, <1>9, <1>10, <1>11, <1>12
    DEF Next, Steps

-----------------------------------------------------------------------------
(* No name is forgotten.                                                   *)

LEMMA NamesStep ==
  ASSUME ConstantsAssumption, TypeOK, Placed, Stands, NamesInv, [Next]_vars PROVE NamesInv'
  <1> USE DEF spawn, backing
  <1>1. ASSUME NEW n \in Name, BootForks(n) \/ ReloadForks(n) PROVE NamesInv'
    <2>1. ASSUME NEW p \in Unborn, Forked(p, n), todo' = todo \ {n}, at' = at,
                 at \in {"boot", "reload"}
          PROVE  NamesInv'
      <3>1. p \in children' \ retiring' /\ name'[p] = n
        BY <2>1 DEF Forked, Unborn, TypeOK, Placed
      <3>2. \A q \in children \ retiring : q \in children' \ retiring' /\ name'[q] = name[q]
        BY <2>1 DEF Forked, Unborn, TypeOK, Placed
      <3> QED BY <2>1, <3>1, <3>2 DEF NamesInv
    <2>2. CASE at' = "over" BY <2>2 DEF NamesInv
    <2> QED BY <1>1, <2>1, <2>2 DEF BootForks, ReloadForks, Throws
  <1>2. CASE MasterRun
    BY <1>2 DEF MasterRun, TypeOK, NamesInv, Remembered
  <1>3. ASSUME NEW p \in Pid, ReapOne(p) PROVE NamesInv'
    <2>1. /\ p \in children /\ at = "reap" /\ retiring' = retiring \ {p}
          /\ UNCHANGED <<shutting, winched>> /\ name[p] \in Name
      BY <1>3 DEF ReapOne, Zombies, Placed
    <2>2. CASE at' = "over" \/ shutting BY <2>1, <2>2, <1>3 DEF ReapOne, Throws, NamesInv
    <2>3. CASE ~Replaced(p) /\ Gone(p) /\ UNCHANGED <<respawns, at>> /\ ~shutting
      <3>1. p \in retiring BY <2>3 DEF Replaced
      <3> QED BY <2>1, <2>3, <3>1 DEF Gone, TypeOK, NamesInv, Remembered
    <2>4. ASSUME NEW b \in Unborn \cup {p}, GoneFor(p, b), UNCHANGED <<respawns, at>>
          PROVE  NamesInv'
      <3>1. b \in children' \ retiring' /\ name'[b] = name[p]
        BY <2>1, <2>4 DEF GoneFor, Unborn, TypeOK, Placed
      <3>2. \A q \in children \ retiring : q # p => q \in children' \ retiring' /\ name'[q] = name[q]
        BY <2>1, <2>4 DEF GoneFor, Unborn, TypeOK, Placed
      <3> QED BY <2>1, <2>4, <3>1, <3>2 DEF NamesInv, Remembered
    <2>5. CASE Gone(p) /\ respawns' = [respawns EXCEPT ![name[p]] = @ + 1] /\ at' = at
      <3>1. respawns'[name[p]] > 0 BY <2>1, <2>5 DEF TypeOK
      <3>2. \A n \in Name : respawns[n] > 0 => respawns'[n] > 0 BY <2>1, <2>5 DEF TypeOK
      <3>3. \A q \in children \ retiring : q # p => q \in children' \ retiring' /\ name'[q] = name[q]
        BY <2>1, <2>5 DEF Gone, TypeOK
      <3> QED BY <2>1, <2>5, <3>1, <3>2, <3>3 DEF NamesInv, Remembered
    <2>6. CASE ~Replaced(p)
      BY <1>3, <2>2, <2>3, <2>6 DEF ReapOne
    <2>7. CASE Replaced(p)
      BY <1>3, <2>2, <2>4, <2>5, <2>7 DEF ReapOne, Throws
    <2> QED BY <2>6, <2>7
  <1>4. CASE Reaped
    <2>1. CASE then \in {"term", "quit"}
      BY <1>4, <2>1 DEF Reaped, Throws, Stands, NamesInv
    <2>2. CASE then \in {"loop", "child", "killed"}
      BY <1>4, <2>2 DEF Reaped, NamesInv, Remembered
    <2> QED BY <2>1, <2>2 DEF TypeOK
  <1>5. CASE TakesChild \/ TakesTerm \/ TakesQuit
    BY <1>5 DEF TakesChild, TakesTerm, TakesQuit, Takes, NamesInv, Remembered
  <1>6. CASE TakesWinch
    <2>1. /\ winched' /\ at = "loop"
          /\ retiring' = retiring \cup {p \in children : name[p] \in Worker}
          /\ UNCHANGED <<children, name, respawns, shutting, at>>
      BY <1>6 DEF TakesWinch, Takes
    <2>2. \A q \in children \ retiring : name[q] \notin Worker => q \notin retiring'
      BY <2>1
    <2> QED BY <2>1, <2>2 DEF NamesInv, Remembered
  <1>7. CASE TakesHup
    BY <1>7 DEF TakesHup, Takes, NamesInv, Remembered
  <1>8. CASE ReloadTells
    BY <1>8 DEF ReloadTells, NamesInv, Remembered
  <1>9. ASSUME NEW n \in Name, RespawnTimer(n) PROVE NamesInv'
    <2>1. CASE at' = "over" \/ shutting BY <1>9, <2>1 DEF RespawnTimer, Throws, NamesInv
    <2>2. ASSUME NEW p \in Unborn, Forked(p, n), at' = at, at = "loop", UNCHANGED <<shutting, winched>>,
                 respawns' = [respawns EXCEPT ![n] = @ - 1]
          PROVE  NamesInv'
      <3>1. p \in children' \ retiring' /\ name'[p] = n
        BY <2>2 DEF Forked, Unborn, TypeOK, Placed
      <3>2. \A q \in children \ retiring : q \in children' \ retiring' /\ name'[q] = name[q]
        BY <2>2 DEF Forked, Unborn, TypeOK, Placed
      <3>3. \A m \in Name : m # n => respawns'[m] = respawns[m] BY <2>2 DEF TypeOK
      <3> QED BY <2>2, <3>1, <3>2, <3>3 DEF NamesInv, Remembered
    <2> QED BY <1>9, <2>1, <2>2 DEF RespawnTimer, Throws, RespawnStands
  <1>10. CASE KillTimer
    BY <1>10 DEF KillTimer, NamesInv, Remembered
  <1>11. ASSUME NEW p \in Pid, Dies(p) \/ Finishes(p) \/ Falls(p) PROVE NamesInv'
    BY <1>11 DEF Dies, Finishes, Falls, Dead, NamesInv, Remembered
  <1>12. ASSUME NEW s \in {"TERM", "QUIT", "HUP", "WINCH"}, Sent(s) PROVE NamesInv'
    BY <1>12 DEF Sent, NamesInv, Remembered
  <1>13. CASE UNCHANGED vars BY <1>13 DEF vars, NamesInv, Remembered
  <1> QED
    BY <1>1, <1>2, <1>3, <1>4, <1>5, <1>6, <1>7, <1>8, <1>9, <1>10, <1>11, <1>12, <1>13
    DEF Next, Steps

-----------------------------------------------------------------------------
(* The backoff.                                                            *)

\* Only a death counts.
LEMMA StormStep ==
  ASSUME ConstantsAssumption, TypeOK, Placed, StormHolds, [Next]_vars PROVE StormHolds'
  <1> USE DEF spawn, backing
  <1>1. ASSUME NEW p \in Pid, ReapOne(p) PROVE StormHolds'
    <2>1. ASSUME NEW gap \in {"quick", "later", "stable"}, Backoff(name[p], gap) PROVE StormHolds'
      <3>1. name[p] \in Name BY <1>1 DEF ReapOne, Zombies, Placed
      <3>2. \A n \in Name \ {name[p]} : storm'[n] = storm[n] /\ delayed'[n] = delayed[n]
        BY <2>1 DEF Backoff, TypeOK
      <3>3. storm'[name[p]] => delayed'[name[p]]
        BY <2>1, <3>1 DEF Backoff, Held, TypeOK
      <3> QED BY <3>2, <3>3 DEF StormHolds
    <2>2. CASE UNCHANGED backing BY <2>2 DEF StormHolds
    <2> QED BY <1>1, <2>1, <2>2 DEF ReapOne
  <1>2. ASSUME NEW n \in Name, BootForks(n) \/ ReloadForks(n) \/ RespawnTimer(n) PROVE StormHolds'
    BY <1>2 DEF BootForks, ReloadForks, RespawnTimer, StormHolds
  <1>3. CASE Reaped \/ MasterRun \/ TakesChild \/ TakesTerm \/ TakesQuit \/ TakesWinch
             \/ TakesHup \/ ReloadTells \/ KillTimer
    BY <1>3 DEF Reaped, MasterRun, TakesChild, TakesTerm, TakesQuit, TakesWinch, TakesHup,
                ReloadTells, KillTimer, StormHolds
  <1>4. ASSUME NEW p \in Pid, Dies(p) \/ Finishes(p) \/ Falls(p) PROVE StormHolds'
    BY <1>4 DEF Dies, Finishes, Falls, Dead, StormHolds
  <1>5. ASSUME NEW s \in {"TERM", "QUIT", "HUP", "WINCH"}, Sent(s) PROVE StormHolds'
    BY <1>5 DEF Sent, StormHolds
  <1>6. CASE UNCHANGED vars BY <1>6 DEF vars, StormHolds
  <1> QED BY <1>1, <1>2, <1>3, <1>4, <1>5, <1>6 DEF Next, Steps

-----------------------------------------------------------------------------
(* Theorems.                                                               *)

LEMMA InitInv == ASSUME ConstantsAssumption, Init PROVE Inv
  <1>1. TypeOK BY InitType
  <1>2. Placed /\ Stands /\ ToldInv BY DEF Init, Placed, Stands, ToldInv
  <1>3. NamesInv /\ StormHolds BY DEF Init, NamesInv, StormHolds
  <1> QED BY <1>1, <1>2, <1>3 DEF Inv

LEMMA InvStep == ASSUME ConstantsAssumption, Inv, [Next]_vars PROVE Inv'
  BY TypeStep, PlacedStep, StandsStep, ToldStep, NamesStep, StormStep DEF Inv

\* The inductive invariant holds: types, every process in its place, where the
\* master stands, and the two invariants of its handlers.
THEOREM Invariant == Spec => []Inv
  <1>1. Init => Inv BY InitInv, ConstantsAssumption
  <1>2. Inv /\ [Next]_vars => Inv' BY InvStep, ConstantsAssumption
  <1> QED BY <1>1, <1>2, PTL DEF Spec

\* Every variable of the master keeps to its type (master_run()).
THEOREM TypeCorrect == Spec => []TypeOK
  <1>1. Inv => TypeOK BY DEF Inv
  <1> QED BY <1>1, Invariant, PTL

\* Whenever the master waits, every child that has to go is marked and was told
\* (fast_shutdown(), graceful_shutdown(), rolling_restart(), reap_children()).
THEOREM ToldToStopHolds == Spec => []ToldToStop
  <1>1. Inv => ToldToStop BY DEF Inv, ToldInv, ToldIfItMust, ToldToStop
  <1> QED BY <1>1, Invariant, PTL

\* No child of the configuration is forgotten by reaping, respawning and
\* reloading (reap_children(), rolling_restart()).
THEOREM NoNameForgottenHolds == Spec => []NoNameForgotten
  <1>1. Inv => NoNameForgotten BY DEF Inv, NamesInv, Remembered, NoNameForgotten
  <1> QED BY <1>1, Invariant, PTL

\* A storm of respawns holds the delay at its ceiling (respawn_child()).
THEOREM StormHoldsAlways == Spec => []StormHolds
  <1>1. Inv => StormHolds BY DEF Inv
  <1> QED BY <1>1, Invariant, PTL

=============================================================================
