------------------------- MODULE BrowserCleaner_proofs -------------------------
(***************************************************************************)
(* Proofs about BrowserCleaner: the processes and the cleaning task leave   *)
(* the pool a pool, and the task kills no process that is in use.           *)
(*                                                                         *)
(* The argument: a process the task saw outside the dictionary in two runs, *)
(* and that no longer launches, belongs to a browser that has returned its  *)
(* permit.  Such a browser stays what it is while the task sleeps, however  *)
(* old the task's snapshot of the dictionary gets.                          *)
(***************************************************************************)
EXTENDS BrowserCleaner, BrowserPoolPrivate_proofs

\* A process belongs to a browser that took a permit.
Spawned == \A br \in Browsers : proc[br] # "none" => permit[br] # "none"

\* While the task sleeps between two kills, what it has still to kill is gone
\* from the pool.
TodoReleased ==
  cleaner = "killing" => \A br \in todo : permit[br] = "returned"

CInv == PInv /\ CleanerTypeOK /\ Spawned /\ TodoReleased
-----------------------------------------------------------------------------
\* Every step of the composition is a step of the pool or leaves it alone.
LEMMA PoolOrNot ==
  ASSUME [CleanerNext]_allVars
  PROVE  [Next]_vars
<1>1. CASE CleanerNext
  BY <1>1, Zenon DEF CleanerNext, PoolStep, Next, Dispatcher, Worker
<1>2. CASE UNCHANGED allVars
  BY <1>2 DEF allVars
<1>. QED
  BY <1>1, <1>2

\* A permit that was taken stays taken or returned, one returned stays so.
LEMMA PermitsOnlyAdvance ==
  ASSUME PInv, [Next]_vars, NEW br \in Browsers
  PROVE  /\ permit[br] # "none" => permit'[br] # "none"
         /\ permit[br] = "returned" => permit'[br] = "returned"
<1>1. permit \in [Browsers -> {"none", "held", "returned"}]
  BY PInvTypes
<1>. QED
  BY <1>1, PermitsStep
     DEF Permits!Next, Permits!Acquire, Permits!Return, Permits!HandOver

\* A process that a step of the pool starts or ends has a browser with a permit.
LEMMA ProcessStep ==
  ASSUME PInv, CleanerTypeOK, Spawned, ~exited, PoolStep
  PROVE  proc' \in [Browsers -> {"none", "alive", "dead"}] /\ Spawned'
<1>0. proc \in [Browsers -> {"none", "alive", "dead"}]
  BY DEF CleanerTypeOK
<1>1. [Next]_vars
  BY Zenon DEF PoolStep, Next, Dispatcher, Worker
<1>2. \A br \in Browsers : permit[br] # "none" => permit'[br] # "none"
  BY <1>1, PermitsOnlyAdvance
<1>3. CASE Spawn
  BY <1>0, <1>2, <1>3 DEF Spawn, Spawned
<1>4. CASE UNCHANGED proc
  BY <1>0, <1>2, <1>4 DEF Spawned
<1>5. ASSUME NEW c \in Conns, CloseSucceeds(c) \/ CloseRaises(c),
             proc' \in {proc, [proc EXCEPT ![browser[c]] = "dead"]}
      PROVE  proc' \in [Browsers -> {"none", "alive", "dead"}] /\ Spawned'
  <2>1. Active(c)
    BY <1>5 DEF CloseSucceeds, CloseRaises, Active
  <2>2. browser[c] \in Browsers /\ permit[browser[c]] = "held"
    BY <2>1, OwnBrowser DEF Held
  <2>. QED
    BY <1>0, <1>2, <1>5, <2>2 DEF Spawned
<1>. QED
  BY <1>3, <1>4, <1>5 DEF PoolStep

\* A browser with a permit that neither launches nor is in the dictionary has
\* returned its permit.
LEMMA StrayIsReleased ==
  ASSUME PInv, NEW br \in Browsers, permit[br] # "none",
         ~Launching(br), br \notin InUse
  PROVE  permit[br] = "returned"
<1>1. ASSUME br \in Held
      PROVE  FALSE
  <2>1. PICK c \in Conns : Starting(c, br) \/ Using(c, br)
    BY <1>1 DEF PInv, IInv, NoAbandonedBrowser
  <2>2. Active(c) /\ browser[c] = br
    BY <2>1 DEF Starting, Using, Active
  <2>3. busy_browsers[bid[c]] = br /\ bid[c] \in Bids
    BY <2>2, OwnBrowser DEF PInv, Private, OwnTracked
  <2>. QED
    BY <2>3, PInvTypes DEF InUse
<1>. QED
  BY <1>1, PInvTypes DEF Held

\* Nobody launches or uses a browser that has returned its permit.
LEMMA ReleasedIsIdle ==
  ASSUME PInv, NEW br \in Browsers, permit[br] = "returned"
  PROVE  ~Launching(br) /\ ProxyingOn(br) = {}
<1>1. ~Launching(br)
  BY PInvTypes DEF Known, Launching, LaunchOwned, Held
<1>2. ASSUME NEW c \in ProxyingOn(br)
      PROVE  FALSE
  BY <1>2, OwnBrowser DEF ProxyingOn, Active, Held
<1>. QED
  BY <1>1, <1>2

\* One round of the task's loops, which kills at most one of the victims.
LEMMA ContinueStep ==
  ASSUME PInv, CleanerTypeOK, Spawned, UNCHANGED vars,
         NEW snapshot \in SUBSET Browsers, NEW victims \in SUBSET Browsers,
         victims \subseteq maybe_out_of_control_pids \cap Alive,
         \A br \in victims : permit[br] = "returned",
         Continue(snapshot, victims)
  PROVE  /\ CleanerTypeOK' /\ Spawned' /\ TodoReleased'
         /\ \A br \in Alive :
              proc'[br] = "dead" => ~Launching(br) /\ ProxyingOn(br) = {}
<1>0. /\ proc \in [Browsers -> {"none", "alive", "dead"}]
      /\ maybe_out_of_control_pids \subseteq Browsers
      /\ permit' = permit
  BY DEF CleanerTypeOK, vars, poolVars
<1>1. CASE victims = {}
  <2>1. /\ inuse_pids' = snapshot /\ todo' = {} /\ cleaner' = "idle"
        /\ maybe_out_of_control_pids' = Strays(snapshot) /\ proc' = proc
    BY <1>1 DEF Continue
  <2>. QED
    BY <1>0, <2>1 DEF CleanerTypeOK, Spawned, TodoReleased, Strays, Alive
<1>2. CASE victims # {}
  <2>1. PICK br \in victims : /\ proc' = [proc EXCEPT ![br] = "dead"]
                              /\ todo' = victims \ {br}
                              /\ cleaner' = "killing"
                              /\ UNCHANGED maybe_out_of_control_pids
                              /\ inuse_pids' = snapshot
    BY <1>2 DEF Continue
  <2>2. br \in Browsers /\ permit[br] = "returned"
    BY <2>1
  <2>3. CleanerTypeOK'
    BY <1>0, <2>1, <2>2 DEF CleanerTypeOK
  <2>4. Spawned' /\ TodoReleased'
    BY <1>0, <2>1, <2>2 DEF Spawned, TodoReleased
  <2>5. \A x \in Alive : proc'[x] = "dead" => x = br
    BY <1>0, <2>1 DEF Alive
  <2>. QED
    BY <2>2, <2>3, <2>4, <2>5, ReleasedIsIdle
<1>. QED
  BY <1>1, <1>2

\* A run of the task, and a run that goes on after a sleep.
LEMMA CleanerStep ==
  ASSUME CInv, ~SlowLaunch, UNCHANGED vars, CleanerRuns \/ CleanerResumes
  PROVE  /\ CleanerTypeOK' /\ Spawned' /\ TodoReleased'
         /\ \A br \in Alive :
              proc'[br] = "dead" => ~Launching(br) /\ ProxyingOn(br) = {}
<1>0. /\ PInv /\ CleanerTypeOK /\ Spawned /\ TodoReleased
      /\ maybe_out_of_control_pids \subseteq Browsers
      /\ inuse_pids \subseteq Browsers /\ todo \subseteq Browsers
      /\ todo \subseteq maybe_out_of_control_pids
  BY DEF CInv, CleanerTypeOK
<1>1. CASE CleanerRuns
  <2>1. InUse \subseteq Browsers
    BY <1>0, PInvTypes DEF InUse
  <2>2. /\ Victims(InUse) \subseteq maybe_out_of_control_pids \cap Alive
        /\ Victims(InUse) \subseteq Browsers
    BY <1>0 DEF Victims
  <2>3. ASSUME NEW br \in Victims(InUse)
        PROVE  permit[br] = "returned"
    <3>1. br \in Browsers /\ br \notin InUse /\ ~Launching(br)
      BY <1>0, <1>1, <2>2 DEF Victims, CleanerRuns
    <3>2. permit[br] # "none"
      BY <1>0, <2>2, <3>1 DEF Spawned, Alive
    <3>. QED
      BY <1>0, <3>1, <3>2, StrayIsReleased
  <2>4. Continue(InUse, Victims(InUse))
    BY <1>1 DEF CleanerRuns
  <2>. QED
    BY <1>0, <2>1, <2>2, <2>3, <2>4, ContinueStep
<1>2. CASE CleanerResumes
  <2>1. cleaner = "killing" /\ Continue(inuse_pids, todo \cap Alive)
    BY <1>2 DEF CleanerResumes
  <2>2. /\ todo \cap Alive \subseteq maybe_out_of_control_pids \cap Alive
        /\ todo \cap Alive \subseteq Browsers
        /\ \A br \in todo \cap Alive : permit[br] = "returned"
    BY <1>0, <2>1 DEF TodoReleased
  <2>. QED
    BY <1>0, <2>1, <2>2, ContinueStep
<1>. QED
  BY <1>1, <1>2

\* What is about the processes and the task is preserved by every step.
LEMMA CleanerInvStep ==
  ASSUME CInv, ~SlowLaunch, [CleanerNext]_allVars
  PROVE  CleanerTypeOK' /\ Spawned' /\ TodoReleased'
<1>0. PInv /\ CleanerTypeOK /\ Spawned /\ TodoReleased
  BY DEF CInv
<1>1. CASE ~exited /\ PoolStep /\ UNCHANGED cleanerVars
  <2>1. proc' \in [Browsers -> {"none", "alive", "dead"}] /\ Spawned'
    BY <1>0, <1>1, ProcessStep
  <2>2. [Next]_vars
    BY <1>1, Zenon DEF PoolStep, Next, Dispatcher, Worker
  <2>3. \A br \in Browsers :
          permit[br] = "returned" => permit'[br] = "returned"
    BY <1>0, <2>2, PermitsOnlyAdvance
  <2>4. CleanerTypeOK'
    BY <1>0, <1>1, <2>1 DEF CleanerTypeOK, cleanerVars
  <2>5. TodoReleased'
    BY <1>0, <1>1, <2>3 DEF TodoReleased, cleanerVars, CleanerTypeOK
  <2>. QED
    BY <2>1, <2>4, <2>5
<1>2. CASE (CleanerRuns \/ CleanerResumes) /\ UNCHANGED vars
  BY <1>2, CleanerStep
<1>3. ASSUME NEW br \in Browsers, ProcessDies(br),
             UNCHANGED <<vars, cleanerVars>>
      PROVE  CleanerTypeOK' /\ Spawned' /\ TodoReleased'
  <2>1. permit' = permit /\ proc[br] = "alive"
        /\ proc' = [proc EXCEPT ![br] = "dead"] /\ UNCHANGED cleanerVars
    BY <1>3 DEF ProcessDies, vars, poolVars
  <2>. QED
    BY <1>0, <2>1 DEF CleanerTypeOK, Spawned, TodoReleased, cleanerVars
<1>4. CASE UNCHANGED allVars
  BY <1>0, <1>4 DEF allVars, vars, poolVars, cleanerVars, CleanerTypeOK,
                    Spawned, TodoReleased
<1>. QED
  BY <1>1, <1>2, <1>3, <1>4 DEF CleanerNext
-----------------------------------------------------------------------------
(* The theorems                                                             *)

\* Processes, crashes of Chrome and the cleaning task never make the pool do
\* what BrowserPool does not allow: what is proved of the pool holds of the
\* composition.
THEOREM CleanerImplementsPool == CleanerSpec => Spec
<1>1. CleanerInit => Init
  BY DEF CleanerInit
<1>2. [CleanerNext]_allVars => [Next]_vars
  BY PoolOrNot
<1>. QED
  BY <1>1, <1>2, PTL DEF CleanerSpec, Spec

\* The invariant of pool, processes and task.
THEOREM CleanerInvariance ==
  ASSUME ~SharedBids, ~SlowLaunch
  PROVE  CleanerSpec => []CInv
<1>1. CleanerInit => CleanerTypeOK /\ Spawned /\ TodoReleased
  BY DEF CleanerInit, CleanerTypeOK, Spawned, TodoReleased
<1>2. PInv /\ CleanerTypeOK /\ Spawned /\ TodoReleased => CInv
  BY DEF CInv
<1>3. CInv /\ [CleanerNext]_allVars
        => (CleanerTypeOK /\ Spawned /\ TodoReleased)'
  BY CleanerInvStep
<1>. QED
  BY <1>1, <1>2, <1>3, CleanerImplementsPool, PrivateInvariance, PTL
     DEF CleanerSpec

\* The task's lists name processes, and what it has still to kill is among
\* what the run before noted.
THEOREM CleanerTypeCorrect ==
  ASSUME ~SharedBids, ~SlowLaunch
  PROVE  CleanerSpec => []CleanerTypeOK
<1>1. CInv => CleanerTypeOK
  BY DEF CInv
<1>. QED
  BY <1>1, CleanerInvariance, PTL

\* If no launch outlasts two runs of the task, every process it kills is out of
\* control, although it decides before it sleeps and kills after it slept.
THEOREM KillsOnlyWhatIsOutOfControl ==
  ASSUME ~SharedBids, ~SlowLaunch
  PROVE  CleanerSpec => KillsOnlyOutOfControl
<1>1. ASSUME CInv, [CleanerNext]_allVars
      PROVE  \A br \in Alive :
               proc'[br] = "dead" /\ cleanerVars' # cleanerVars
                 => ~Launching(br) /\ ProxyingOn(br) = {}
  <2>1. CASE (CleanerRuns \/ CleanerResumes) /\ UNCHANGED vars
    BY <1>1, <2>1, CleanerStep
  <2>2. CASE UNCHANGED cleanerVars
    BY <2>2
  <2>. QED
    BY <1>1, <2>1, <2>2 DEF CleanerNext, allVars
<1>. QED
  BY <1>1, CleanerInvariance, PTL DEF CleanerSpec, KillsOnlyOutOfControl

-----------------------------------------------------------------------------
(* What is left running                                                     *)

\* The process outlived the release of its browser.
LeftRunning(br) == proc[br] = "alive" /\ permit[br] = "returned"

\* The task will kill it: in its next run, or in the one under way.
Noted(br) ==
  /\ br \in maybe_out_of_control_pids
  /\ cleaner = "killing" => br \in todo

\* The run under way, if there is one, does not take it for one in use.
Exposed(br) == cleaner = "idle" \/ br \notin inuse_pids

\* Nothing brings its browser back.
LEMMA LeftStaysLeft ==
  ASSUME PInv, CleanerTypeOK, [CleanerNext]_allVars,
         NEW br \in Browsers, LeftRunning(br)
  PROVE  proc'[br] = "dead" \/ LeftRunning(br)'
<1>0. /\ proc \in [Browsers -> {"none", "alive", "dead"}]
      /\ proc[br] = "alive" /\ permit[br] = "returned"
  BY DEF CleanerTypeOK, LeftRunning
<1>1. permit'[br] = "returned"
  BY <1>0, PoolOrNot, PermitsOnlyAdvance
<1>2. CASE PoolStep
  <2>1. ASSUME Spawn
        PROVE  proc'[br] \in {"alive", "dead"}
    BY <1>0, <2>1 DEF Spawn
  <2>2. ASSUME NEW c \in Conns,
               proc' \in {proc, [proc EXCEPT ![browser[c]] = "dead"]}
        PROVE  proc'[br] \in {"alive", "dead"}
    BY <1>0, <2>2
  <2>3. \/ Spawn \/ UNCHANGED proc
        \/ \E c \in Conns : proc' \in {proc, [proc EXCEPT ![browser[c]] = "dead"]}
    BY <1>2 DEF PoolStep
  <2>4. proc'[br] \in {"alive", "dead"}
    BY <1>0, <2>1, <2>2, <2>3
  <2>. QED
    BY <1>1, <2>4 DEF LeftRunning
<1>3. CASE CleanerRuns \/ CleanerResumes
  <2>1. proc' = proc \/ \E x : proc' = [proc EXCEPT ![x] = "dead"]
    BY <1>3 DEF CleanerRuns, CleanerResumes, Continue
  <2>. QED
    BY <1>0, <1>1, <2>1 DEF LeftRunning
<1>4. CASE \E x \in Browsers : ProcessDies(x)
  BY <1>0, <1>1, <1>4 DEF ProcessDies, LeftRunning
<1>5. CASE UNCHANGED allVars
  BY <1>0, <1>1, <1>5 DEF allVars, LeftRunning
<1>. QED
  BY <1>2, <1>3, <1>4, <1>5 DEF CleanerNext

\* The task's steps, and what they mean for such a process.
LEMMA TaskFindsLeft ==
  ASSUME CInv, UNCHANGED vars, CleanerRuns \/ CleanerResumes,
         NEW br \in Browsers, LeftRunning(br)
  PROVE  /\ Noted(br) => /\ Noted(br)' \/ proc'[br] = "dead"
                         /\ \E x \in Alive : proc'[x] = "dead"
         /\ Exposed(br) => /\ br \notin inuse_pids'
                           /\ cleaner' = "idle" => Noted(br)'
<1>0. /\ proc \in [Browsers -> {"none", "alive", "dead"}]
      /\ br \in Alive /\ permit[br] = "returned" /\ br \notin InUse
      /\ cleaner \in {"idle", "killing"}
      /\ todo \subseteq maybe_out_of_control_pids
  <2>1. \A b \in Bids : busy_browsers[b] # None => busy_browsers[b] \in Held
    BY PInvTypes DEF CInv, Known, TrackedHoldPermit
  <2>2. br \notin InUse
    BY <2>1, PInvTypes DEF CInv, InUse, Held, LeftRunning
  <2>. QED
    BY <2>2 DEF CInv, CleanerTypeOK, LeftRunning, Alive
<1>1. PICK snapshot, victims :
        /\ Continue(snapshot, victims)
        /\ victims \subseteq Alive \cap maybe_out_of_control_pids
        /\ \/ cleaner = "idle" /\ snapshot = InUse /\ victims = Victims(InUse)
           \/ /\ cleaner = "killing" /\ snapshot = inuse_pids
              /\ victims = todo \cap Alive
  <2>1. CASE CleanerRuns
    BY <2>1 DEF CleanerRuns, Victims
  <2>2. CASE CleanerResumes
    BY <1>0, <2>2 DEF CleanerResumes
  <2>. QED
    BY <2>1, <2>2
<1>2. ASSUME Noted(br)
      PROVE  /\ Noted(br)' \/ proc'[br] = "dead"
             /\ \E x \in Alive : proc'[x] = "dead"
  <2>1. br \in victims
    BY <1>0, <1>1, <1>2 DEF Noted, Victims
  <2>2. PICK x \in victims : /\ proc' = [proc EXCEPT ![x] = "dead"]
                             /\ todo' = victims \ {x}
                             /\ cleaner' = "killing"
                             /\ UNCHANGED maybe_out_of_control_pids
    BY <1>1, <2>1 DEF Continue
  <2>. QED
    BY <1>0, <1>1, <1>2, <2>1, <2>2 DEF Noted, Alive
<1>3. ASSUME Exposed(br)
      PROVE  br \notin inuse_pids' /\ (cleaner' = "idle" => Noted(br)')
  <2>1. br \notin snapshot /\ inuse_pids' = snapshot
    BY <1>0, <1>1, <1>3 DEF Exposed, Continue
  <2>2. cleaner' = "idle" => maybe_out_of_control_pids' = Alive \ snapshot
    BY <1>1 DEF Continue, Strays
  <2>. QED
    BY <1>0, <2>1, <2>2 DEF Noted
<1>. QED
  BY <1>2, <1>3

\* What a step does about it.
Pursued(br) ==
  /\ Noted(br) => /\ (LeftRunning(br) /\ Noted(br))' \/ proc'[br] = "dead"
                  /\ cleanerVars' # cleanerVars
                       => \E x \in Alive : proc'[x] = "dead"
  /\ Exposed(br) => \/ proc'[br] = "dead"
                    \/ /\ LeftRunning(br)' /\ Exposed(br)'
                       /\ cleanerVars' # cleanerVars /\ cleaner' = "idle"
                            => Noted(br)'

\* The safety part of OutOfControlIsKilled: a process left running is noted by
\* the first run that begins after its release; once noted it stays so until it
\* is dead, and no step of the task passes without killing a process meanwhile.
THEOREM LeftIsNotedAndKilled ==
  ASSUME ~SharedBids, ~SlowLaunch
  PROVE  CleanerSpec =>
           [][\A br \in Browsers : LeftRunning(br) => Pursued(br)]_allVars
<1>1. ASSUME CInv, [CleanerNext]_allVars, NEW br \in Browsers, LeftRunning(br)
      PROVE  Pursued(br)
  <2>1. proc'[br] = "dead" \/ LeftRunning(br)'
    BY <1>1, LeftStaysLeft DEF CInv
  <2>2. CASE UNCHANGED cleanerVars
    BY <2>1, <2>2 DEF cleanerVars, Pursued, Noted, Exposed
  <2>3. CASE UNCHANGED vars /\ (CleanerRuns \/ CleanerResumes)
    BY <1>1, <2>1, <2>3, TaskFindsLeft DEF Pursued, Exposed
  <2>. QED
    BY <1>1, <2>2, <2>3 DEF CleanerNext, allVars
<1>2. CInv /\ [CleanerNext]_allVars
        => [\A br \in Browsers : LeftRunning(br) => Pursued(br)]_allVars
  BY <1>1
<1>. QED
  BY <1>2, CleanerInvariance, PTL DEF CleanerSpec
=============================================================================
