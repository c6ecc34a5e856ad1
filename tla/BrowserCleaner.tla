---------------------------- MODULE BrowserCleaner ----------------------------
(***************************************************************************)
(* The browser pool together with its operating system processes and the  *)
(* periodic task that kills those that got out of control                  *)
(* (close_out_of_control_browser).                                         *)
(*                                                                         *)
(* A process has the name of the Browser object that launched it: a pid is *)
(* not used twice.  Orphans of agents that exited are not modelled.        *)
(***************************************************************************)
EXTENDS BrowserPool

CONSTANT
  SlowLaunch  \* may a launch outlast two runs of the task, 20 s apart?

ASSUME CleanerAssumption == SlowLaunch \in BOOLEAN

VARIABLES
  proc,       \* the process of each Browser: "none", "alive" or "dead"
  maybe_out_of_control_pids,
  inuse_pids, \* local variable of close_out_of_control_browser
  todo,       \* what its first loop has still to look at
  cleaner     \* "idle", or "killing": it sleeps in _close_process

cleanerVars == <<maybe_out_of_control_pids, inuse_pids, todo, cleaner>>
allVars == <<vars, proc, cleanerVars>>

CleanerTypeOK ==
  /\ proc \in [Browsers -> {"none", "alive", "dead"}]
  /\ maybe_out_of_control_pids \subseteq Browsers
  /\ inuse_pids \subseteq Browsers
  /\ todo \subseteq maybe_out_of_control_pids
  /\ cleaner \in {"idle", "killing"}

CleanerInit ==
  /\ Init
  /\ proc = [br \in Browsers |-> "none"]
  /\ maybe_out_of_control_pids = {}
  /\ inuse_pids = {}
  /\ todo = {}
  /\ cleaner = "idle"

Alive == {br \in Browsers : proc[br] = "alive"}

-----------------------------------------------------------------------------
(* What the steps of the pool do to the processes                           *)

\* Launcher.launch() starts the process first, or fails to.
Spawn ==
  \E state \in {"none", "alive"} :
    proc' = [br \in Browsers |->
               IF permit[br] = "none" /\ permit'[br] # "none" THEN state
               ELSE proc[br]]

\* pyppeteer hides the errors of Browser.close: the process may live on.  So it
\* may when kill raises, which ends the close.  A
\* launch that fails leaves its process alone, as autoClose is off.
PoolStep ==
  \/ /\ TakeRequest \/ PermitAcquired \/ LaunchFails
     /\ Spawn
  \/ /\ LaunchSucceeds
     /\ proc[browser[dispatcher.conn]] # "none"
     /\ UNCHANGED proc
  \/ \E c \in Conns :
       \/ /\ CloseSucceeds(c)
          /\ proc' \in {proc, [proc EXCEPT ![browser[c]] = "dead"]}
       \/ /\ CloseRaises(c)
          /\ \/ proc' = [proc EXCEPT ![browser[c]] = "dead"]
             \/ task'[c] = "unmapping" /\ UNCHANGED proc
       \/ /\ ClientGone(c) \/ StartWorker(c) \/ EndProxy(c) \/ ReleaseBrowser(c)
          /\ UNCHANGED proc
  \/ /\ \/ BindAgent \/ SetSoftExit \/ IdleExit \/ Exit \/ ReplySent
        \/ \E c \in Conns, b \in Bids : Arrive(c, b)
     /\ UNCHANGED proc

\* Chrome crashes or is killed from outside.
ProcessDies(br) ==
  /\ proc[br] = "alive"
  /\ proc' = [proc EXCEPT ![br] = "dead"]

-----------------------------------------------------------------------------
(* close_out_of_control_browser                                             *)

\* The pids of the browsers in the dictionary.
InUse == {busy_browsers[b] : b \in Bids} \ {None}

VictimsWrong(snapshot) == Alive \ snapshot

\* The first loop: what the run before noted and this one does not find in use
\* and psutil still finds.
Victims(snapshot) == (maybe_out_of_control_pids \cap Alive) \ snapshot

StraysWrong(snapshot) == maybe_out_of_control_pids \ snapshot

\* The second loop, over the children of the agent.
Strays(snapshot) == Alive \ snapshot

\* The loops go on with the snapshot taken when the run began, until the next
\* sleep of a second in _close_process or until the run ends.
Continue(snapshot, victims) ==
  /\ inuse_pids' = snapshot
  /\ IF victims = {}
     THEN /\ maybe_out_of_control_pids' = Strays(snapshot)
          /\ todo' = {}
          /\ cleaner' = "idle"
          /\ UNCHANGED proc
     ELSE \E br \in victims :
          /\ proc' = [proc EXCEPT ![br] = "dead"]
          /\ todo' = victims \ {br}
          /\ cleaner' = "killing"
          /\ UNCHANGED maybe_out_of_control_pids

\* The interval is over, and the task manager does not know of a soft exit.
\* Without SlowLaunch, a launch the run before noticed has ended by now.
CleanerRuns ==
  /\ agent_bound /\ ~soft_exit
  /\ cleaner = "idle"
  /\ SlowLaunch \/ \A br \in maybe_out_of_control_pids : ~Launching(br)
  /\ Continue(InUse, Victims(InUse))

\* The sleep is over.
CleanerResumes ==
  /\ cleaner = "killing"
  /\ Continue(inuse_pids, todo \cap Alive)

-----------------------------------------------------------------------------
CleanerNext ==
  \/ /\ ~exited
     /\ PoolStep
     /\ UNCHANGED cleanerVars
  \/ /\ ~exited
     /\ CleanerRuns \/ CleanerResumes
     /\ UNCHANGED vars
  \/ /\ \E br \in Browsers : ProcessDies(br)
     /\ UNCHANGED <<vars, cleanerVars>>

CleanerSpec == CleanerInit /\ [][CleanerNext]_allVars

\* The background task manager runs the task again after every interval, and
\* launches end.
CleanerLiveSpec ==
  /\ CleanerSpec
  /\ WF_allVars(/\ ~exited /\ UNCHANGED vars
                /\ CleanerRuns \/ CleanerResumes)
  /\ WF_allVars(/\ ~exited /\ UNCHANGED cleanerVars
                /\ \/ LaunchSucceeds /\ PoolStep
                   \/ LaunchFails /\ Spawn)

-----------------------------------------------------------------------------
(* Properties                                                               *)

\* browser_pool.py: "check maybe out of control and kill if they were out of
\* control": a process the task kills is not being launched, and no client is
\* proxied to it.  The task looks at the dictionary before it sleeps and kills
\* after it slept.
KillsOnlyOutOfControl ==
  [][\A br \in Alive :
       proc'[br] = "dead" /\ cleanerVars' # cleanerVars
         => ~Launching(br) /\ ProxyingOn(br) = {}]_allVars

\* The docstring: a process whose browser was released or never came up is not
\* left running, unless the agent is about to exit.
OutOfControlIsKilled ==
  \A br \in Browsers :
    (proc[br] = "alive" /\ permit[br] = "returned")
      ~> (proc[br] = "dead" \/ soft_exit)
=============================================================================
