----------------------------- MODULE AgentProcess -----------------------------
(***************************************************************************)
(* The life of an agent's processes: the parent that forks them one after  *)
(* the other (run_agent.py), the child from agent_main to teardown_process *)
(* and its signal handler (browser_agent/entry.py), and its background     *)
(* tasks (background_tasks.py, utils/background_task_mgr.py), whose        *)
(* heartbeats the api server authorises by its caches: see AuthCache.      *)
(*                                                                         *)
(* The lease of the slot and lost requests are in AgentSlot; here the slot *)
(* is free whenever the child asks for it.                                 *)
(***************************************************************************)
EXTENDS AuthCache

CONSTANTS
  HB,     \* the child's heartbeat, one of the requests
  Slot,   \* the id of the agent table it binds to
  TRIES   \* range(3) in do_heart_beat

ASSUME ProcessAssumption ==
  /\ HB \in Requests /\ Slot \in AgentIds
  /\ TRIES \in Nat \ {0}

VARIABLES
  parent,     \* where the loop of run_agent.py is; "interrupted" when an interrupt
              \* met its try or no child, "escaped" when it met neither
  child,      \* where the forked process is
  asked,      \* history: a signal for it came since its handlers are there
  soft_exit,  \* ASV.soft_exit
  exiting,    \* BackgroundTaskManager._soft_exit
  beat,       \* BgtCheckAndUpdateAgentStatus, "none" without a manager
  try         \* iteration of the loop in do_heart_beat

childVars == <<child, asked, soft_exit, exiting, beat, try>>
vars == <<authVars, parent, childVars>>

ChildTypeOK ==
  /\ parent \in {"forking", "forked", "waiting", "interrupted", "escaped"}
  /\ child \in {"none", "starting", "binding", "serving", "stopping"}
  /\ asked \in BOOLEAN /\ soft_exit \in BOOLEAN /\ exiting \in BOOLEAN
  /\ beat \in {"none", "asleep", "beating", "retrying", "failed"}
  /\ try \in 0 .. TRIES

ProcessTypeOK == AuthTypeOK /\ ChildTypeOK

Init ==
  /\ AuthInit
  /\ parent = "forking"
  /\ child = "none"
  /\ asked = FALSE /\ soft_exit = FALSE /\ exiting = FALSE
  /\ beat = "none"
  /\ try = 0

-----------------------------------------------------------------------------
(* The parent                                                               *)

Fork ==
  /\ parent = "forking"
  /\ parent' = "forked"
  /\ child' = "starting"
  /\ UNCHANGED <<authVars, asked, soft_exit, exiting, beat, try>>

\* The try around waitpid, some instructions later.
AwaitChild ==
  /\ parent = "forked"
  /\ parent' = "waiting"
  /\ UNCHANGED <<authVars, childVars>>

\* waitpid returns, and the loop goes on.
Reap ==
  /\ parent = "waiting" /\ child = "none"
  /\ parent' = "forking"
  /\ UNCHANGED <<authVars, childVars>>

-----------------------------------------------------------------------------
(* The child                                                                *)

\* The child's memory is gone.
Forget ==
  /\ child' = "none"
  /\ asked' = FALSE /\ soft_exit' = FALSE /\ exiting' = FALSE
  /\ beat' = "none" /\ try' = 0
  /\ Leave(HB)

\* agent_main adds the signal handlers and begins to ask for a slot.
Start ==
  /\ child = "starting"
  /\ child' = "binding"
  /\ UNCHANGED <<authVars, parent, asked, soft_exit, exiting, beat, try>>

\* bind_self_to_agent_slot does not look at soft_exit.  A new manager starts
\* both tasks.
Bind ==
  /\ child = "binding" /\ record[Slot] = "present"
  /\ child' = "serving"
  /\ beat' = "asleep"
  /\ UNCHANGED <<authVars, parent, asked, soft_exit, exiting, try>>

\* The request to bind raises: to the finally clause, without a slot.
BindFails ==
  /\ child = "binding"
  /\ child' = "stopping"
  /\ UNCHANGED <<authVars, parent, asked, soft_exit, exiting, beat, try>>

\* agent_main sees soft_exit within a second.
Stop ==
  /\ child = "serving" /\ soft_exit
  /\ child' = "stopping"
  /\ UNCHANGED <<authVars, parent, asked, soft_exit, exiting, beat, try>>

\* teardown_process: remove_agent, while the tasks go on ...
RemoveSlot ==
  /\ child = "stopping" /\ beat # "none"
  /\ Withdraw(Slot)
  /\ UNCHANGED <<parent, childVars>>

\* ... and, after its answer or an error, the end of the process.  The thread of
\* signal_handler ends itself only.
End ==
  /\ child = "stopping"
  /\ Forget
  /\ UNCHANGED parent

Crash ==
  /\ child # "none"
  /\ Forget
  /\ UNCHANGED parent

-----------------------------------------------------------------------------
(* Signals                                                                  *)

SetSoftExitWrong ==
  /\ soft_exit' = (soft_exit \/ beat # "none")
  /\ exiting' = (exiting \/ beat # "none")

\* set_soft_exit: without a manager its second line raises, after the first.
SetSoftExit ==
  /\ soft_exit' = TRUE
  /\ exiting' = (exiting \/ beat # "none")

\* SIGINT or SIGTERM: before its handlers are there, it ends the process.
SignalChild ==
  \/ child = "none" /\ UNCHANGED <<authVars, childVars>>
  \/ child = "starting" /\ Forget
  \/ /\ child \in {"binding", "serving", "stopping"}
     /\ SetSoftExit
     /\ asked' = TRUE
     /\ UNCHANGED <<authVars, child, beat, try>>

Signal == child # "none" /\ SignalChild /\ UNCHANGED parent

PassOnWrong == UNCHANGED <<authVars, childVars>>

\* The except clause kills the child with SIGTERM.
PassOn == SignalChild

\* SIGINT to the parent.  It escapes main when it comes between fork and try, or
\* as a second one in the except clause, and the child hears of nothing; so it
\* does between waitpid and fork, when there is no child.
Interrupt ==
  \/ /\ parent = "waiting"
     /\ parent' = "interrupted"
     /\ PassOn
  \/ /\ parent \in {"forked", "waiting"}
     /\ parent' = "escaped"
     /\ UNCHANGED <<authVars, childVars>>
  \/ /\ parent = "forking"
     /\ parent' = "interrupted"
     /\ UNCHANGED <<authVars, childVars>>

-----------------------------------------------------------------------------
(* The background tasks                                                     *)

\* After the interval of the task, or a second after a failed try.
SendHeartbeat ==
  /\ beat = "retrying" \/ (beat = "asleep" /\ ~exiting)
  /\ Ask(HB, <<Token, Slot>>)
  /\ beat' = "beating" /\ try' = try + 1
  /\ UNCHANGED <<parent, child, asked, soft_exit, exiting>>

\* update_agent_last_ack_time; 0 if no record matched or the database failed.
HeartbeatAnswered ==
  /\ beat = "beating" /\ auth[HB] = "accepted"
  /\ Leave(HB)
  /\ \/ record[Slot] = "present" /\ UNCHANGED <<soft_exit, exiting>>
     \/ SetSoftExit
  /\ beat' = "asleep" /\ try' = 0
  /\ UNCHANGED <<parent, child, asked>>

GiveUpWrong == UNCHANGED <<soft_exit, exiting>>

GiveUp == SetSoftExit

LastTryWrong == try > TRIES

LastTry == try = TRIES

\* Not authorised, or the connection broke: once more, or the agent stops.
HeartbeatFails ==
  /\ beat = "beating"
  /\ Leave(HB)
  /\ IF LastTry
     THEN GiveUp /\ beat' = "asleep" /\ try' = 0
     ELSE beat' = "retrying" /\ UNCHANGED <<soft_exit, exiting, try>>
  /\ UNCHANGED <<parent, child, asked>>

\* check_agent_idel finds the pool idle for long.
IdleExit ==
  /\ beat = "asleep" /\ child = "serving"
  /\ SetSoftExit
  /\ UNCHANGED <<authVars, parent, child, asked, beat, try>>

\* _interval_task_wrapper ends; task.cancle() raises, which ends it as well.
TaskEnds ==
  /\ exiting /\ beat = "asleep"
  /\ beat' = "failed"
  /\ UNCHANGED <<authVars, parent, child, asked, soft_exit, exiting, try>>

-----------------------------------------------------------------------------
ApiServerStep ==
  /\ TableStep \/ Authorise(HB) \/ \E r \in Requests \ {HB} : RequestStep(r)
  /\ UNCHANGED <<parent, childVars>>

Answered == HeartbeatAnswered \/ (auth[HB] = "refused" /\ HeartbeatFails)

Next ==
  \/ Fork \/ AwaitChild \/ Reap
  \/ Start \/ Bind \/ BindFails \/ Stop \/ RemoveSlot \/ End \/ Crash
  \/ Signal \/ Interrupt
  \/ SendHeartbeat \/ HeartbeatAnswered \/ HeartbeatFails \/ IdleExit \/ TaskEnds
  \/ ApiServerStep

Spec == Init /\ [][Next]_vars

\* The child's event loop goes on, the api server answers or the client gives up.
Fairness ==
  /\ WF_vars(Stop) /\ WF_vars(End)
  /\ WF_vars(SendHeartbeat) /\ WF_vars(Answered)
  /\ WF_vars(Authorise(HB) /\ UNCHANGED <<parent, childVars>>)

LiveSpec == Spec /\ Fairness
-----------------------------------------------------------------------------
(* Properties                                                               *)

\* No signal is forgotten, not even one that comes while the child has neither a
\* slot nor background tasks: once it serves, it stops.
AskedChildEnds == (asked /\ child \in {"serving", "stopping"}) ~> (child = "none")

\* An agent whose record was removed does not go on serving, whether the caches
\* still recognise it (the heartbeat answers 0) or not (it is refused).
RemovedAgentStops ==
  (child = "serving" /\ record[Slot] = "deleted") ~> (child # "serving")

\* Who interrupts the parent while it waits for its child leaves none behind that
\* does not know of it, however far the child has come and whatever it does; and
\* between two children there is none to be told.  Not so between fork and try.
InterruptReachesChild == parent = "interrupted" => child = "none" \/ asked
=============================================================================
