----------------------------- MODULE ThreadPool -----------------------------
(***************************************************************************)
(* ThreadPoolExecutor as a whole: the workers and users around the work    *)
(* queue, and the timer thread around the delayed one.  They meet in       *)
(* Schedule(), which the timer thread calls like a user, and have their    *)
(* own mutex and condition variable each; a behaviour follows one of them. *)
(***************************************************************************)
EXTENDS ThreadPoolExecutor, ThreadPoolTimer

VARIABLE part

poolVars == <<part, vars, timerVars>>

(* The part that is not the behaviour's stands at its beginning. *)
PoolInit ==
  /\ part \in {"work", "timer"}
  /\ Init /\ TimerInit
  /\ part = "timer" => ops = CHOOSE p \in Programs : TRUE
  /\ part = "work" => capacity = CHOOSE n \in Capacities : TRUE

WorkPart == part = "work" /\ Next /\ UNCHANGED <<part, timerVars>>
TimerPart == part = "timer" /\ TimerNext /\ UNCHANGED <<part, vars>>

PoolNext == WorkPart \/ TimerPart

(* The fairness of each part; see its module. *)
PoolFairness ==
  /\ \A w \in Worker : SF_vars(part = "work" /\ WorkerStep(w))
  /\ \A u \in User : SF_vars(part = "work" /\ pc[u] # "idle" /\ UserStep(u))
  /\ WF_timerVars(part = "timer" /\ Tick)
  /\ WF_timerVars(part = "timer" /\ TimerStep)
  /\ SF_timerVars(part = "timer" /\ TimerTimeout)
  /\ \A u \in Caller : WF_timerVars(part = "timer" /\ Notify(u))

PoolSpec == PoolInit /\ [][PoolNext]_poolVars
PoolFairSpec == PoolSpec /\ PoolFairness

=============================================================================
