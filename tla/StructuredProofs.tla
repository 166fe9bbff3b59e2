--------------------------- MODULE StructuredProofs ---------------------------
(***************************************************************************)
(* AsyncEvent and what is built on it, for every set of coroutines: no     *)
(* handle is lost or resumed twice; on one thread a TaskGroup joins all    *)
(* its tasks; WhenAll frees nothing that is still used; and WhenAny and    *)
(* WithTimeout have one winner, whose result is there when it is read.     *)
(***************************************************************************)
EXTENDS Structured, CoroutineLemmas

Running == {"run", "wait?", "add", "begin", "set", "end", "done", "call", "wait", "got",
            "start", "sub", "joined", "sleep", "won", "notify"}
Asleep == {"susp", "new", "join"}

(* The event and the stacks, whoever uses it. *)
EventInv ==
  /\ StackInv(Running, Asleep) /\ ListsInv(Asleep)
  /\ waiters_ \in Seq(Coro) /\ Distinct(waiters_)
  /\ Contents(waiters_) \intersect Woken = {}
  /\ Contents(waiters_) \union Woken = {c \in Coro : pc[c] = "susp"}
  /\ signaled_ \in BOOLEAN
  /\ signaled_ => waiters_ = <<>>

(* Only x ever waits, so that a Set() resumes one coroutine at most. *)
OnlyWaiter(x) ==
  /\ \A c \in Coro : pc[c] = "susp" => c = x
  /\ \A c \in Coro : pc[c] = "nest" => to_wake[c] = <<>>

-----------------------------------------------------------------------------
(* The group.  An active coroutine is in user code, in Start() or in        *)
(* co_await; one that is over has run its task's callback.                  *)
Active(c) ==
  pc[c] \in {"run", "add", "begin", "wait?", "susp"} \/ (pc[c] = "nest" /\ after[c] = "run")
Over(c) ==
  pc[c] \in {"set", "end", "wake", "done"} \/ (pc[c] = "nest" /\ after[c] = "end")

GroupRoles ==
  /\ ended \subseteq Task
  /\ \A c \in Coro : \/ pc[c] = "new" /\ c # Owner /\ c \notin ended
                     \/ Active(c) /\ (c = Owner \/ c \in Task \ ended)
                     \/ Over(c) /\ c \in ended
  /\ \A c \in Coro : pc[c] \in {"wait?", "susp"} => c = Owner
  /\ \A c \in Coro : pc[c] = "wake" => after[c] = "end"

(* A task that is about to be started is about to be started once. *)
Starts ==
  /\ child \in [Coro -> Task \union {None}]
  /\ \A c \in Coro : child[c] # None <=> pc[c] \in {"add", "begin"}
  /\ \A c \in Coro : child[c] # None => pc[child[c]] = "new"
  /\ \A c, d \in Coro : c # d /\ child[c] = child[d] => child[c] = None

(* size counts the tasks that are started, or next to be, and not over. *)
Live == {t \in Task : pc[t] # "new" /\ t \notin ended}
Begun == {t \in Task : \E c \in Coro : pc[c] = "begin" /\ child[c] = t}
SizeExact == size = Cardinality(Live \union Begun)

(* On one thread at most one operation is under way, and between operations *)
(* the event is set if and only if no task runs.                            *)
OneThread ==
  /\ \A c, d \in Coro : c # d => pc[c] \in Between \/ pc[d] \in Between
  /\ \A c \in Coro : pc[c] = "add" => ~signaled_
  /\ \A c \in Coro : pc[c] = "set" => ~signaled_ /\ size = 0
  /\ \A c \in Coro : pc[c] = "wake" => signaled_
  /\ (\A c \in Coro : pc[c] \notin {"add", "set"}) => (signaled_ <=> size = 0)
  /\ joined => /\ size = 0 /\ Live = {}
               /\ pc[Owner] \notin {"add", "begin"}

GroupInv ==
  /\ GroupRoles /\ Starts /\ SizeExact /\ OnlyWaiter(Owner)
  /\ joined \in BOOLEAN /\ one_thread \in BOOLEAN
  /\ one_thread => OneThread

-----------------------------------------------------------------------------
(* The race.  A child is past the latch once it has taken its count. *)
Past(c) == pc[c] \in {"end", "done"} \/ (pc[c] = "nest" /\ after[c] = "end")

ChildAt(c) ==
  \/ pc[c] \in {"sleep", "run", "won", "set", "notify"}
  \/ pc[c] \in {"wake", "nest"} /\ after[c] = "notify"
  \/ Past(c)
CallerAt ==
  \/ pc[Caller] \in {"call", "wait", "wait?", "susp", "got", "done"}
  \/ pc[Caller] = "nest" /\ after[Caller] = "wait"
ParentAt ==
  \/ pc[Parent] \in {"new", "start", "sub", "join", "joined", "done"}
  \/ pc[Parent] = "nest" /\ after[Parent] = "start"

RaceRoles ==
  /\ children \subseteq Coro \ {Caller, Parent}
  /\ started \subseteq children
  /\ CallerAt /\ ParentAt
  /\ \A c \in started : ChildAt(c)
  /\ \A c \in Coro \ (started \union {Caller, Parent}) : pc[c] = "new"
  /\ pc[Caller] = "call" => pc[Parent] = "new"

(* The latch counts the children that have not taken theirs, and the        *)
(* parent until TryAwait().                                                 *)
Counted == {c \in children : ~Past(c)}
Subtracted == pc[Parent] \in {"join", "joined", "done"}
LatchInv ==
  /\ count_ = Cardinality(Counted) + (IF Subtracted THEN 0 ELSE 1)
  /\ pc[Parent] = "join" => Counted # {}
  /\ pc[Parent] \in {"joined", "done"} => Counted = {}
  /\ pc[Parent] \in {"sub", "join", "joined", "done"} => awaiting_ = Parent /\ started = children
  /\ freed \in BOOLEAN
  /\ freed => pc[Parent] = "done"

(* The exchange has one winner, which publishes before it sets the event. *)
WinnerInv ==
  /\ first_completed \in BOOLEAN
  /\ result \in children \union {None}
  /\ result # None => first_completed
  /\ signaled_ => result # None
  /\ \A c \in Coro : pc[c] = "won" => first_completed /\ result = None
  /\ \A c, d \in Coro : pc[c] = "won" /\ pc[d] = "won" => c = d
  /\ \A c \in Coro : pc[c] = "set" => result = c
  /\ \A c \in Coro : pc[c] = "wake" => result # None
  /\ pc[Caller] = "got" => result # None
  /\ pc[Caller] = "done" => result # None \/ children = {}

RaceInv ==
  /\ RaceRoles /\ LatchInv /\ WinnerInv /\ OnlyWaiter(Caller)

-----------------------------------------------------------------------------
IndInv ==
  /\ EventInv
  /\ program \in {"event", "group", "race"}
  /\ IF program = "group" THEN GroupInv ELSE one_thread = FALSE
  /\ IF program = "race" THEN RaceInv ELSE children = {} /\ freed = FALSE

-----------------------------------------------------------------------------
(* The event and the stacks *)

(* The labels of the coroutines. *)
LEMMA EventLabels == Labels(Running, Asleep)
  BY DEF Labels, Running, Asleep

(* Nothing is in the empty deque. *)
LEMMA NothingQueued == Contents(<<>>) = {} /\ Distinct(<<>>) /\ <<>> \in Seq(Coro)
  BY DEF Contents, Distinct

(* A deque that holds one coroutine at most is empty once that is taken. *)
LEMMA SingleTail ==
  ASSUME NEW x, NEW q \in Seq(Coro), q # <<>>, Distinct(q), Contents(q) \subseteq {x}
  PROVE  Tail(q) = <<>>
  <1>1. /\ Head(q) \in Contents(q) /\ Tail(q) \in Seq(Coro)
        /\ Contents(Tail(q)) = Contents(q) \ {Head(q)}
    BY PopFrontSets
  <1>2. Contents(Tail(q)) = {}
    BY <1>1
  <1> QED
    BY <1>1, <1>2, EmptyDeque

(* A step that leaves the thread where it is. *)
LEMMA AtEvent ==
  ASSUME EventInv, NEW c \in Coro, pc[c] \in Running, NEW l \in Running,
         pc' = [pc EXCEPT ![c] = l], UNCHANGED <<to_wake, runner, after, waiters_>>,
         signaled_' \in BOOLEAN, signaled_' => waiters_ = <<>>
  PROVE  /\ EventInv'
         /\ \A d \in Coro : pc'[d] = IF d = c THEN l ELSE pc[d]
  <1>1. At(c, l) /\ StackInv(Running, Asleep) /\ ListsInv(Asleep)
    BY DEF At, stack, EventInv
  <1>2. /\ StackInv(Running, Asleep)' /\ ListsInv(Asleep)'
        /\ Woken' = Woken
        /\ \A d \in Coro : pc'[d] = IF d = c THEN l ELSE pc[d]
    BY <1>1, AtInv, EventLabels
  <1>3. {d \in Coro : pc'[d] = "susp"} = {d \in Coro : pc[d] = "susp"}
    BY <1>2 DEF Running
  <1> QED
    BY <1>2, <1>3 DEF EventInv

(* c gives its thread up, and does not wait for the event. *)
LEMMA LeaveEvent ==
  ASSUME EventInv, NEW c \in Coro, pc[c] \in Running,
         NEW l \in Running \union {"join"}, Leave(c, l), UNCHANGED <<signaled_, waiters_>>
  PROVE  /\ EventInv' /\ UNCHANGED <<to_wake, after>>
         /\ pc'[c] = l
         /\ \A d \in Coro \ {c} :
              pc'[d] = IF d # runner[c] THEN pc[d]
                       ELSE IF to_wake[d] = <<>> THEN after[d] ELSE "wake"
         /\ \A d \in Coro : d = runner[c] => pc[d] = "nest" /\ d # c
  <1>1. StackInv(Running, Asleep) /\ ListsInv(Asleep) /\ l \in Running \union Asleep
    BY DEF EventInv, Asleep
  <1>2. /\ StackInv(Running, Asleep)' /\ ListsInv(Asleep)'
        /\ Woken' = Woken
        /\ pc'[c] = l
        /\ \A d \in Coro \ {c} :
             pc'[d] = pc[d] \/ (pc[d] = "nest" /\ pc'[d] \in {after[d], "wake"})
    BY <1>1, LeaveInv, EventLabels
  <1>3. \A d \in Coro : after[d] # "susp" /\ pc[c] # "susp" /\ l # "susp"
    BY <1>1 DEF StackInv, Running
  <1>4. {d \in Coro : pc'[d] = "susp"} = {d \in Coro : pc[d] = "susp"}
    BY <1>2, <1>3
  <1>5. \A d \in Coro : d = runner[c] => pc[d] = "nest" /\ d # c
    BY <1>1, EventLabels, CoroAssumption DEF StackInv, Labels
  <1>6. UNCHANGED <<to_wake, after>> /\ \A d \in Coro \ {c} :
              pc'[d] = IF d # runner[c] THEN pc[d]
                       ELSE IF to_wake[d] = <<>> THEN after[d] ELSE "wake"
    BY DEF Leave
  <1> QED
    BY <1>2, <1>4, <1>5, <1>6 DEF EventInv

(* WaitAwaitable::await_suspend: c queues. *)
LEMMA QueueEvent ==
  ASSUME EventInv, NEW c \in Coro, pc[c] \in Running, ~signaled_,
         waiters_' = Append(waiters_, c), Leave(c, "susp"), UNCHANGED signaled_
  PROVE  /\ EventInv' /\ UNCHANGED <<to_wake, after>>
         /\ pc'[c] = "susp"
         /\ \A d \in Coro \ {c} :
              pc'[d] = IF d # runner[c] THEN pc[d]
                       ELSE IF to_wake[d] = <<>> THEN after[d] ELSE "wake"
         /\ \A d \in Coro : d = runner[c] => pc[d] = "nest" /\ d # c
  <1>1. StackInv(Running, Asleep) /\ ListsInv(Asleep) /\ "susp" \in Running \union Asleep
    BY DEF EventInv, Asleep
  <1>2. /\ StackInv(Running, Asleep)' /\ ListsInv(Asleep)'
        /\ Woken' = Woken
        /\ pc'[c] = "susp"
        /\ \A d \in Coro \ {c} :
             pc'[d] = pc[d] \/ (pc[d] = "nest" /\ pc'[d] \in {after[d], "wake"})
    BY <1>1, LeaveInv, EventLabels
  <1>3. \A d \in Coro : after[d] # "susp" /\ pc[c] # "susp"
    BY <1>1 DEF StackInv, Running
  <1>4. {d \in Coro : pc'[d] = "susp"} = {d \in Coro : pc[d] = "susp"} \union {c}
    BY <1>2, <1>3
  <1>5. c \notin Contents(waiters_) /\ c \notin Woken
    BY <1>3 DEF EventInv
  <1>6. /\ waiters_' \in Seq(Coro) /\ Distinct(waiters_')
        /\ Contents(waiters_') = Contents(waiters_) \union {c}
    BY <1>5, PushBackSets DEF EventInv
  <1>7. \A d \in Coro : d = runner[c] => pc[d] = "nest" /\ d # c
    BY <1>1, EventLabels, CoroAssumption DEF StackInv, Labels
  <1>8. UNCHANGED <<to_wake, after>> /\ \A d \in Coro \ {c} :
              pc'[d] = IF d # runner[c] THEN pc[d]
                       ELSE IF to_wake[d] = <<>> THEN after[d] ELSE "wake"
    BY DEF Leave
  <1>9. EventInv'
    BY <1>2, <1>4, <1>5, <1>6 DEF EventInv
  <1> QED
    BY <1>2, <1>7, <1>8, <1>9

(* Set() takes all the waiters. *)
LEMMA SetEvent ==
  ASSUME EventInv, NEW c \in Coro, pc[c] \in Running, NEW l \in Running, Set(c, l)
  PROVE  /\ EventInv' /\ signaled_' = TRUE
         /\ \A d \in Coro \ {c} : pc'[d] = pc[d] /\ to_wake'[d] = to_wake[d]
                                                 /\ after'[d] = after[d]
         /\ pc'[c] = l \/ (pc'[c] = "wake" /\ after'[c] = l)
  <1>1. signaled_' = TRUE
    BY DEF Set
  <1>2. CASE signaled_
    <2>1. At(c, l) /\ UNCHANGED waiters_
      BY <1>2 DEF Set
    <2>2. /\ EventInv'
          /\ \A d \in Coro : pc'[d] = IF d = c THEN l ELSE pc[d]
      BY <1>1, <1>2, <2>1, AtEvent DEF At, stack, EventInv
    <2> QED
      BY <1>1, <2>1, <2>2 DEF At, stack
  <1>3. CASE ~signaled_
    <2>1. WakeAll(c, waiters_, l) /\ waiters_' = <<>>
      BY <1>3 DEF Set
    <2>2. /\ StackInv(Running, Asleep) /\ ListsInv(Asleep)
          /\ waiters_ \in Seq(Coro) /\ Distinct(waiters_)
          /\ Contents(waiters_) \intersect Woken = {}
          /\ \A w \in Contents(waiters_) : pc[w] \in Asleep
      BY DEF EventInv, Asleep
    <2>3. /\ StackInv(Running, Asleep)' /\ ListsInv(Asleep)'
          /\ Woken' = Woken \union Contents(waiters_)
          /\ pc'[c] = (IF waiters_ = <<>> THEN l ELSE "wake")
          /\ \A d \in Coro \ {c} : pc'[d] = pc[d]
      BY <2>1, <2>2, WakeAllInv, EventLabels
    <2>4. {d \in Coro : pc'[d] = "susp"} = {d \in Coro : pc[d] = "susp"}
      BY <2>3 DEF Running
    <2>5. EventInv'
      BY <1>1, <2>1, <2>3, <2>4, NothingQueued DEF EventInv
    <2>6. /\ \A d \in Coro \ {c} : to_wake'[d] = to_wake[d] /\ after'[d] = after[d]
          /\ after'[c] = l
      BY <2>1, <2>2 DEF WakeAll, StackInv
    <2> QED
      BY <1>1, <2>3, <2>5, <2>6
  <1> QED
    BY <1>2, <1>3 DEF EventInv

(* resume() of the next handle. *)
LEMMA ResumeEvent ==
  ASSUME EventInv, NEW c \in Coro, NEW l \in Running, Resume(c, l)
  PROVE  /\ EventInv' /\ UNCHANGED <<signaled_, waiters_, after>>
         /\ pc[c] = "wake"
         /\ \E w \in Coro : /\ w # c /\ pc[w] = "susp"
                            /\ w = Head(to_wake[c])
                            /\ \A d \in Coro : pc'[d] = IF d = w THEN l
                                                 ELSE IF d = c THEN "nest" ELSE pc[d]
         /\ \A d \in Coro \ {c} : to_wake'[d] = to_wake[d]
         /\ to_wake'[c] = Tail(to_wake[c])
  <1> DEFINE w == Head(to_wake[c])
  <1>1. ResumeTo(c, w, l) /\ UNCHANGED <<signaled_, waiters_>> /\ w = Head(to_wake[c])
    BY DEF Resume, ResumeAt, ResumeTo, event
  <1> HIDE DEF w
  <1>2. StackInv(Running, Asleep) /\ ListsInv(Asleep)
    BY DEF EventInv
  <1>3. /\ pc[c] = "wake" /\ after' = after
        /\ w \in Coro /\ w # c /\ w \in Woken /\ pc[w] \in Asleep
        /\ StackInv(Running, Asleep)' /\ ListsInv(Asleep)'
        /\ Woken' = Woken \ {w}
        /\ \A d \in Coro : pc'[d] = IF d = w THEN l
                                    ELSE IF d = c THEN "nest" ELSE pc[d]
    BY <1>1, <1>2, ResumeInv, EventLabels
  <1>4. pc[w] = "susp" /\ w \notin Contents(waiters_)
    BY <1>3 DEF EventInv
  <1>5. {d \in Coro : pc'[d] = "susp"} = {d \in Coro : pc[d] = "susp"} \ {w}
    BY <1>3 DEF Running
  <1>6. EventInv'
    BY <1>1, <1>3, <1>4, <1>5 DEF EventInv
  <1>7. /\ \A d \in Coro \ {c} : to_wake'[d] = to_wake[d]
        /\ to_wake'[c] = Tail(to_wake[c])
    BY <1>1, <1>2 DEF ResumeTo, StackInv
  <1> QED
    BY <1>1, <1>3, <1>4, <1>6, <1>7

(* c starts, or resumes, w inline. *)
LEMMA InlineEvent ==
  ASSUME EventInv, NEW c \in Coro, pc[c] \in Running,
         NEW w \in Coro, pc[w] \in {"new", "join"},
         NEW l \in Running, NEW next \in Running,
         InlineTo(c, w, l, next), UNCHANGED <<signaled_, waiters_>>
  PROVE  /\ EventInv' /\ w # c
         /\ \A d \in Coro : pc'[d] = IF d = c THEN "nest" ELSE IF d = w THEN l ELSE pc[d]
         /\ \A d \in Coro : after'[d] = IF d = c THEN next ELSE after[d]
  <1>1. /\ StackInv(Running, Asleep) /\ ListsInv(Asleep) /\ pc[w] \in Asleep
        /\ w \notin Woken
    BY DEF EventInv, Asleep
  <1>2. StackInv(Running, Asleep)' /\ ListsInv(Asleep)' /\ Woken' = Woken
    BY <1>1, InlineInv, EventLabels
  <1>3. /\ \A d \in Coro : pc'[d] = IF d = c THEN "nest" ELSE IF d = w THEN l ELSE pc[d]
        /\ \A d \in Coro : after'[d] = IF d = c THEN next ELSE after[d]
        /\ w # c
    BY <1>1 DEF StackInv, Running, InlineTo
  <1>4. {d \in Coro : pc'[d] = "susp"} = {d \in Coro : pc[d] = "susp"}
    BY <1>3 DEF Running
  <1> QED
    BY <1>2, <1>3, <1>4 DEF EventInv

(* The steps of the event by itself. *)
LEMMA EventStepInv ==
  ASSUME EventInv, NEW c \in Coro, EventStep(c)
  PROVE  EventInv'
  <1> USE DEF Running
  <1>1. CASE Wait(c)
    BY <1>1, AtEvent DEF Wait, WaitReady, At, stack, event, EventInv
  <1>2. CASE Suspend(c)
    BY <1>2, AtEvent, QueueEvent DEF Suspend, WaitSuspend, At, stack, EventInv
  <1>3. CASE CallSet(c)
    BY <1>3, SetEvent DEF CallSet
  <1>4. CASE CallReset(c)
    BY <1>4, AtEvent DEF CallReset, Reset, At, stack
  <1>5. CASE ResumeNext(c)
    BY <1>5, ResumeEvent DEF ResumeNext
  <1>6. CASE Yield(c, "run")
    BY <1>6, LeaveEvent DEF Yield, YieldAt, event
  <1> QED
    BY <1>1, <1>2, <1>3, <1>4, <1>5, <1>6 DEF EventStep

-----------------------------------------------------------------------------
(* The group *)

(* size is the number of tasks live or begun; who is to start a task is the *)
(* owner or a live task.                                                    *)
LEMMA GroupFacts ==
  ASSUME GroupInv
  PROVE  /\ IsFiniteSet(Live \union Begun) /\ size \in Nat
         /\ size = 0 <=> Live \union Begun = {}
         /\ Live \intersect Begun = {}
         /\ Owner \in Coro /\ Owner \notin Task /\ Task \subseteq Coro
         /\ \A c \in Coro : pc[c] \in {"run", "add", "begin"} => c = Owner \/ c \in Live
         /\ \A c \in Coro : pc[c] \in {"add", "begin"}
              => child[c] \in Task /\ pc[child[c]] = "new" /\ child[c] # c
  <1>1. Owner \in Coro /\ Owner \notin Task /\ Task \subseteq Coro
    BY TaskGroupAssumption
  <1>2. IsFiniteSet(Live \union Begun)
    <2>1. Live \union Begun \in SUBSET Coro
      BY <1>1 DEF Live, Begun
    <2> QED
      BY <2>1, FS_Subset, CoroAssumption
  <1>3. /\ size \in Nat
        /\ size = 0 <=> Live \union Begun = {}
    BY <1>2, FS_CardinalityType, FS_EmptySet DEF GroupInv, SizeExact
  <1>4. \A c \in Coro : pc[c] \in {"add", "begin"}
              => child[c] \in Task /\ pc[child[c]] = "new" /\ child[c] # c
    BY CoroAssumption DEF GroupInv, Starts
  <1>5. Live \intersect Begun = {}
    BY <1>4 DEF Live, Begun
  <1>6. \A c \in Coro : pc[c] \in {"run", "add", "begin"} => c = Owner \/ c \in Live
    BY DEF GroupInv, GroupRoles, Live, Over
  <1> QED
    BY <1>1, <1>2, <1>3, <1>4, <1>5, <1>6

(* A step that starts and ends no task. *)
LEMMA SameCount ==
  ASSUME GroupInv, UNCHANGED <<size, child, ended>>,
         \A d \in Coro : pc'[d] = "new" <=> pc[d] = "new",
         \A d \in Coro : pc'[d] \in {"add", "begin"} <=> pc[d] \in {"add", "begin"},
         \A d \in Coro : pc'[d] = "begin" <=> pc[d] = "begin"
  PROVE  Live' = Live /\ Begun' = Begun /\ SizeExact' /\ Starts'
  <1>1. Live' = Live /\ Begun' = Begun
    BY GroupFacts DEF Live, Begun
  <1>2. SizeExact'
    BY <1>1 DEF GroupInv, SizeExact
  <1>3. Starts'
    <2>1. \A c \in Coro : child[c] # None => child[c] \in Coro
      BY GroupFacts DEF GroupInv, Starts
    <2> QED
      BY <2>1 DEF GroupInv, Starts
  <1> QED
    BY <1>1, <1>2, <1>3

(* Start(task): event.Reset() *)
LEMMA StartResetInv ==
  ASSUME EventInv, GroupInv, NEW c \in Coro, NEW t \in Task, StartReset(c, t)
  PROVE  EventInv' /\ GroupInv'
  <1>1. /\ HasThread(c) /\ pc[c] = "run" /\ pc[t] = "new" /\ \A d \in Coro : child[d] # t
        /\ signaled_' = FALSE /\ UNCHANGED <<waiters_, to_wake, runner, after>>
        /\ pc' = [pc EXCEPT ![c] = "add"]
        /\ child' = [child EXCEPT ![c] = t]
        /\ joined' = (joined /\ c # Owner)
        /\ UNCHANGED <<size, ended, one_thread>>
    BY DEF StartReset, Reset, At, stack
  <1>2. EventInv' /\ \A d \in Coro : pc'[d] = IF d = c THEN "add" ELSE pc[d]
    BY <1>1, AtEvent DEF Running
  <1>3. t \in Coro /\ t # c /\ t # None
    BY <1>1, GroupFacts, CoroAssumption
  <1>4. GroupRoles'
    BY <1>1, <1>2 DEF GroupInv, GroupRoles, Active, Over
  <1>5. Starts'
    <2>1. /\ child' \in [Coro -> Task \union {None}]
          /\ \A d \in Coro : child'[d] = IF d = c THEN t ELSE child[d]
      BY <1>1 DEF GroupInv, Starts
    <2>2. \A d \in Coro : d # c /\ child[d] # None => pc'[child[d]] = "new"
      BY <1>1, <1>2, GroupFacts DEF GroupInv, Starts
    <2>3. \A d \in Coro : child'[d] # None <=> pc'[d] \in {"add", "begin"}
      BY <1>2, <1>3, <2>1 DEF GroupInv, Starts
    <2>4. \A d \in Coro : child'[d] # None => pc'[child'[d]] = "new"
      BY <1>1, <1>2, <1>3, <2>1, <2>2
    <2>5. \A d, e \in Coro : d # e /\ child'[d] = child'[e] => child'[d] = None
      BY <1>1, <2>1 DEF GroupInv, Starts
    <2> QED
      BY <2>1, <2>3, <2>4, <2>5 DEF Starts
  <1>6. Live' = Live /\ Begun' = Begun
    <2>1. \A d \in Coro : pc'[d] = "begin" => pc[d] = "begin" /\ child'[d] = child[d]
      BY <1>1, <1>2 DEF GroupInv, Starts
    <2>2. \A d \in Coro : pc[d] = "begin" => pc'[d] = "begin" /\ child'[d] = child[d]
      BY <1>1, <1>2 DEF GroupInv, Starts
    <2> QED
      BY <1>1, <1>2, <2>1, <2>2, GroupFacts DEF Live, Begun
  <1>7. SizeExact'
    BY <1>1, <1>6 DEF GroupInv, SizeExact
  <1>8. OnlyWaiter(Owner)'
    BY <1>1, <1>2 DEF GroupInv, OnlyWaiter
  <1>9. joined' \in BOOLEAN /\ one_thread' \in BOOLEAN
    BY <1>1 DEF GroupInv
  <1>10. one_thread' => OneThread'
    <2> SUFFICES ASSUME one_thread PROVE OneThread'
      BY <1>1
    <2>1. OneThread /\ \A d \in Coro \ {c} : pc[d] \in Between /\ pc'[d] = pc[d]
      BY <1>1, <1>2 DEF GroupInv, HasThread
    <2>2. joined' = FALSE
      BY <1>1, <2>1, GroupFacts DEF OneThread
    <2> QED
      BY <1>1, <1>2, <2>1, <2>2 DEF OneThread, Between
  <1> QED
    BY <1>2, <1>4, <1>5, <1>7, <1>8, <1>9, <1>10 DEF GroupInv

(* Start(task): size.fetch_add(1) *)
LEMMA StartAddInv ==
  ASSUME EventInv, GroupInv, NEW c \in Coro, StartAdd(c)
  PROVE  EventInv' /\ GroupInv'
  <1>1. /\ HasThread(c) /\ pc[c] = "add" /\ size' = size + 1
        /\ pc' = [pc EXCEPT ![c] = "begin"]
        /\ UNCHANGED <<signaled_, waiters_, to_wake, runner, after, child, ended, joined,
                       one_thread>>
    BY DEF StartAdd, At, stack, event
  <1>2. EventInv' /\ \A d \in Coro : pc'[d] = IF d = c THEN "begin" ELSE pc[d]
    BY <1>1, AtEvent DEF Running, EventInv
  <1>3. child[c] \in Task /\ pc[child[c]] = "new" /\ child[c] # c /\ child[c] # None
    BY <1>1, GroupFacts DEF GroupInv, Starts
  <1>4. GroupRoles'
    BY <1>1, <1>2 DEF GroupInv, GroupRoles, Active, Over
  <1>5. Starts'
    <2>1. \A d \in Coro : child[d] # None => child[d] \in Coro
      BY GroupFacts DEF GroupInv, Starts
    <2> QED
      BY <1>1, <1>2, <2>1 DEF GroupInv, Starts
  <1>6. Live' = Live /\ Begun' = Begun \union {child[c]}
    BY <1>1, <1>2, <1>3, GroupFacts DEF Live, Begun
  <1>7. child[c] \notin Live \union Begun
    BY <1>1, <1>3 DEF GroupInv, Starts, Live, Begun
  <1>8. SizeExact' /\ size \in Nat
    <2>1. Cardinality((Live \union Begun) \union {child[c]}) = Cardinality(Live \union Begun) + 1
      BY <1>7, GroupFacts, FS_AddElement
    <2>2. (Live \union Begun)' = (Live \union Begun) \union {child[c]}
      BY <1>6
    <2> QED
      BY <1>1, <2>1, <2>2, GroupFacts DEF GroupInv, SizeExact
  <1>9. OnlyWaiter(Owner)'
    BY <1>1, <1>2 DEF GroupInv, OnlyWaiter
  <1>10. one_thread' => OneThread'
    <2> SUFFICES ASSUME one_thread PROVE OneThread'
      BY <1>1
    <2>1. OneThread /\ \A d \in Coro \ {c} : pc[d] \in Between /\ pc'[d] = pc[d]
      BY <1>1, <1>2 DEF GroupInv, HasThread
    <2>2. joined' = FALSE
      BY <1>1, <2>1, GroupFacts DEF OneThread, GroupInv
    <2>3. signaled_' = FALSE /\ size' # 0
      BY <1>1, <1>8, <2>1 DEF OneThread, EventInv
    <2> QED
      BY <1>2, <2>1, <2>2, <2>3 DEF OneThread, Between
  <1> QED
    BY <1>1, <1>2, <1>4, <1>5, <1>8, <1>9, <1>10 DEF GroupInv

(* Start(task): the task runs inline. *)
LEMMA StartRunInv ==
  ASSUME EventInv, GroupInv, NEW c \in Coro, StartRun(c)
  PROVE  EventInv' /\ GroupInv'
  <1> DEFINE t == child[c]
  <1>1. /\ HasThread(c) /\ pc[c] = "begin"
        /\ UNCHANGED <<signaled_, waiters_, to_wake, size, ended, joined, one_thread>>
    BY DEF StartRun, event
  <1>a. /\ pc' = [pc EXCEPT ![c] = "nest", ![t] = "run"]
        /\ runner' = [runner EXCEPT ![t] = c]
        /\ after' = [after EXCEPT ![c] = "run"]
        /\ child' = [child EXCEPT ![c] = None]
    BY DEF StartRun
  <1>2. t \in Task /\ pc[t] = "new" /\ t # c /\ t # None /\ t \in Coro
    BY <1>1, GroupFacts DEF GroupInv, Starts
  <1> HIDE DEF t
  <1>b. pc \in [Coro -> Running \union Asleep \union {"wake", "nest"}]
    BY DEF EventInv, StackInv
  <1>3. InlineTo(c, t, "run", "run")
    <2>1. pc' = [d \in Coro |-> IF d = c THEN "nest" ELSE IF d = t THEN "run" ELSE pc[d]]
      BY <1>2, <1>a, <1>b
    <2> QED
      BY <1>1, <1>a, <2>1 DEF InlineTo
  <1>4. /\ EventInv'
        /\ \A d \in Coro : pc'[d] = IF d = c THEN "nest" ELSE IF d = t THEN "run" ELSE pc[d]
        /\ \A d \in Coro : after'[d] = IF d = c THEN "run" ELSE after[d]
    BY <1>1, <1>2, <1>3, InlineEvent DEF Running
  <1>5. /\ child' \in [Coro -> Task \union {None}]
        /\ \A d \in Coro : child'[d] = IF d = c THEN None ELSE child[d]
    BY <1>a DEF GroupInv, Starts
  <1>6. t \notin ended /\ t # Owner /\ \A d \in Coro : child[d] = t => d = c
    BY <1>2, GroupFacts DEF GroupInv, Starts, GroupRoles, Active, Over, t
  <1>7. GroupRoles'
    <2>1. \A d \in Coro \ {c, t} : pc'[d] = pc[d] /\ after'[d] = after[d]
      BY <1>4
    <2>2. c = Owner \/ c \in Task \ ended
      BY <1>1, GroupFacts DEF Live
    <2> QED
      BY <1>1, <1>2, <1>4, <1>6, <2>1, <2>2 DEF GroupInv, GroupRoles, Active, Over
  <1>8. Starts'
    <2>1. \A d \in Coro : child'[d] # None <=> pc'[d] \in {"add", "begin"}
      BY <1>2, <1>4, <1>5 DEF GroupInv, Starts
    <2>2. \A d \in Coro : child'[d] # None => pc'[child'[d]] = "new"
      <3>1. \A d \in Coro : child'[d] # None =>
              child'[d] = child[d] /\ child[d] \in Coro /\ pc[child[d]] = "new" /\ d # c
        BY <1>5, GroupFacts DEF GroupInv, Starts
      <3> QED
        BY <1>1, <1>4, <1>6, <3>1
    <2>3. \A d, e \in Coro : d # e /\ child'[d] = child'[e] => child'[d] = None
      BY <1>5 DEF GroupInv, Starts
    <2> QED
      BY <1>5, <2>1, <2>2, <2>3 DEF Starts
  <1>9. /\ Live' = Live \union {t} /\ (Live \union Begun)' = Live \union Begun
    <2>1. Live' = Live \union {t}
      BY <1>1, <1>2, <1>4, <1>6, GroupFacts DEF Live
    <2>2. Begun' = Begun \ {t}
      BY <1>2, <1>4, <1>5, <1>6 DEF Begun, t
    <2>3. t \in Begun
      BY <1>1, <1>2 DEF Begun, t
    <2> QED
      BY <2>1, <2>2, <2>3
  <1>10. SizeExact'
    BY <1>1, <1>9 DEF GroupInv, SizeExact
  <1>11. OnlyWaiter(Owner)'
    <2>1. to_wake[c] = <<>>
      BY <1>1 DEF EventInv, StackInv
    <2> QED
      BY <1>1, <1>4, <2>1 DEF GroupInv, OnlyWaiter
  <1>12. one_thread' => OneThread'
    <2> SUFFICES ASSUME one_thread PROVE OneThread'
      BY <1>1
    <2>1. OneThread /\ \A d \in Coro \ {c} : pc[d] \in Between
      BY <1>1 DEF GroupInv, HasThread
    <2>2. joined' = FALSE
      BY <1>1, <2>1, GroupFacts DEF OneThread, GroupInv
    <2>3. signaled_' <=> size' = 0
      BY <1>1, <2>1 DEF OneThread, Between
    <2>4. \A d \in Coro : pc'[d] \in Between
      BY <1>4, <2>1 DEF Between
    <2> QED
      BY <2>2, <2>3, <2>4 DEF OneThread, Between
  <1> QED
    BY <1>1, <1>4, <1>7, <1>8, <1>10, <1>11, <1>12 DEF GroupInv

(* The callback's size.fetch_sub(1) *)
LEMMA TaskEndInv ==
  ASSUME EventInv, GroupInv, NEW t \in Coro, TaskEnd(t)
  PROVE  EventInv' /\ GroupInv'
  <1> DEFINE l == IF size = 1 THEN "set" ELSE "end"
  <1>1. /\ HasThread(t) /\ t \in Task /\ pc[t] = "run"
        /\ ended' = ended \union {t} /\ size' = size - 1
        /\ UNCHANGED <<signaled_, waiters_, to_wake, runner, after, child, joined, one_thread>>
    BY DEF TaskEnd, At, stack, event
  <1>2. pc' = [pc EXCEPT ![t] = l]
    BY DEF TaskEnd, At
  <1>3. l \in {"set", "end"} /\ (l = "set" <=> size = 1)
    OBVIOUS
  <1> HIDE DEF l
  <1>4. EventInv' /\ \A d \in Coro : pc'[d] = IF d = t THEN l ELSE pc[d]
    <2>1. l \in Running /\ pc[t] \in Running
      BY <1>1, <1>3 DEF Running
    <2>2. signaled_' \in BOOLEAN /\ (signaled_' => waiters_ = <<>>)
      BY <1>1 DEF EventInv
    <2>3. UNCHANGED <<to_wake, runner, after, waiters_>>
      BY <1>1
    <2> QED
      BY <1>2, <2>1, <2>2, <2>3, AtEvent
  <1>5. t \in Live /\ t \notin Begun /\ t # Owner
    BY <1>1, GroupFacts
  <1>6. GroupRoles'
    <2>1. \A d \in Coro \ {t} : pc'[d] = pc[d] /\ after'[d] = after[d]
      BY <1>1, <1>4
    <2> QED
      BY <1>1, <1>3, <1>4, <1>5, <2>1 DEF GroupInv, GroupRoles, Active, Over
  <1>7. Starts'
    <2>1. \A d \in Coro : child[d] # None => child[d] \in Coro /\ child[d] # t
      BY <1>1, GroupFacts DEF GroupInv, Starts
    <2> QED
      BY <1>1, <1>3, <1>4, <2>1 DEF GroupInv, Starts
  <1>8. (Live \union Begun)' = (Live \union Begun) \ {t}
    <2>1. Live' = Live \ {t}
      BY <1>1, <1>3, <1>4, GroupFacts DEF Live
    <2>2. Begun' = Begun
      BY <1>1, <1>3, <1>4 DEF Begun
    <2> QED
      BY <1>5, <2>1, <2>2
  <1>9. SizeExact' /\ size \in Nat /\ size > 0
    <2>1. Cardinality((Live \union Begun) \ {t}) = Cardinality(Live \union Begun) - 1
      BY <1>5, GroupFacts, FS_RemoveElement
    <2>2. size \in Nat /\ size # 0
      BY <1>5, GroupFacts
    <2>3. size = Cardinality(Live \union Begun)
      BY DEF GroupInv, SizeExact
    <2>4. size' = Cardinality((Live \union Begun) \ {t})
      BY <1>1, <2>1, <2>3
    <2>5. SizeExact'
      BY <1>8, <2>4 DEF SizeExact
    <2> QED
      BY <2>2, <2>5
  <1>10. OnlyWaiter(Owner)'
    BY <1>1, <1>3, <1>4 DEF GroupInv, OnlyWaiter
  <1>11. one_thread' => OneThread'
    <2> SUFFICES ASSUME one_thread PROVE OneThread'
      BY <1>1
    <2>1. OneThread /\ \A d \in Coro \ {t} : pc[d] \in Between /\ pc'[d] = pc[d]
      BY <1>1, <1>4 DEF GroupInv, HasThread
    <2>2. joined' = FALSE /\ signaled_' = FALSE
      <3>0. size # 0
        BY <1>9
      <3>1. ~joined
        BY <2>1, <3>0 DEF OneThread
      <3>2. ~signaled_
        BY <1>1, <1>9, <2>1 DEF OneThread, Between
      <3> QED
        BY <1>1, <3>1, <3>2 DEF GroupInv, EventInv
    <2>3. l = "set" <=> size' = 0
      BY <1>1, <1>3, <1>9
    <2> QED
      BY <1>3, <1>4, <2>1, <2>2, <2>3 DEF OneThread, Between
  <1> QED
    BY <1>1, <1>4, <1>6, <1>7, <1>9, <1>10, <1>11 DEF GroupInv

(* The callback's event.Set() *)
LEMMA TaskSetInv ==
  ASSUME EventInv, GroupInv, NEW t \in Coro, TaskSet(t)
  PROVE  EventInv' /\ GroupInv'
  <1>1. /\ HasThread(t) /\ pc[t] = "set" /\ Set(t, "end")
        /\ UNCHANGED <<size, child, ended, joined, one_thread>>
    BY DEF TaskSet, group
  <1>2. /\ EventInv' /\ signaled_' = TRUE
        /\ \A d \in Coro \ {t} : pc'[d] = pc[d] /\ to_wake'[d] = to_wake[d]
                                                /\ after'[d] = after[d]
        /\ pc'[t] = "end" \/ (pc'[t] = "wake" /\ after'[t] = "end")
    BY <1>1, SetEvent DEF Running
  <1>3. GroupRoles'
    BY <1>1, <1>2 DEF GroupInv, GroupRoles, Active, Over
  <1>4. Live' = Live /\ Begun' = Begun /\ SizeExact' /\ Starts'
    BY <1>1, <1>2, SameCount
  <1>5. OnlyWaiter(Owner)'
    BY <1>2 DEF GroupInv, OnlyWaiter
  <1>6. one_thread' => OneThread'
    <2> SUFFICES ASSUME one_thread PROVE OneThread'
      BY <1>1
    <2>1. OneThread /\ \A d \in Coro \ {t} : pc[d] \in Between /\ pc'[d] = pc[d]
      BY <1>1, <1>2 DEF GroupInv, HasThread
    <2>2. t # Owner
      BY <1>1, GroupFacts DEF GroupInv, GroupRoles, Active
    <2>3. size' = 0
      BY <1>1, <2>1 DEF OneThread
    <2>4. \A d, e \in Coro : d # e => pc'[d] \in Between \/ pc'[e] \in Between
      BY <2>1
    <2>5. \A d \in Coro : pc'[d] \notin {"add", "set"}
      BY <1>2, <2>1 DEF Between
    <2>6. joined' => Live' = {} /\ pc'[Owner] \notin {"add", "begin"}
      BY <1>1, <1>4, <2>1, <2>2, GroupFacts DEF OneThread
    <2> QED
      BY <1>2, <2>3, <2>4, <2>5, <2>6 DEF OneThread
  <1> QED
    BY <1>1, <1>2, <1>3, <1>4, <1>5, <1>6 DEF GroupInv

(* A coroutine of the group gives its thread up; the one under it goes on.  *)
LEMMA LeaveGroup ==
  ASSUME EventInv, GroupInv, NEW c \in Coro, HasThread(c),
         NEW l, pc'[c] = l,
         \/ l = "run" /\ pc[c] = "run"
         \/ l = "done" /\ pc[c] = "end"
         \/ l = "susp" /\ pc[c] = "wait?",
         \A d \in Coro \ {c} : pc'[d] = IF d # runner[c] THEN pc[d]
                                   ELSE IF to_wake[d] = <<>> THEN after[d] ELSE "wake",
         \A d \in Coro : d = runner[c] => pc[d] = "nest" /\ d # c,
         UNCHANGED <<to_wake, after, signaled_, size, child, ended, one_thread>>,
         joined' \in BOOLEAN, joined' => joined
  PROVE  GroupInv'
  <1>1. \A d \in Coro : pc[d] = "nest" => to_wake[d] = <<>> /\ after[d] \in {"run", "end"}
    BY DEF GroupInv, OnlyWaiter, GroupRoles, Active, Over
  <1>2. \A d \in Coro \ {c} : \/ pc'[d] = pc[d]
                              \/ d = runner[c] /\ pc[d] = "nest" /\ pc'[d] = after[d]
    BY <1>1
  <1>3. GroupRoles'
    BY <1>1, <1>2 DEF GroupInv, GroupRoles, Active, Over
  <1>4. Live' = Live /\ Begun' = Begun /\ SizeExact' /\ Starts'
    <2>1. \A d \in Coro : /\ pc'[d] = "new" <=> pc[d] = "new"
                          /\ pc'[d] \in {"add", "begin"} <=> pc[d] \in {"add", "begin"}
                          /\ pc'[d] = "begin" <=> pc[d] = "begin"
      BY <1>1, <1>2
    <2> QED
      BY <2>1, SameCount
  <1>5. OnlyWaiter(Owner)'
    BY <1>1, <1>2 DEF GroupInv, OnlyWaiter, GroupRoles
  <1>6. one_thread' => OneThread'
    <2> SUFFICES ASSUME one_thread PROVE OneThread'
      OBVIOUS
    <2>1. OneThread /\ \A d \in Coro \ {c} : pc[d] \in Between
      BY DEF GroupInv, HasThread
    <2>2. /\ pc'[c] \in Between
          /\ \A d \in Coro \ {c} : d # runner[c] => pc'[d] \in Between
          /\ \A d \in Coro : pc'[d] \notin {"add", "set", "wake", "begin"}
      BY <1>1, <1>2, <2>1 DEF Between
    <2>3. signaled_ <=> size = 0
      BY <2>1 DEF OneThread, Between
    <2>4. \A d, e \in Coro : d # e => pc'[d] \in Between \/ pc'[e] \in Between
      BY <2>2
    <2>5. Owner \in Coro
      BY TaskGroupAssumption
    <2> QED
      BY <1>4, <2>1, <2>2, <2>3, <2>4, <2>5 DEF OneThread
  <1> QED
    BY <1>3, <1>4, <1>5, <1>6 DEF GroupInv

(* The frame of a task that is over is destroyed. *)
LEMMA TaskDestroyInv ==
  ASSUME EventInv, GroupInv, NEW t \in Coro, TaskDestroy(t)
  PROVE  EventInv' /\ GroupInv'
  <1>1. /\ HasThread(t) /\ pc[t] = "end" /\ Leave(t, "done")
        /\ UNCHANGED <<signaled_, waiters_, size, child, ended, joined, one_thread>>
    BY DEF TaskDestroy, event, group
  <1>2. /\ EventInv' /\ UNCHANGED <<to_wake, after>>
        /\ pc'[t] = "done"
        /\ \A d \in Coro \ {t} :
              pc'[d] = IF d # runner[t] THEN pc[d]
                       ELSE IF to_wake[d] = <<>> THEN after[d] ELSE "wake"
        /\ \A d \in Coro : d = runner[t] => pc[d] = "nest" /\ d # t
    BY <1>1, LeaveEvent DEF Running
  <1>3. joined' \in BOOLEAN /\ (joined' => joined)
    BY <1>1 DEF GroupInv
  <1> QED
    BY <1>1, <1>2, <1>3, LeaveGroup

(* A user's coroutine suspends elsewhere. *)
LEMMA YieldUserInv ==
  ASSUME EventInv, GroupInv, NEW c \in Coro, YieldUser(c)
  PROVE  EventInv' /\ GroupInv'
  <1>1. /\ HasThread(c) /\ pc[c] = "run" /\ Leave(c, "run")
        /\ UNCHANGED <<signaled_, waiters_, size, child, ended, joined, one_thread>>
    BY DEF YieldUser, Yield, YieldAt, event, group
  <1>2. /\ EventInv' /\ UNCHANGED <<to_wake, after>>
        /\ pc'[c] = "run"
        /\ \A d \in Coro \ {c} :
              pc'[d] = IF d # runner[c] THEN pc[d]
                       ELSE IF to_wake[d] = <<>> THEN after[d] ELSE "wake"
        /\ \A d \in Coro : d = runner[c] => pc[d] = "nest" /\ d # c
    BY <1>1, LeaveEvent DEF Running
  <1>3. joined' \in BOOLEAN /\ (joined' => joined)
    BY <1>1 DEF GroupInv
  <1> QED
    BY <1>1, <1>2, <1>3, LeaveGroup

(* co_await group, when it does not suspend or has still to try. *)
LEMMA AwaitAtInv ==
  ASSUME EventInv, GroupInv, HasThread(Owner), pc[Owner] \in {"run", "wait?"},
         NEW l \in {"run", "wait?"}, pc' = [pc EXCEPT ![Owner] = l],
         UNCHANGED <<to_wake, runner, after, signaled_, waiters_, size, child, ended, one_thread>>,
         joined' = signaled_
  PROVE  EventInv' /\ GroupInv'
  <1>1. Owner \in Coro
    BY TaskGroupAssumption
  <1>2. EventInv' /\ \A d \in Coro : pc'[d] = IF d = Owner THEN l ELSE pc[d]
    <2>1. l \in Running /\ pc[Owner] \in Running
      BY DEF Running
    <2>2. signaled_' \in BOOLEAN /\ (signaled_' => waiters_ = <<>>)
      BY DEF EventInv
    <2>3. UNCHANGED <<to_wake, runner, after, waiters_>>
      OBVIOUS
    <2> QED
      BY <1>1, <2>1, <2>2, <2>3, AtEvent
  <1>3. GroupRoles'
    <2>1. \A d \in Coro \ {Owner} : pc'[d] = pc[d] /\ after'[d] = after[d]
      BY <1>2
    <2> QED
      BY <1>1, <1>2, <2>1 DEF GroupInv, GroupRoles, Active, Over
  <1>4. Live' = Live /\ Begun' = Begun /\ SizeExact' /\ Starts'
    <2>1. \A d \in Coro : /\ pc'[d] = "new" <=> pc[d] = "new"
                          /\ pc'[d] \in {"add", "begin"} <=> pc[d] \in {"add", "begin"}
                          /\ pc'[d] = "begin" <=> pc[d] = "begin"
      BY <1>2
    <2> QED
      BY <2>1, SameCount
  <1>5. OnlyWaiter(Owner)'
    BY <1>2 DEF GroupInv, OnlyWaiter
  <1>6. joined' \in BOOLEAN /\ one_thread' \in BOOLEAN
    BY DEF GroupInv, EventInv
  <1>7. one_thread' => OneThread'
    <2> SUFFICES ASSUME one_thread PROVE OneThread'
      OBVIOUS
    <2>1. OneThread /\ \A d \in Coro \ {Owner} : pc[d] \in Between /\ pc'[d] = pc[d]
      BY <1>2 DEF GroupInv, HasThread
    <2>2. signaled_ <=> size = 0
      BY <2>1 DEF OneThread, Between
    <2>3. joined' => size' = 0 /\ Live' = {}
      BY <1>4, <2>2, GroupFacts
    <2>4. \A d \in Coro : pc'[d] \notin {"add", "set", "wake", "begin"}
      BY <1>2, <2>1 DEF Between
    <2>5. \A d, e \in Coro : d # e => pc'[d] \in Between \/ pc'[e] \in Between
      BY <2>1
    <2> QED
      BY <1>1, <2>2, <2>3, <2>4, <2>5 DEF OneThread
  <1> QED
    BY <1>2, <1>3, <1>4, <1>5, <1>6, <1>7 DEF GroupInv

(* co_await group *)
LEMMA AwaitInv ==
  ASSUME EventInv, GroupInv, Await \/ AwaitSuspend
  PROVE  EventInv' /\ GroupInv'
  <1> USE DEF Running
  <1>1. Owner \in Coro
    BY TaskGroupAssumption
  <1>2. CASE Await
    <2> DEFINE l == IF signaled_ THEN "run" ELSE "wait?"
    <2>1. /\ HasThread(Owner) /\ pc[Owner] = "run" /\ joined' = signaled_
          /\ UNCHANGED <<to_wake, runner, after, signaled_, waiters_, size, child, ended,
                         one_thread>>
      BY <1>2 DEF Await, WaitReady, At, stack, event
    <2>2. pc' = [pc EXCEPT ![Owner] = l] /\ l \in {"run", "wait?"}
      BY <1>2 DEF Await, WaitReady, At
    <2> HIDE DEF l
    <2> QED
      BY <2>1, <2>2, AwaitAtInv
  <1>3. CASE AwaitSuspend /\ signaled_
    <2>1. /\ HasThread(Owner) /\ pc[Owner] = "wait?" /\ joined' = signaled_
          /\ UNCHANGED <<to_wake, runner, after, signaled_, waiters_, size, child, ended,
                         one_thread>>
          /\ pc' = [pc EXCEPT ![Owner] = "run"]
      BY <1>3 DEF AwaitSuspend, WaitSuspend, At, stack
    <2> QED
      BY <2>1, AwaitAtInv
  <1>4. CASE AwaitSuspend /\ ~signaled_
    <2>1. /\ HasThread(Owner) /\ pc[Owner] = "wait?" /\ joined' = signaled_
          /\ waiters_' = Append(waiters_, Owner) /\ Leave(Owner, "susp")
          /\ UNCHANGED <<signaled_, size, child, ended, one_thread>>
      BY <1>4 DEF AwaitSuspend, WaitSuspend
    <2>2. /\ EventInv' /\ UNCHANGED <<to_wake, after>>
          /\ pc'[Owner] = "susp"
          /\ \A d \in Coro \ {Owner} :
              pc'[d] = IF d # runner[Owner] THEN pc[d]
                       ELSE IF to_wake[d] = <<>> THEN after[d] ELSE "wake"
          /\ \A d \in Coro : d = runner[Owner] => pc[d] = "nest" /\ d # Owner
      BY <1>1, <1>4, <2>1, QueueEvent
    <2>3. joined' \in BOOLEAN /\ (joined' => joined)
      BY <1>4, <2>1 DEF EventInv
    <2> QED
      BY <1>1, <2>1, <2>2, <2>3, LeaveGroup
  <1> QED
    BY <1>2, <1>3, <1>4

(* The last task's Set() resumes the owner on its own stack. *)
LEMMA ResumeOwnerInv ==
  ASSUME EventInv, GroupInv, NEW c \in Coro, ResumeOwner(c)
  PROVE  EventInv' /\ GroupInv'
  <1>1. /\ HasThread(c) /\ Resume(c, "run") /\ joined' = TRUE
        /\ UNCHANGED <<size, child, ended, one_thread>>
    BY DEF ResumeOwner
  <1>2. /\ EventInv' /\ UNCHANGED <<signaled_, waiters_, after>>
        /\ pc[c] = "wake"
        /\ \E w \in Coro : /\ w # c /\ pc[w] = "susp"
                           /\ w = Head(to_wake[c])
                           /\ \A d \in Coro : pc'[d] = IF d = w THEN "run"
                                                ELSE IF d = c THEN "nest" ELSE pc[d]
        /\ \A d \in Coro \ {c} : to_wake'[d] = to_wake[d]
        /\ to_wake'[c] = Tail(to_wake[c])
    BY <1>1, ResumeEvent DEF Running
  <1>3. /\ Owner \in Coro /\ Owner # c /\ pc[Owner] = "susp"
        /\ \A d \in Coro : pc'[d] = IF d = Owner THEN "run"
                                    ELSE IF d = c THEN "nest" ELSE pc[d]
    BY <1>2, TaskGroupAssumption DEF GroupInv, OnlyWaiter
  <1>4. to_wake'[c] = <<>>
    <2>1. to_wake[c] \in Seq(Coro) /\ to_wake[c] # <<>> /\ Distinct(to_wake[c])
      BY <1>2 DEF EventInv, StackInv, ListsInv
    <2>2. Contents(to_wake[c]) \subseteq {Owner}
      BY WokenContents DEF EventInv, GroupInv, OnlyWaiter
    <2> QED
      BY <1>2, <2>1, <2>2, SingleTail
  <1>5. GroupRoles'
    <2>1. after[c] = "end" /\ c \in ended
      BY <1>2 DEF GroupInv, GroupRoles, Active, Over
    <2>2. \A d \in Coro \ {c, Owner} : pc'[d] = pc[d] /\ after'[d] = after[d]
      BY <1>2, <1>3
    <2>3. after'[c] = "end" /\ pc'[c] = "nest" /\ pc'[Owner] = "run"
      BY <1>2, <1>3, <2>1
    <2> QED
      BY <1>1, <1>3, <2>1, <2>2, <2>3 DEF GroupInv, GroupRoles, Active, Over
  <1>6. Live' = Live /\ Begun' = Begun /\ SizeExact' /\ Starts'
    <2>1. \A d \in Coro : /\ pc'[d] = "new" <=> pc[d] = "new"
                          /\ pc'[d] \in {"add", "begin"} <=> pc[d] \in {"add", "begin"}
                          /\ pc'[d] = "begin" <=> pc[d] = "begin"
      BY <1>2, <1>3
    <2> QED
      BY <1>1, <2>1, SameCount
  <1>7. OnlyWaiter(Owner)'
    BY <1>2, <1>3, <1>4 DEF GroupInv, OnlyWaiter
  <1>8. joined' \in BOOLEAN /\ one_thread' \in BOOLEAN
    BY <1>1 DEF GroupInv
  <1>9. one_thread' => OneThread'
    <2> SUFFICES ASSUME one_thread PROVE OneThread'
      BY <1>1
    <2>1. OneThread /\ \A d \in Coro \ {c} : pc[d] \in Between
      BY <1>1 DEF GroupInv, HasThread
    <2>2. signaled_ /\ size = 0
      BY <1>2, <2>1 DEF OneThread, Between
    <2>3. Live' = {} /\ size' = 0
      BY <1>1, <1>6, <2>2, GroupFacts
    <2>4. \A d \in Coro : pc'[d] \in Between
      BY <1>3, <2>1 DEF Between
    <2> QED
      BY <1>2, <1>3, <2>2, <2>3, <2>4 DEF OneThread, Between
  <1> QED
    BY <1>2, <1>5, <1>6, <1>7, <1>8, <1>9 DEF GroupInv

(* Every step of the group. *)
LEMMA GroupStepInv ==
  ASSUME EventInv, GroupInv, GroupNext
  PROVE  EventInv' /\ GroupInv'
  <1>1. CASE Await \/ AwaitSuspend
    BY <1>1, AwaitInv
  <1>2. ASSUME NEW c \in Coro, GroupStep(c)
        PROVE  EventInv' /\ GroupInv'
    BY <1>2, StartResetInv, StartAddInv, StartRunInv, TaskEndInv, TaskSetInv,
       TaskDestroyInv, ResumeOwnerInv, YieldUserInv DEF GroupStep
  <1> QED
    BY <1>1, <1>2 DEF GroupNext

-----------------------------------------------------------------------------
(* The race *)

(* The caller, the controller and the timer are three, and none a user's. *)
LEMMA RaceActors ==
  /\ Caller # Parent /\ Caller # Timer /\ Parent # Timer
  /\ Caller \in Coro /\ Parent \in Coro /\ Timer \in Coro /\ User \subseteq Coro
  /\ Caller \notin User /\ Parent \notin User /\ Timer \notin User
  <1>1. ASSUME NEW x, NEW y PROVE Cardinality({x, y}) # 3
    <2>1. IsFiniteSet({x}) /\ Cardinality({x}) = 1
      BY FS_Singleton
    <2>2. Cardinality({x} \union {y}) = Cardinality({x}) \/
          Cardinality({x} \union {y}) = Cardinality({x}) + 1
      BY <2>1, FS_AddElement
    <2>3. {x, y} = {x} \union {y}
      OBVIOUS
    <2> QED
      BY <2>1, <2>2, <2>3
  <1>2. Caller # Parent
    <2>1. ASSUME Caller = Parent PROVE {Caller, Parent, Timer} = {Parent, Timer}
      BY <2>1
    <2> QED
      BY <1>1, <2>1, RaceAssumption
  <1>3. Caller # Timer
    <2>1. ASSUME Caller = Timer PROVE {Caller, Parent, Timer} = {Parent, Timer}
      BY <2>1
    <2> QED
      BY <1>1, <2>1, RaceAssumption
  <1>4. Parent # Timer
    <2>1. ASSUME Parent = Timer PROVE {Caller, Parent, Timer} = {Caller, Timer}
      BY <2>1
    <2> QED
      BY <1>1, <2>1, RaceAssumption
  <1> QED
    BY <1>2, <1>3, <1>4, RaceAssumption

(* A step in which only c moves, and perhaps gives its thread back. *)
Moves(c) ==
  /\ UNCHANGED <<to_wake, after>>
  /\ \A d \in Coro \ {c} : pc'[d] = pc[d] \/ (pc[d] = "nest" /\ pc'[d] = after[d])

(* The others keep their parts. *)
LEMMA Others ==
  ASSUME RaceInv, NEW c \in Coro, Moves(c), UNCHANGED <<children, started>>
  PROVE  /\ c # Caller => CallerAt'
         /\ c # Parent => ParentAt'
         /\ \A d \in started \ {c} : ChildAt(d)' /\ (Past(d)' <=> Past(d))
         /\ \A d \in Coro \ {c} : pc[d] = "nest"
              => after[d] \in {"notify", "end", "wait", "start"}
         /\ \A d \in Coro \ {c} : (pc'[d] = pc[d]
              \/ (pc[d] = "nest" /\ pc'[d] \in {"notify", "end", "wait", "start"}))
  <1> USE RaceActors
  <1>1. \A d \in started : d \in Coro /\ d # Caller /\ d # Parent /\ ChildAt(d)
    BY DEF RaceInv, RaceRoles
  <1>2. CallerAt /\ ParentAt /\ \A d \in Coro \ (started \union {Caller, Parent}) : pc[d] = "new"
    BY DEF RaceInv, RaceRoles
  <1>3. \A d \in Coro : pc[d] = "nest" => after[d] \in {"notify", "end", "wait", "start"}
    BY <1>1, <1>2 DEF CallerAt, ParentAt, ChildAt, Past
  <1>4. \A d \in started \ {c} : ChildAt(d)' /\ (Past(d)' <=> Past(d))
    BY <1>1 DEF Moves, ChildAt, Past
  <1>5. /\ c # Caller => CallerAt'
        /\ c # Parent => ParentAt'
    BY <1>2 DEF Moves, CallerAt, ParentAt
  <1> QED
    BY <1>3, <1>4, <1>5 DEF Moves

(* Such a step keeps the parts when c goes on in its own. *)
LEMMA RolesKept ==
  ASSUME RaceInv, NEW c \in Coro, Moves(c), UNCHANGED <<children, started>>,
         c \in started => ChildAt(c)', c = Caller => CallerAt', c = Parent => ParentAt',
         pc[c] # "new", pc'[c] \notin {"new", "call", "nest"}, pc'[c] = "susp" => c = Caller
  PROVE  RaceRoles' /\ OnlyWaiter(Caller)'
  <1> USE RaceActors
  <1>1. /\ c # Caller => CallerAt'
        /\ c # Parent => ParentAt'
        /\ \A d \in started \ {c} : ChildAt(d)'
        /\ \A d \in Coro \ {c} : (pc'[d] = pc[d]
              \/ (pc[d] = "nest" /\ pc'[d] \in {"notify", "end", "wait", "start"}))
    BY Others
  <1>2. \A d \in started' : ChildAt(d)'
    BY <1>1
  <1>3. \A d \in Coro \ (started \union {Caller, Parent}) : d # c /\ pc'[d] = "new"
    BY <1>1 DEF RaceInv, RaceRoles
  <1>4. pc'[Caller] = "call" => pc'[Parent] = "new"
    BY <1>1 DEF RaceInv, RaceRoles
  <1>5. RaceRoles'
    BY <1>1, <1>2, <1>3, <1>4 DEF RaceInv, RaceRoles
  <1>6. OnlyWaiter(Caller)'
    BY <1>1 DEF RaceInv, OnlyWaiter, Moves
  <1> QED
    BY <1>5, <1>6

(* Such a step of another than the controller keeps the latch when c does   *)
(* not pass it.                                                             *)
LEMMA LatchKept ==
  ASSUME RaceInv, NEW c \in Coro \ {Parent}, Moves(c),
         UNCHANGED <<children, started, count_, awaiting_, freed>>,
         c \in started => (Past(c)' <=> Past(c)), pc[c] # "new"
  PROVE  LatchInv'
  <1> USE RaceActors
  <1>1. /\ \A d \in started \ {c} : (Past(d)' <=> Past(d))
        /\ \A d \in Coro \ {c} : (pc'[d] = pc[d]
              \/ (pc[d] = "nest" /\ pc'[d] \in {"notify", "end", "wait", "start"}))
    BY Others
  <1>2. /\ children \subseteq Coro \ {Caller, Parent}
        /\ \A d \in children \ started : pc[d] = "new" /\ d # c
    BY DEF RaceInv, RaceRoles
  <1>3. \A d \in children : (Past(d)' <=> Past(d))
    BY <1>1, <1>2 DEF Past
  <1>4. Counted' = Counted
    BY <1>3 DEF Counted
  <1>5. \/ pc'[Parent] = pc[Parent]
        \/ pc[Parent] = "nest" /\ pc'[Parent] \in {"notify", "end", "wait", "start"}
    BY <1>1
  <1>6. (Subtracted' <=> Subtracted)
    BY <1>5 DEF Subtracted
  <1>7. count_' = Cardinality(Counted') + (IF Subtracted' THEN 0 ELSE 1)
    BY <1>4, <1>6 DEF RaceInv, LatchInv
  <1> QED
    BY <1>4, <1>5, <1>7 DEF RaceInv, LatchInv

(* Such a step leaves the winner alone when c neither wins nor sets. *)
LEMMA WinnerKept ==
  ASSUME RaceInv, NEW c \in Coro, Moves(c),
         UNCHANGED <<children, first_completed, result, signaled_>>,
         UNCHANGED started,
         pc'[c] \notin {"won", "set", "wake"},
         c = Caller /\ pc'[c] = "got" => result # None,
         c = Caller /\ pc'[c] = "done" => pc[c] = "got" \/ children = {}
  PROVE  WinnerInv'
  <1> USE RaceActors
  <1>1. \A d \in Coro \ {c} : (pc'[d] = pc[d]
              \/ (pc[d] = "nest" /\ pc'[d] \in {"notify", "end", "wait", "start"}))
    BY Others
  <1>2. \A d \in Coro : pc'[d] \in {"won", "set", "wake"} => pc'[d] = pc[d]
    BY <1>1
  <1>3. /\ pc'[Caller] = "got" => result # None
        /\ pc'[Caller] = "done" => result # None \/ children = {}
    BY <1>1 DEF RaceInv, WinnerInv
  <1> QED
    BY <1>2, <1>3 DEF RaceInv, WinnerInv

(* c gives its thread back. *)
LEMMA LeaveRace ==
  ASSUME EventInv, RaceInv, NEW c \in Coro, pc[c] \in Running,
         NEW l \in Running \union {"join"}, Leave(c, l), UNCHANGED <<signaled_, waiters_>>
  PROVE  EventInv' /\ Moves(c) /\ pc'[c] = l
  <1>1. /\ EventInv' /\ UNCHANGED <<to_wake, after>>
        /\ pc'[c] = l
        /\ \A d \in Coro \ {c} :
              pc'[d] = IF d # runner[c] THEN pc[d]
                       ELSE IF to_wake[d] = <<>> THEN after[d] ELSE "wake"
        /\ \A d \in Coro : d = runner[c] => pc[d] = "nest" /\ d # c
    BY LeaveEvent
  <1>2. \A d \in Coro : pc[d] = "nest" => to_wake[d] = <<>>
    BY DEF RaceInv, OnlyWaiter
  <1> QED
    BY <1>1, <1>2 DEF Moves

(* c keeps its thread. *)
LEMMA AtRace ==
  ASSUME EventInv, NEW c \in Coro, pc[c] \in Running, NEW l \in Running,
         pc' = [pc EXCEPT ![c] = l], UNCHANGED <<to_wake, runner, after, waiters_, signaled_>>
  PROVE  EventInv' /\ Moves(c) /\ pc'[c] = l
  <1>1. signaled_' \in BOOLEAN /\ (signaled_' => waiters_ = <<>>)
    BY DEF EventInv
  <1>2. EventInv' /\ \A d \in Coro : pc'[d] = IF d = c THEN l ELSE pc[d]
    BY <1>1, AtEvent
  <1> QED
    BY <1>2 DEF Moves

(* The caller moves by itself. *)
LEMMA CallerMoves ==
  ASSUME RaceInv, EventInv', Moves(Caller), UNCHANGED <<latch, race, signaled_>>,
         \/ pc[Caller] = "wait" /\ pc'[Caller] \in {"wait?", "got"}
         \/ pc[Caller] = "wait?" /\ pc'[Caller] \in {"susp", "got"}
         \/ pc[Caller] = "got" /\ pc'[Caller] = "done"
         \/ pc[Caller] = "call" /\ pc'[Caller] = "done" /\ children = {},
         pc'[Caller] = "got" => signaled_
  PROVE  RaceInv'
  <1> USE RaceActors
  <1>1. /\ UNCHANGED <<children, started, count_, awaiting_, freed>>
        /\ UNCHANGED <<first_completed, result>>
    BY DEF latch, race
  <1>2. Caller \notin started
    BY DEF RaceInv, RaceRoles
  <1>3. RaceRoles' /\ OnlyWaiter(Caller)'
    BY <1>1, <1>2, RolesKept DEF CallerAt
  <1>4. LatchInv'
    BY <1>1, <1>2, LatchKept
  <1>5. pc'[Caller] = "got" => result # None
    BY DEF RaceInv, WinnerInv
  <1>6. WinnerInv'
    BY <1>1, <1>5, WinnerKept
  <1> QED
    BY <1>3, <1>4, <1>6 DEF RaceInv

(* WhenAny() and WithTimeout(): the caller's steps. *)
LEMMA CallerStepInv ==
  ASSUME EventInv, RaceInv, WaitNotify \/ SuspendNotify \/ ReturnResult
  PROVE  EventInv' /\ RaceInv'
  <1> USE RaceActors
  <1>1. CASE WaitNotify
    <2> DEFINE l == IF signaled_ THEN "got" ELSE "wait?"
    <2>1. /\ pc[Caller] = "wait" /\ UNCHANGED <<to_wake, runner, after, waiters_, signaled_>>
          /\ UNCHANGED <<latch, race>>
      BY <1>1 DEF WaitNotify, WaitReady, At, stack, event
    <2>2. pc' = [pc EXCEPT ![Caller] = l]
      BY <1>1 DEF WaitNotify, WaitReady, At
    <2>3. l \in {"wait?", "got"} /\ (l = "got" => signaled_) /\ l \in Running
          /\ pc[Caller] \in Running
      BY <2>1 DEF Running
    <2> HIDE DEF l
    <2>4. EventInv' /\ Moves(Caller) /\ pc'[Caller] = l
      BY <2>1, <2>2, <2>3, AtRace
    <2> QED
      BY <2>1, <2>3, <2>4, CallerMoves
  <1>2. CASE SuspendNotify /\ signaled_
    <2>1. /\ pc[Caller] = "wait?" /\ UNCHANGED <<to_wake, runner, after, waiters_, signaled_>>
          /\ UNCHANGED <<latch, race>> /\ pc[Caller] \in Running /\ "got" \in Running
      BY <1>2 DEF SuspendNotify, WaitSuspend, At, stack, Running
    <2>2. pc' = [pc EXCEPT ![Caller] = "got"]
      BY <1>2 DEF SuspendNotify, WaitSuspend, At
    <2>3. EventInv' /\ Moves(Caller) /\ pc'[Caller] = "got"
      BY <2>1, <2>2, AtRace
    <2> QED
      BY <1>2, <2>1, <2>3, CallerMoves
  <1>3. CASE SuspendNotify /\ ~signaled_
    <2>1. /\ pc[Caller] = "wait?" /\ pc[Caller] \in Running
          /\ waiters_' = Append(waiters_, Caller) /\ Leave(Caller, "susp")
          /\ UNCHANGED signaled_ /\ UNCHANGED <<latch, race>>
      BY <1>3 DEF SuspendNotify, WaitSuspend, Running
    <2>2. /\ EventInv' /\ UNCHANGED <<to_wake, after>>
          /\ pc'[Caller] = "susp"
          /\ \A d \in Coro \ {Caller} :
              pc'[d] = IF d # runner[Caller] THEN pc[d]
                       ELSE IF to_wake[d] = <<>> THEN after[d] ELSE "wake"
          /\ \A d \in Coro : d = runner[Caller] => pc[d] = "nest" /\ d # Caller
      BY <1>3, <2>1, QueueEvent
    <2>3. Moves(Caller)
      BY <2>2 DEF Moves, RaceInv, OnlyWaiter
    <2> QED
      BY <2>1, <2>2, <2>3, CallerMoves
  <1>4. CASE ReturnResult
    <2>1. /\ pc[Caller] = "got" /\ pc[Caller] \in Running /\ "done" \in Running
          /\ Leave(Caller, "done")
          /\ UNCHANGED <<signaled_, waiters_>> /\ UNCHANGED <<latch, race>>
      BY <1>4 DEF ReturnResult, event, Running
    <2>2. EventInv' /\ Moves(Caller) /\ pc'[Caller] = "done"
      BY <2>1, LeaveRace
    <2> QED
      BY <2>1, <2>2, CallerMoves
  <1> QED
    BY <1>1, <1>2, <1>3, <1>4

(* controller.Start() *)
LEMMA StartControllerInv ==
  ASSUME EventInv, RaceInv, StartController
  PROVE  EventInv' /\ RaceInv'
  <1> USE RaceActors
  <1>1. /\ pc[Caller] = "call" /\ UNCHANGED <<signaled_, waiters_, to_wake>>
        /\ UNCHANGED <<latch, race>>
    BY DEF StartController, event
  <1>2. CASE children = {}
    <2>1. /\ pc' = [pc EXCEPT ![Caller] = "done"] /\ UNCHANGED <<runner, after>>
      BY <1>2 DEF StartController
    <2>2. pc[Caller] \in Running /\ "done" \in Running
      BY <1>1 DEF Running
    <2>3. EventInv' /\ Moves(Caller) /\ pc'[Caller] = "done"
      BY <1>1, <2>1, <2>2, AtRace
    <2> QED
      BY <1>1, <1>2, <2>3, CallerMoves
  <1>3. CASE children # {}
    <2>1. /\ pc' = [pc EXCEPT ![Caller] = "nest", ![Parent] = "start"]
          /\ runner' = [runner EXCEPT ![Parent] = Caller]
          /\ after' = [after EXCEPT ![Caller] = "wait"]
      BY <1>3 DEF StartController
    <2>2. pc[Parent] = "new"
      BY <1>1 DEF RaceInv, RaceRoles
    <2>3. InlineTo(Caller, Parent, "start", "wait")
      <3>1. DOMAIN pc = Coro /\ pc = [d \in Coro |-> pc[d]]
        BY DEF EventInv, StackInv
      <3>2. UNCHANGED to_wake /\ Caller # Parent
        BY <1>1
      <3> QED
        BY <2>1, <3>1, <3>2 DEF InlineTo
    <2>4. pc[Caller] \in Running /\ "start" \in Running /\ "wait" \in Running
      BY <1>1 DEF Running
    <2>5. /\ EventInv'
          /\ \A d \in Coro : pc'[d] = IF d = Caller THEN "nest"
                                      ELSE IF d = Parent THEN "start" ELSE pc[d]
          /\ \A d \in Coro : after'[d] = IF d = Caller THEN "wait" ELSE after[d]
      BY <1>1, <2>2, <2>3, <2>4, InlineEvent
    <2>6. UNCHANGED <<children, started, count_, awaiting_, freed, first_completed, result>>
      BY <1>1 DEF latch, race
    <2>7. \A d \in Coro \ {Caller, Parent} : pc'[d] = pc[d] /\ after'[d] = after[d]
      BY <2>5
    <2>8. children \subseteq Coro \ {Caller, Parent} /\ started \subseteq children
      BY DEF RaceInv, RaceRoles
    <2>9. RaceRoles'
      <3>1. CallerAt' /\ ParentAt' /\ pc'[Caller] # "call"
        BY <2>5 DEF CallerAt, ParentAt
      <3>2. \A d \in started' : ChildAt(d)'
        BY <2>6, <2>7, <2>8 DEF RaceInv, RaceRoles, ChildAt, Past
      <3> QED
        BY <2>6, <2>7, <2>8, <3>1, <3>2 DEF RaceInv, RaceRoles
    <2>10. LatchInv'
      <3>1. Counted' = Counted
        BY <2>6, <2>7, <2>8 DEF Counted, Past
      <3>2. pc'[Parent] = "start" /\ Subtracted' = FALSE /\ Subtracted = FALSE
        BY <2>2, <2>5 DEF Subtracted
      <3> QED
        BY <2>2, <2>6, <3>1, <3>2 DEF RaceInv, LatchInv
    <2>11. WinnerInv'
      BY <1>1, <2>5, <2>6 DEF RaceInv, WinnerInv
    <2>12. OnlyWaiter(Caller)'
      <3>1. to_wake[Caller] = <<>>
        BY <1>1 DEF EventInv, StackInv
      <3> QED
        BY <1>1, <2>5, <3>1 DEF RaceInv, OnlyWaiter
    <2> QED
      BY <2>5, <2>9, <2>10, <2>11, <2>12 DEF RaceInv
  <1> QED
    BY <1>2, <1>3

(* A child that moves has been started. *)
LEMMA ChildFacts ==
  ASSUME RaceInv, NEW c \in children, pc[c] # "new"
  PROVE  c \in started /\ c \in Coro /\ c # Caller /\ c # Parent
  BY DEF RaceInv, RaceRoles

(* A child moves by itself, and neither wins nor passes the latch. *)
LEMMA ChildMoves ==
  ASSUME RaceInv, NEW c \in children, pc[c] # "new", Moves(c),
         UNCHANGED <<latch, race, signaled_>>,
         \/ pc[c] \in {"sleep", "run"} /\ pc'[c] = "run"
         \/ pc[c] = "end" /\ pc'[c] = "done"
  PROVE  RaceInv'
  <1> USE RaceActors, ChildFacts
  <1>1. /\ UNCHANGED <<children, started, count_, awaiting_, freed>>
        /\ UNCHANGED <<first_completed, result>>
    BY DEF latch, race
  <1>2. ChildAt(c)' /\ (Past(c)' <=> Past(c))
    BY DEF ChildAt, Past
  <1>3. RaceRoles' /\ OnlyWaiter(Caller)'
    BY <1>1, <1>2, RolesKept
  <1>4. LatchInv'
    BY <1>1, <1>2, LatchKept
  <1>5. WinnerInv'
    BY <1>1, WinnerKept
  <1> QED
    BY <1>3, <1>4, <1>5 DEF RaceInv

(* AsyncSleep, a task's suspension, and the return from awaiting_.resume() *)
LEMMA ChildStepInv ==
  ASSUME EventInv, RaceInv,
         Sleep \/ \E c \in children : YieldTask(c) \/ (NotifyReturns(c) /\ UNCHANGED race)
  PROVE  EventInv' /\ RaceInv'
  <1> USE RaceActors
  <1> USE DEF Running
  <1>1. CASE Sleep
    <2>1. Timer \in children /\ pc[Timer] = "sleep"
      BY <1>1 DEF Sleep, RaceInv, RaceRoles
    <2>2. UNCHANGED <<signaled_, waiters_, to_wake, after, latch, race>>
      BY <1>1 DEF Sleep, event
    <2>3. CASE executor
      <3>1. Leave(Timer, "run")
        BY <1>1, <2>3 DEF Sleep
      <3>2. EventInv' /\ Moves(Timer) /\ pc'[Timer] = "run"
        BY <2>1, <2>2, <3>1, LeaveRace
      <3> QED
        BY <2>1, <2>2, <3>2, ChildMoves
    <2>4. CASE ~executor
      <3>1. pc' = [pc EXCEPT ![Timer] = "run"] /\ UNCHANGED runner
        BY <1>1, <2>4 DEF Sleep
      <3>2. EventInv' /\ Moves(Timer) /\ pc'[Timer] = "run"
        BY <2>1, <2>2, <3>1, AtRace
      <3> QED
        BY <2>1, <2>2, <3>2, ChildMoves
    <2> QED
      BY <2>3, <2>4
  <1>2. ASSUME NEW c \in children, YieldTask(c)
        PROVE  EventInv' /\ RaceInv'
    <2>1. /\ pc[c] = "run" /\ Leave(c, "run") /\ UNCHANGED <<signaled_, waiters_>>
          /\ UNCHANGED <<latch, race>>
      BY <1>2 DEF YieldTask, Yield, YieldAt, event
    <2>2. c \in Coro
      BY <2>1, ChildFacts
    <2>3. EventInv' /\ Moves(c) /\ pc'[c] = "run"
      BY <2>1, <2>2, LeaveRace
    <2> QED
      BY <2>1, <2>3, ChildMoves
  <1>3. ASSUME NEW c \in children, NotifyReturns(c), UNCHANGED race
        PROVE  EventInv' /\ RaceInv'
    <2>1. /\ pc[c] = "end" /\ Leave(c, "done") /\ UNCHANGED <<signaled_, waiters_>>
          /\ UNCHANGED <<latch, race>>
      BY <1>3 DEF NotifyReturns, event
    <2>2. c \in Coro
      BY <2>1, ChildFacts
    <2>3. EventInv' /\ Moves(c) /\ pc'[c] = "done"
      BY <2>1, <2>2, LeaveRace
    <2> QED
      BY <2>1, <2>3, ChildMoves
  <1> QED
    BY <1>1, <1>2, <1>3

(* The exchange: the first child to end, and no other, wins. *)
LEMMA ChildEndInv ==
  ASSUME EventInv, RaceInv, NEW c \in children, ChildEnd(c)
  PROVE  EventInv' /\ RaceInv'
  <1> USE RaceActors, ChildFacts
  <1> DEFINE l == IF first_completed THEN "notify" ELSE "won"
  <1>1. /\ pc[c] = "run" /\ first_completed' = TRUE
        /\ UNCHANGED <<signaled_, waiters_, to_wake, runner, after, latch, executor, result>>
    BY DEF ChildEnd, event, stack
  <1>2. pc' = [pc EXCEPT ![c] = l]
    BY DEF ChildEnd
  <1>3. l \in {"notify", "won"} /\ (l = "won" => ~first_completed)
    OBVIOUS
  <1> HIDE DEF l
  <1>4. l \in Running /\ pc[c] \in Running
    BY <1>1, <1>3 DEF Running
  <1>5. EventInv' /\ Moves(c) /\ pc'[c] = l
    BY <1>1, <1>2, <1>4, AtRace
  <1>6. \A d \in Coro \ {c} : pc'[d] = pc[d]
    BY <1>2 DEF EventInv, StackInv
  <1>7. /\ UNCHANGED <<children, started, count_, awaiting_, freed>>
    BY <1>1 DEF latch
  <1>8. ChildAt(c)' /\ (Past(c)' <=> Past(c))
    BY <1>1, <1>3, <1>5 DEF ChildAt, Past
  <1>9. RaceRoles' /\ OnlyWaiter(Caller)'
    BY <1>1, <1>3, <1>5, <1>7, <1>8, RolesKept
  <1>10. LatchInv'
    BY <1>1, <1>5, <1>7, <1>8, LatchKept
  <1>11. WinnerInv'
    <2>1. ~first_completed => result = None /\ \A d \in Coro : pc[d] # "won"
      BY DEF RaceInv, WinnerInv
    <2>2. \A d \in Coro : pc'[d] \in {"set", "wake", "got", "done"} => pc'[d] = pc[d]
      BY <1>3, <1>5, <1>6
    <2>3. \A d \in Coro : pc'[d] = "won" => pc'[d] = pc[d] \/ (d = c /\ l = "won")
      BY <1>5, <1>6
    <2>4. \A d, e \in Coro : pc'[d] = "won" /\ pc'[e] = "won" => d = e
      BY <1>3, <2>1, <2>3 DEF RaceInv, WinnerInv
    <2>5. \A d \in Coro : pc'[d] = "won" => result = None
      BY <1>3, <2>1, <2>3 DEF RaceInv, WinnerInv
    <2> QED
      BY <1>1, <1>7, <2>2, <2>4, <2>5 DEF RaceInv, WinnerInv
  <1> QED
    BY <1>5, <1>9, <1>10, <1>11 DEF RaceInv

(* result.emplace(): there is none yet. *)
LEMMA PublishInv ==
  ASSUME EventInv, RaceInv, NEW c \in children, Publish(c)
  PROVE  EventInv' /\ RaceInv' /\ result = None
  <1> USE RaceActors, ChildFacts
  <1>1. /\ pc[c] = "won" /\ result' = c
        /\ UNCHANGED <<signaled_, waiters_, to_wake, runner, after, latch, executor,
                       first_completed>>
    BY DEF Publish, event, stack
  <1>2. pc' = [pc EXCEPT ![c] = "set"]
    BY DEF Publish
  <1>4. "set" \in Running /\ pc[c] \in Running
    BY <1>1 DEF Running
  <1>5. EventInv' /\ Moves(c) /\ pc'[c] = "set"
    BY <1>1, <1>2, <1>4, AtRace
  <1>6. \A d \in Coro \ {c} : pc'[d] = pc[d]
    BY <1>2 DEF EventInv, StackInv
  <1>7. /\ UNCHANGED <<children, started, count_, awaiting_, freed>>
    BY <1>1 DEF latch
  <1>8. ChildAt(c)' /\ (Past(c)' <=> Past(c))
    BY <1>1, <1>5 DEF ChildAt, Past
  <1>9. RaceRoles' /\ OnlyWaiter(Caller)'
    BY <1>1, <1>5, <1>7, <1>8, RolesKept
  <1>10. LatchInv'
    BY <1>1, <1>5, <1>7, <1>8, LatchKept
  <1>11. result = None /\ c # None /\ first_completed
    BY <1>1, CoroAssumption DEF RaceInv, WinnerInv
  <1>12. WinnerInv'
    <2>1. \A d \in Coro : pc[d] = "won" => d = c
      BY <1>1 DEF RaceInv, WinnerInv
    <2>2. \A d \in Coro : pc[d] \notin {"set", "wake"}
      BY <1>11, CoroAssumption DEF RaceInv, WinnerInv
    <2>3. \A d \in Coro : /\ pc'[d] # "won" /\ pc'[d] # "wake"
                          /\ pc'[d] = "set" => d = c
      BY <1>5, <1>6, <2>1, <2>2
    <2> QED
      BY <1>1, <1>7, <1>11, <2>3 DEF RaceInv, WinnerInv
  <1> QED
    BY <1>5, <1>9, <1>10, <1>11, <1>12 DEF RaceInv

(* A step after which each is where it was with the latch. *)
LEMMA LatchSame ==
  ASSUME RaceInv, UNCHANGED <<children, started, count_, awaiting_, freed>>,
         pc'[Parent] = pc[Parent], \A d \in children : (Past(d)' <=> Past(d))
  PROVE  LatchInv'
  <1>1. Counted' = Counted
    BY DEF Counted
  <1>2. (Subtracted' <=> Subtracted)
    BY DEF Subtracted
  <1>3. count_' = Cardinality(Counted') + (IF Subtracted' THEN 0 ELSE 1)
    BY <1>1, <1>2 DEF RaceInv, LatchInv
  <1> QED
    BY <1>1, <1>3 DEF RaceInv, LatchInv

(* notify.Set() of the winner *)
LEMMA NotifyCallerInv ==
  ASSUME EventInv, RaceInv, NEW c \in children, NotifyCaller(c)
  PROVE  EventInv' /\ RaceInv'
  <1> USE RaceActors
  <1>1. pc[c] = "set" /\ Set(c, "notify")
    BY DEF NotifyCaller
  <1>2. UNCHANGED <<children, started, count_, awaiting_, freed, first_completed, result>>
    BY DEF NotifyCaller, latch, race
  <1>3. c \in started /\ c \in Coro /\ c # Caller /\ c # Parent
    BY <1>1, ChildFacts
  <1>4. /\ EventInv' /\ signaled_' = TRUE
        /\ \A d \in Coro \ {c} : pc'[d] = pc[d] /\ to_wake'[d] = to_wake[d]
                                                /\ after'[d] = after[d]
        /\ pc'[c] = "notify" \/ (pc'[c] = "wake" /\ after'[c] = "notify")
    BY <1>1, <1>3, SetEvent DEF Running
  <1>5. children \subseteq Coro \ {Caller, Parent} /\ started \subseteq children
    BY DEF RaceInv, RaceRoles
  <1>6. \A d \in started : ChildAt(d)' /\ (Past(d)' <=> Past(d))
    <2>1. ChildAt(c)' /\ (Past(c)' <=> Past(c))
      BY <1>1, <1>4 DEF ChildAt, Past
    <2>2. \A d \in started \ {c} : ChildAt(d)' /\ (Past(d)' <=> Past(d))
      BY <1>4, <1>5 DEF RaceInv, RaceRoles, ChildAt, Past
    <2> QED
      BY <2>1, <2>2
  <1>7. RaceRoles'
    <2>1. CallerAt' /\ ParentAt'
      BY <1>3, <1>4 DEF RaceInv, RaceRoles, CallerAt, ParentAt
    <2> QED
      BY <1>2, <1>3, <1>4, <1>5, <1>6, <2>1 DEF RaceInv, RaceRoles
  <1>8. LatchInv'
    <2>1. \A d \in children \ started : (Past(d)' <=> Past(d))
      BY <1>3, <1>4, <1>5 DEF Past
    <2> QED
      BY <1>2, <1>3, <1>4, <1>6, <2>1, LatchSame
  <1>9. result = c /\ c # None
    BY <1>1, <1>3, CoroAssumption DEF RaceInv, WinnerInv
  <1>10. WinnerInv'
    <2>1. \A d \in Coro : pc'[d] \in {"won", "set", "got", "done"} => pc'[d] = pc[d]
      BY <1>4
    <2> QED
      BY <1>2, <1>9, <2>1 DEF RaceInv, WinnerInv
  <1>11. OnlyWaiter(Caller)'
    BY <1>4 DEF RaceInv, OnlyWaiter
  <1> QED
    BY <1>4, <1>7, <1>8, <1>10, <1>11 DEF RaceInv

(* The winner resumes the caller. *)
LEMMA ResumeCallerInv ==
  ASSUME EventInv, RaceInv, NEW c \in children, ResumeCaller(c)
  PROVE  EventInv' /\ RaceInv'
  <1> USE RaceActors
  <1>1. Resume(c, "got")
    BY DEF ResumeCaller
  <1>2. UNCHANGED <<children, started, count_, awaiting_, freed, first_completed, result>>
    BY DEF ResumeCaller, latch, race
  <1>3. children \subseteq Coro \ {Caller, Parent} /\ started \subseteq children
    BY DEF RaceInv, RaceRoles
  <1>4. /\ EventInv' /\ UNCHANGED <<signaled_, waiters_, after>>
        /\ pc[c] = "wake"
        /\ \E w \in Coro : /\ w # c /\ pc[w] = "susp"
                           /\ w = Head(to_wake[c])
                           /\ \A d \in Coro : pc'[d] = IF d = w THEN "got"
                                                ELSE IF d = c THEN "nest" ELSE pc[d]
        /\ \A d \in Coro \ {c} : to_wake'[d] = to_wake[d]
        /\ to_wake'[c] = Tail(to_wake[c])
    BY <1>1, <1>3, ResumeEvent DEF Running
  <1>5. /\ pc[Caller] = "susp"
        /\ \A d \in Coro : pc'[d] = IF d = Caller THEN "got"
                                    ELSE IF d = c THEN "nest" ELSE pc[d]
    BY <1>4 DEF RaceInv, OnlyWaiter
  <1>6. to_wake'[c] = <<>>
    <2>1. to_wake[c] \in Seq(Coro) /\ to_wake[c] # <<>> /\ Distinct(to_wake[c])
      BY <1>3, <1>4 DEF EventInv, StackInv, ListsInv
    <2>2. Contents(to_wake[c]) \subseteq {Caller}
      BY <1>3, WokenContents DEF EventInv, RaceInv, OnlyWaiter
    <2> QED
      BY <1>4, <2>1, <2>2, SingleTail
  <1>7. c \in started /\ c \in Coro /\ c # Caller /\ c # Parent
    BY <1>4, ChildFacts
  <1>8. \A d \in started : ChildAt(d)' /\ (Past(d)' <=> Past(d))
    <2>1. after[c] = "notify"
      BY <1>4, <1>7 DEF RaceInv, RaceRoles, ChildAt, Past
    <2>2. ChildAt(c)' /\ (Past(c)' <=> Past(c))
      BY <1>4, <1>5, <1>7, <2>1 DEF ChildAt, Past
    <2>3. \A d \in started \ {c} : ChildAt(d)' /\ (Past(d)' <=> Past(d))
      BY <1>3, <1>4, <1>5 DEF RaceInv, RaceRoles, ChildAt, Past
    <2> QED
      BY <2>2, <2>3
  <1>9. RaceRoles'
    <2>1. CallerAt' /\ ParentAt' /\ pc'[Caller] # "call"
      BY <1>4, <1>5, <1>7 DEF RaceInv, RaceRoles, CallerAt, ParentAt
    <2>2. \A d \in Coro \ (started \union {Caller, Parent}) : pc'[d] = "new"
      BY <1>5, <1>7 DEF RaceInv, RaceRoles
    <2> QED
      BY <1>2, <1>3, <1>8, <2>1, <2>2 DEF RaceRoles
  <1>10. LatchInv'
    <2>1. \A d \in children \ started : (Past(d)' <=> Past(d))
      BY <1>3, <1>4, <1>5, <1>7 DEF Past
    <2>2. pc'[Parent] = pc[Parent]
      BY <1>5, <1>7
    <2> QED
      BY <1>2, <1>8, <2>1, <2>2, LatchSame
  <1>11. WinnerInv'
    <2>1. result # None
      BY <1>4, <1>7 DEF RaceInv, WinnerInv
    <2>2. \A d \in Coro : pc'[d] \in {"won", "set", "wake"} => pc'[d] = pc[d]
      BY <1>5
    <2> QED
      BY <1>2, <1>4, <2>1, <2>2 DEF RaceInv, WinnerInv
  <1>12. OnlyWaiter(Caller)'
    BY <1>4, <1>5, <1>6 DEF RaceInv, OnlyWaiter
  <1> QED
    BY <1>4, <1>9, <1>10, <1>11, <1>12 DEF RaceInv

(* WhenAllTask::Start() of a child *)
LEMMA StartNextInv ==
  ASSUME EventInv, RaceInv, NEW c \in children, StartNext(c)
  PROVE  EventInv' /\ RaceInv'
  <1> USE RaceActors
  <1> DEFINE l == IF c = Timer THEN "sleep" ELSE "run"
  <1>1. /\ pc[Parent] = "start" /\ c \in children \ started
        /\ started' = started \union {c} /\ UNCHANGED <<signaled_, waiters_, to_wake>>
        /\ UNCHANGED <<children, count_, awaiting_, freed, first_completed, result>>
    BY DEF StartNext, StartChild, race, event
  <1>2. /\ pc' = [pc EXCEPT ![Parent] = "nest", ![c] = l]
        /\ runner' = [runner EXCEPT ![c] = Parent]
        /\ after' = [after EXCEPT ![Parent] = "start"]
    BY DEF StartNext, StartChild
  <1>3. l \in {"sleep", "run"}
    OBVIOUS
  <1> HIDE DEF l
  <1>4. children \subseteq Coro \ {Caller, Parent} /\ started \subseteq children
    BY DEF RaceInv, RaceRoles
  <1>5. c \in Coro /\ c # Caller /\ c # Parent /\ pc[c] = "new"
    BY <1>1 DEF RaceInv, RaceRoles
  <1>6. InlineTo(Parent, c, l, "start")
    <2>1. DOMAIN pc = Coro /\ pc = [d \in Coro |-> pc[d]]
      BY DEF EventInv, StackInv
    <2>2. UNCHANGED to_wake
      BY <1>1
    <2> QED
      BY <1>2, <1>5, <2>1, <2>2 DEF InlineTo
  <1>7. pc[Parent] \in Running /\ l \in Running /\ "start" \in Running
    BY <1>1, <1>3 DEF Running
  <1>8. /\ EventInv'
        /\ \A d \in Coro : pc'[d] = IF d = Parent THEN "nest" ELSE IF d = c THEN l ELSE pc[d]
        /\ \A d \in Coro : after'[d] = IF d = Parent THEN "start" ELSE after[d]
    BY <1>1, <1>5, <1>6, <1>7, InlineEvent
  <1>9. /\ pc'[Parent] = "nest" /\ after'[Parent] = "start" /\ pc'[c] = l
        /\ \A d \in Coro \ {Parent, c} : pc'[d] = pc[d] /\ after'[d] = after[d]
    BY <1>5, <1>8
  <1>10. RaceRoles'
    <2>1. CallerAt' /\ ParentAt' /\ pc'[Caller] # "call"
      BY <1>1, <1>5, <1>9 DEF RaceInv, RaceRoles, CallerAt, ParentAt
    <2>2. \A d \in started' : ChildAt(d)'
      BY <1>1, <1>3, <1>4, <1>9 DEF RaceInv, RaceRoles, ChildAt, Past
    <2>3. \A d \in Coro \ (started' \union {Caller, Parent}) : pc'[d] = "new"
      BY <1>1, <1>9 DEF RaceInv, RaceRoles
    <2> QED
      BY <1>1, <1>4, <2>1, <2>2, <2>3 DEF RaceRoles
  <1>11. LatchInv'
    <2>1. Counted' = Counted
      <3>1. \A d \in children : (Past(d)' <=> Past(d))
        BY <1>3, <1>4, <1>5, <1>9 DEF Past
      <3> QED
        BY <1>1, <3>1 DEF Counted
    <2>2. Subtracted' = FALSE /\ Subtracted = FALSE
      BY <1>1, <1>9 DEF Subtracted
    <2>3. count_' = Cardinality(Counted') + (IF Subtracted' THEN 0 ELSE 1)
      BY <1>1, <2>1, <2>2 DEF RaceInv, LatchInv
    <2> QED
      BY <1>1, <1>9, <2>1, <2>3 DEF RaceInv, LatchInv
  <1>12. WinnerInv'
    <2>1. \A d \in Coro : pc'[d] \in {"won", "set", "wake", "got", "done"} => pc'[d] = pc[d]
      BY <1>3, <1>9
    <2> QED
      BY <1>1, <2>1 DEF RaceInv, WinnerInv
  <1>13. OnlyWaiter(Caller)'
    <2>1. to_wake[Parent] = <<>>
      BY <1>1 DEF EventInv, StackInv
    <2> QED
      BY <1>1, <1>3, <1>9, <2>1 DEF RaceInv, OnlyWaiter
  <1> QED
    BY <1>8, <1>10, <1>11, <1>12, <1>13 DEF RaceInv

(* The latch and the children that it counts. *)
LEMMA LatchFacts ==
  ASSUME RaceInv
  PROVE  /\ IsFiniteSet(Counted) /\ Cardinality(Counted) \in Nat
         /\ Cardinality(Counted) = 0 <=> Counted = {}
         /\ count_ = Cardinality(Counted) + (IF Subtracted THEN 0 ELSE 1)
         /\ count_ \in Nat
  <1>1. Counted \in SUBSET Coro
    BY DEF Counted, RaceInv, RaceRoles
  <1>2. IsFiniteSet(Counted)
    BY <1>1, FS_Subset, CoroAssumption
  <1>3. Cardinality(Counted) \in Nat /\ (Cardinality(Counted) = 0 <=> Counted = {})
    BY <1>2, FS_CardinalityType, FS_EmptySet
  <1>4. count_ = Cardinality(Counted) + (IF Subtracted THEN 0 ELSE 1)
    BY DEF RaceInv, LatchInv
  <1> QED
    BY <1>2, <1>3, <1>4

(* The controller moves by itself: everyone else keeps his part. *)
LEMMA ParentMoves ==
  ASSUME RaceInv, Moves(Parent), UNCHANGED <<children, started, first_completed, result, signaled_>>,
         pc[Parent] \in {"start", "sub", "joined"},
         pc'[Parent] \in {"sub", "join", "joined", "done"}
  PROVE  /\ RaceRoles' /\ OnlyWaiter(Caller)' /\ WinnerInv' /\ Counted' = Counted
  <1> USE RaceActors
  <1>1. Parent \notin started /\ started \subseteq children
        /\ children \subseteq Coro \ {Caller, Parent}
    BY DEF RaceInv, RaceRoles
  <1>2. RaceRoles' /\ OnlyWaiter(Caller)'
    BY <1>1, RolesKept DEF ParentAt
  <1>3. WinnerInv'
    BY WinnerKept
  <1>4. \A d \in started : (Past(d)' <=> Past(d))
    BY <1>1, Others
  <1>5. \A d \in children \ started : pc[d] = "new" /\ d \in Coro /\ d # Parent
    BY <1>1 DEF RaceInv, RaceRoles
  <1>6. \A d \in children \ started : (Past(d)' <=> Past(d))
    BY <1>5 DEF Moves, Past
  <1> QED
    BY <1>2, <1>3, <1>4, <1>6 DEF Counted

(* TryAwait() and the end of the controller *)
LEMMA ParentStepInv ==
  ASSUME EventInv, RaceInv, UNCHANGED race, StoreAwaiting \/ TryAwait \/ Joined("done")
  PROVE  EventInv' /\ RaceInv'
  <1> USE RaceActors
  <1> USE DEF Running
  <1>0. UNCHANGED <<first_completed, result>>
    BY DEF race
  <1>1. CASE StoreAwaiting
    <2>1. /\ pc[Parent] = "start" /\ started = children /\ awaiting_' = Parent
          /\ UNCHANGED <<signaled_, waiters_, to_wake, runner, after, children, started,
                         count_, freed>>
      BY <1>1 DEF StoreAwaiting, event, stack
    <2>2. pc' = [pc EXCEPT ![Parent] = "sub"]
      BY <1>1 DEF StoreAwaiting
    <2>3. EventInv' /\ Moves(Parent) /\ pc'[Parent] = "sub"
      BY <2>1, <2>2, AtRace
    <2>4. RaceRoles' /\ OnlyWaiter(Caller)' /\ WinnerInv' /\ Counted' = Counted
      BY <1>0, <2>1, <2>3, ParentMoves
    <2>5. LatchInv'
      <3>1. Subtracted' = FALSE /\ Subtracted = FALSE
        BY <2>1, <2>3 DEF Subtracted
      <3>2. count_' = Cardinality(Counted') + (IF Subtracted' THEN 0 ELSE 1)
        BY <2>1, <2>4, <3>1, LatchFacts
      <3> QED
        BY <2>1, <2>3, <3>2 DEF RaceInv, LatchInv
    <2> QED
      BY <2>3, <2>4, <2>5 DEF RaceInv
  <1>2. CASE TryAwait
    <2>1. /\ pc[Parent] = "sub" /\ count_' = count_ - 1
          /\ UNCHANGED <<signaled_, waiters_, to_wake, after, children, started, awaiting_, freed>>
      BY <1>2 DEF TryAwait, event
    <2>2. Subtracted = FALSE /\ count_ = Cardinality(Counted) + 1
      BY <2>1, LatchFacts DEF Subtracted
    <2>3. \/ count_ > 1 /\ EventInv' /\ Moves(Parent) /\ pc'[Parent] = "join"
          \/ count_ <= 1 /\ EventInv' /\ Moves(Parent) /\ pc'[Parent] = "joined"
      <3>1. CASE count_ > 1 /\ Leave(Parent, "join")
        BY <2>1, <3>1, LeaveRace
      <3>2. CASE count_ <= 1 /\ pc' = [pc EXCEPT ![Parent] = "joined"] /\ UNCHANGED runner
        BY <2>1, <3>2, AtRace
      <3> QED
        BY <1>2, <3>1, <3>2 DEF TryAwait
    <2>4. RaceRoles' /\ OnlyWaiter(Caller)' /\ WinnerInv' /\ Counted' = Counted
      BY <1>0, <2>1, <2>3, ParentMoves
    <2>5. LatchInv'
      <3>1. Subtracted' = TRUE
        BY <2>3 DEF Subtracted
      <3>2. count_' = Cardinality(Counted') + (IF Subtracted' THEN 0 ELSE 1)
        BY <2>1, <2>2, <2>4, <3>1, LatchFacts
      <3>3. /\ pc'[Parent] = "join" => Counted' # {}
            /\ pc'[Parent] = "joined" => Counted' = {}
        BY <2>2, <2>3, <2>4, LatchFacts
      <3>4. pc'[Parent] \in {"join", "joined"}
        BY <2>3
      <3>5. awaiting_' = Parent /\ started' = children' /\ freed' \in BOOLEAN /\ ~freed'
        BY <2>1 DEF RaceInv, LatchInv
      <3> QED
        BY <3>2, <3>3, <3>4, <3>5 DEF LatchInv
    <2> QED
      BY <2>3, <2>4, <2>5 DEF RaceInv
  <1>3. CASE Joined("done")
    <2>1. /\ pc[Parent] = "joined" /\ freed' = TRUE /\ Leave(Parent, "done")
          /\ UNCHANGED <<signaled_, waiters_, children, started, count_, awaiting_>>
      BY <1>3 DEF Joined, event
    <2>2. EventInv' /\ Moves(Parent) /\ pc'[Parent] = "done"
      BY <2>1, LeaveRace
    <2>3. RaceRoles' /\ OnlyWaiter(Caller)' /\ WinnerInv' /\ Counted' = Counted
      BY <1>0, <2>1, <2>2, ParentMoves
    <2>4. LatchInv'
      <3>1. Subtracted' = TRUE /\ Subtracted = TRUE
        BY <2>1, <2>2 DEF Subtracted
      <3>2. count_' = Cardinality(Counted') + (IF Subtracted' THEN 0 ELSE 1)
        BY <2>1, <2>3, <3>1, LatchFacts
      <3> QED
        BY <2>1, <2>2, <2>3, <3>2 DEF RaceInv, LatchInv
    <2> QED
      BY <2>2, <2>3, <2>4 DEF RaceInv
  <1> QED
    BY <1>1, <1>2, <1>3

(* Notify(): the child that takes the last count resumes the controller. *)
LEMMA NotifyInv ==
  ASSUME EventInv, RaceInv, UNCHANGED race, NEW c \in children, Notify(c)
  PROVE  EventInv' /\ RaceInv'
  <1> USE RaceActors
  <1>0. UNCHANGED <<first_completed, result>>
    BY DEF race
  <1>1. /\ pc[c] = "notify" /\ count_' = count_ - 1
        /\ UNCHANGED <<signaled_, waiters_, to_wake, children, started, awaiting_, freed>>
    BY DEF Notify, event
  <1>2. c \in started /\ c \in Coro /\ c # Caller /\ c # Parent
    BY <1>1, ChildFacts
  <1>3. c \in Counted
    BY <1>1 DEF Counted, Past
  <1>4. /\ Cardinality(Counted \ {c}) = Cardinality(Counted) - 1
        /\ IsFiniteSet(Counted \ {c})
        /\ Cardinality(Counted \ {c}) = 0 <=> Counted \ {c} = {}
    <2>1. /\ Cardinality(Counted \ {c}) = Cardinality(Counted) - 1
          /\ IsFiniteSet(Counted \ {c})
      BY <1>3, LatchFacts, FS_RemoveElement
    <2> QED
      BY <2>1, FS_EmptySet
  <1>5. pc[Parent] \notin {"joined", "done"}
    BY <1>3 DEF RaceInv, LatchInv
  <1>6. children \subseteq Coro \ {Caller, Parent} /\ started \subseteq children
        /\ \A d \in children \ started : pc[d] = "new"
    BY DEF RaceInv, RaceRoles
  <1>7. CASE count_ # 1
    <2>1. Leave(c, "done") /\ UNCHANGED after
      BY <1>7 DEF Notify
    <2>2. pc[c] \in Running /\ "done" \in Running
      BY <1>1 DEF Running
    <2>3. EventInv' /\ Moves(c) /\ pc'[c] = "done"
      BY <1>1, <1>2, <2>1, <2>2, LeaveRace
    <2>4. ChildAt(c)' /\ Past(c)'
      BY <2>3 DEF ChildAt, Past
    <2>5. RaceRoles' /\ OnlyWaiter(Caller)'
      BY <1>1, <1>2, <2>3, <2>4, RolesKept
    <2>6. WinnerInv'
      BY <1>0, <1>1, <1>2, <2>3, WinnerKept
    <2>7. Counted' = Counted \ {c}
      <3>1. \A d \in started \ {c} : (Past(d)' <=> Past(d))
        BY <1>1, <1>2, <2>3, Others
      <3>2. \A d \in children \ started : (Past(d)' <=> Past(d))
        BY <1>2, <1>6, <2>3 DEF Past, Moves
      <3> QED
        BY <1>1, <2>4, <3>1, <3>2 DEF Counted
    <2>8. LatchInv'
      <3>1. \/ pc'[Parent] = pc[Parent]
            \/ pc[Parent] = "nest" /\ pc'[Parent] \in {"notify", "end", "wait", "start"}
        BY <1>1, <1>2, <2>3, Others
      <3>2. (Subtracted' <=> Subtracted)
        BY <3>1 DEF Subtracted
      <3>3. count_' = Cardinality(Counted') + (IF Subtracted' THEN 0 ELSE 1)
        BY <1>1, <1>4, <2>7, <3>2, LatchFacts
      <3>4. pc[Parent] = "join" => Counted' # {}
        <4>1. pc[Parent] = "join" => count_ = Cardinality(Counted)
          BY LatchFacts DEF Subtracted
        <4> QED
          BY <1>4, <1>7, <2>7, <4>1, LatchFacts
      <3>5. pc'[Parent] \notin {"joined", "done"}
        BY <1>5, <3>1
      <3> QED
        BY <1>1, <3>1, <3>3, <3>4, <3>5 DEF RaceInv, LatchInv
    <2> QED
      BY <2>3, <2>5, <2>6, <2>8 DEF RaceInv
  <1>8. CASE count_ = 1
    <2>1. pc[Parent] = "join" /\ awaiting_ = Parent /\ Counted \ {c} = {}
      <3>1. Cardinality(Counted) # 0
        BY <1>3, LatchFacts
      <3>2. Subtracted /\ Cardinality(Counted) = 1
        BY <1>8, <3>1, LatchFacts
      <3>3. pc[Parent] = "join"
        BY <1>5, <3>2 DEF Subtracted
      <3>4. awaiting_ = Parent
        BY <3>3 DEF RaceInv, LatchInv
      <3> QED
        BY <1>4, <3>2, <3>3, <3>4
    <2>2. /\ pc' = [d \in Coro |-> IF d = c THEN "nest"
                                   ELSE IF d = Parent THEN "joined" ELSE pc[d]]
          /\ runner' = [d \in Coro |-> IF d = Parent THEN c ELSE runner[d]]
          /\ after' = [after EXCEPT ![c] = "end"]
      BY <1>8, <2>1 DEF Notify
    <2>3. InlineTo(c, Parent, "joined", "end")
      <3>1. runner = [d \in Coro |-> runner[d]]
        BY DEF EventInv, StackInv
      <3>2. [runner EXCEPT ![Parent] = c] = [d \in Coro |-> IF d = Parent THEN c ELSE runner[d]]
        BY <3>1
      <3> QED
        BY <1>1, <2>2, <3>2 DEF InlineTo
    <2>4. pc[c] \in Running /\ "joined" \in Running /\ "end" \in Running
      BY <1>1 DEF Running
    <2>5. /\ EventInv'
          /\ \A d \in Coro : pc'[d] = IF d = c THEN "nest"
                                      ELSE IF d = Parent THEN "joined" ELSE pc[d]
          /\ \A d \in Coro : after'[d] = IF d = c THEN "end" ELSE after[d]
      BY <1>1, <1>2, <2>1, <2>3, <2>4, InlineEvent
    <2>6. /\ pc'[Parent] = "joined" /\ pc'[c] = "nest" /\ after'[c] = "end"
          /\ \A d \in Coro \ {Parent, c} : pc'[d] = pc[d] /\ after'[d] = after[d]
      BY <1>2, <2>5
    <2>7. RaceRoles'
      <3>1. CallerAt' /\ ParentAt' /\ (pc'[Caller] = "call" => pc[Caller] = "call")
        BY <1>2, <2>6 DEF RaceInv, RaceRoles, CallerAt, ParentAt
      <3>2. pc[Caller] # "call"
        BY <2>1 DEF RaceInv, RaceRoles
      <3>3. \A d \in started' : ChildAt(d)'
        <4>1. ChildAt(c)'
          BY <2>6 DEF ChildAt, Past
        <4>2. \A d \in started \ {c} : ChildAt(d)'
          BY <1>6, <2>6 DEF RaceInv, RaceRoles, ChildAt, Past
        <4> QED
          BY <1>1, <4>1, <4>2
      <3>4. \A d \in Coro \ (started \union {Caller, Parent}) : pc'[d] = "new"
        BY <1>2, <2>6 DEF RaceInv, RaceRoles
      <3> QED
        BY <1>1, <1>6, <3>1, <3>2, <3>3, <3>4 DEF RaceRoles
    <2>8. LatchInv'
      <3>1. Counted' = {}
        <4>1. Past(c)'
          BY <2>6 DEF Past
        <4>2. \A d \in children \ {c} : (Past(d)' <=> Past(d))
          BY <1>6, <2>6 DEF Past
        <4> QED
          BY <1>1, <2>1, <4>1, <4>2 DEF Counted
      <3>2. Subtracted' = TRUE
        BY <2>6 DEF Subtracted
      <3>3. count_' = Cardinality(Counted') + (IF Subtracted' THEN 0 ELSE 1)
        BY <1>1, <1>8, <3>1, <3>2, FS_EmptySet
      <3>4. awaiting_' = Parent /\ started' = children' /\ freed' \in BOOLEAN /\ ~freed'
        BY <1>1, <2>1 DEF RaceInv, LatchInv
      <3> QED
        BY <2>6, <3>1, <3>3, <3>4 DEF LatchInv
    <2>9. WinnerInv'
      <3>1. \A d \in Coro : pc'[d] \in {"won", "set", "wake", "got", "done"} => pc'[d] = pc[d]
        BY <2>6
      <3> QED
        BY <1>0, <1>1, <3>1 DEF RaceInv, WinnerInv
    <2>10. OnlyWaiter(Caller)'
      <3>1. to_wake[c] = <<>>
        BY <1>1, <1>2 DEF EventInv, StackInv
      <3> QED
        BY <1>1, <2>6, <3>1 DEF RaceInv, OnlyWaiter
    <2> QED
      BY <2>5, <2>7, <2>8, <2>9, <2>10 DEF RaceInv
  <1> QED
    BY <1>7, <1>8

(* Every step of the race. *)
LEMMA RaceStepInv ==
  ASSUME EventInv, RaceInv, RaceNext
  PROVE  EventInv' /\ RaceInv' /\ (result # None => result' = result)
  <1>1. EventInv' /\ RaceInv'
    <2>1. CASE LatchStep /\ UNCHANGED race
      BY <2>1, ParentStepInv, NotifyInv, ChildStepInv DEF LatchStep
    <2>2. CASE WaitNotify \/ SuspendNotify \/ ReturnResult
      BY <2>2, CallerStepInv
    <2>3. CASE StartController
      BY <2>3, StartControllerInv
    <2>4. CASE ControllerEnds
      BY <2>4, ParentStepInv DEF ControllerEnds
    <2>5. CASE Sleep
      BY <2>5, ChildStepInv
    <2>6. ASSUME NEW c \in children, RaceStep(c) \/ ChildEnd(c) \/ YieldTask(c)
          PROVE  EventInv' /\ RaceInv'
      <3>1. CASE YieldTask(c)
        BY <3>1, ChildStepInv
      <3>2. CASE RaceStep(c) \/ ChildEnd(c)
        BY <3>2, StartNextInv, PublishInv, NotifyCallerInv, ResumeCallerInv, ChildEndInv
           DEF RaceStep
      <3> QED
        BY <2>6, <3>1, <3>2
    <2> QED
      BY <2>1, <2>2, <2>3, <2>4, <2>5, <2>6 DEF RaceNext
  <1>2. result' = result \/ \E c \in children : Publish(c)
    BY DEF RaceNext, RaceStep, StartController, WaitNotify, SuspendNotify, ReturnResult,
       ControllerEnds, Sleep, ChildEnd, YieldTask, StartNext, NotifyCaller, ResumeCaller, race
  <1>3. ASSUME NEW c \in children, Publish(c) PROVE result = None
    BY <1>3, PublishInv
  <1> QED
    BY <1>1, <1>2, <1>3

-----------------------------------------------------------------------------
(* The composition *)

(* Nobody is in a list, on a stack or in the event to begin with. *)
LEMMA EventInitInv ==
  ASSUME NEW set \in BOOLEAN, EventInit(set), pc \in [Coro -> {"run", "new", "call"}]
  PROVE  EventInv
  <1>1. StackInit /\ waiters_ = <<>> /\ signaled_ \in BOOLEAN
    BY DEF EventInit
  <1>2. pc \in [Coro -> Running \union Asleep] /\ "run" \in Running
    BY DEF Running, Asleep
  <1>3. StackInv(Running, Asleep) /\ ListsInv(Asleep) /\ Woken = {}
    BY <1>1, <1>2, StackInitInv, EventLabels
  <1> QED
    BY <1>1, <1>3, NothingQueued DEF EventInv

(* The three programs begin well. *)
LEMMA InitIndInv ==
  ASSUME Init
  PROVE  IndInv
  <1>1. CASE program = "event" /\ EventInit(FALSE) /\ pc = [c \in Coro |-> "run"]
             /\ one_thread = FALSE /\ NoRace({})
    <2>1. EventInv
      BY <1>1, EventInitInv
    <2> QED
      BY <1>1, <2>1 DEF IndInv, NoRace, LatchInit
  <1>2. CASE program = "group" /\ GroupInit /\ NoRace({})
    <2>1. /\ EventInit(TRUE) /\ NoGroup /\ one_thread \in BOOLEAN
          /\ pc = [c \in Coro |-> IF c = Owner THEN "run" ELSE "new"]
      BY <1>2 DEF GroupInit
    <2>2. pc \in [Coro -> {"run", "new", "call"}]
      BY <2>1
    <2>3. EventInv
      BY <2>1, <2>2, EventInitInv
    <2>4. \A c \in Coro : pc[c] = IF c = Owner THEN "run" ELSE "new"
      BY <2>1
    <2>5. size = 0 /\ ended = {} /\ joined = FALSE
      BY <2>1 DEF NoGroup
    <2>6. /\ child \in [Coro -> Task \union {None}]
          /\ \A c \in Coro : child[c] = None
      BY <2>1 DEF NoGroup
    <2>7. Owner \in Coro /\ Owner \notin Task /\ Task \subseteq Coro
      BY TaskGroupAssumption
    <2>8. GroupRoles
      BY <2>4, <2>5, <2>7 DEF GroupRoles, Active
    <2>9. Starts
      BY <2>4, <2>6 DEF Starts
    <2>10. Live = {} /\ Begun = {}
      BY <2>4, <2>7 DEF Live, Begun
    <2>11. SizeExact
      <3>1. Live \union Begun = {}
        BY <2>10
      <3> QED
        BY <2>5, <3>1, FS_EmptySet DEF SizeExact
    <2>12. OnlyWaiter(Owner)
      BY <2>4 DEF OnlyWaiter
    <2>13. signaled_ = TRUE
      BY <2>1 DEF EventInit
    <2>14. OneThread
      BY <2>4, <2>5, <2>13 DEF OneThread, Between
    <2>15. GroupInv
      BY <2>1, <2>5, <2>8, <2>9, <2>11, <2>12, <2>14 DEF GroupInv
    <2>16. children = {} /\ freed = FALSE
      BY <1>2 DEF NoRace, LatchInit
    <2> QED
      BY <1>2, <2>3, <2>15, <2>16 DEF IndInv
  <1>3. CASE program = "race" /\ RaceInit /\ one_thread = FALSE
    <2> USE RaceActors
    <2>1. /\ EventInit(FALSE)
          /\ pc = [c \in Coro |-> IF c = Caller THEN "call" ELSE "new"]
          /\ first_completed = FALSE /\ result = None
      BY <1>3 DEF RaceInit
    <2>2. PICK set \in Contests : LatchInit(set)
      BY <1>3 DEF RaceInit
    <2>3. set \subseteq Coro \ {Caller, Parent} /\ children = set /\ started = {}
          /\ count_ = Cardinality(set) + 1 /\ freed = FALSE
      BY <2>2 DEF Contests, LatchInit
    <2>4. pc \in [Coro -> {"run", "new", "call"}]
      BY <2>1
    <2>5. EventInv
      BY <2>1, <2>4, EventInitInv
    <2>6. \A c \in Coro : pc[c] = IF c = Caller THEN "call" ELSE "new"
      BY <2>1
    <2>7. RaceRoles
      BY <2>3, <2>6 DEF RaceRoles, CallerAt, ParentAt
    <2>8. LatchInv
      <3>1. Counted = set
        BY <2>3, <2>6 DEF Counted, Past
      <3>2. pc[Parent] = "new" /\ Subtracted = FALSE
        BY <2>6 DEF Subtracted
      <3> QED
        BY <2>3, <3>1, <3>2 DEF LatchInv
    <2>9. WinnerInv
      <3>1. signaled_ = FALSE
        BY <2>1 DEF EventInit
      <3> QED
        BY <2>1, <2>6, <3>1 DEF WinnerInv
    <2>10. OnlyWaiter(Caller)
      BY <2>6 DEF OnlyWaiter
    <2>11. RaceInv
      BY <2>7, <2>8, <2>9, <2>10 DEF RaceInv
    <2> QED
      BY <1>3, <2>5, <2>11 DEF IndInv
  <1> QED
    BY <1>1, <1>2, <1>3 DEF Init

(* Every step keeps the invariant, and a published result. *)
LEMMA NextIndInv ==
  ASSUME IndInv, Next
  PROVE  IndInv' /\ (result # None => result' = result)
  <1>1. CASE EventProgram
    <2>1. program = "event" /\ EventInv /\ one_thread = FALSE /\ children = {} /\ freed = FALSE
      BY <1>1 DEF EventProgram, IndInv
    <2>2. UNCHANGED <<program, one_thread, children, freed, result>>
      BY <1>1 DEF EventProgram, group, latch, race
    <2>3. PICK c \in Coro : EventStep(c)
      BY <1>1, UsersAssumption DEF EventProgram
    <2>4. EventInv'
      BY <2>1, <2>3, EventStepInv
    <2> QED
      BY <2>1, <2>2, <2>4 DEF IndInv
  <1>2. CASE GroupProgram
    <2>1. program = "group" /\ EventInv /\ GroupInv /\ children = {} /\ freed = FALSE
      BY <1>2 DEF GroupProgram, IndInv
    <2>2. UNCHANGED <<program, children, freed, result>> /\ GroupNext
      BY <1>2 DEF GroupProgram, latch, race
    <2>3. EventInv' /\ GroupInv'
      BY <2>1, <2>2, GroupStepInv
    <2> QED
      BY <2>1, <2>2, <2>3 DEF IndInv
  <1>3. CASE RaceProgram
    <2>1. program = "race" /\ EventInv /\ RaceInv /\ one_thread = FALSE
      BY <1>3 DEF RaceProgram, IndInv
    <2>2. UNCHANGED <<program, one_thread>> /\ RaceNext
      BY <1>3 DEF RaceProgram, group
    <2>3. EventInv' /\ RaceInv' /\ (result # None => result' = result)
      BY <2>1, <2>2, RaceStepInv
    <2> QED
      BY <2>1, <2>2, <2>3 DEF IndInv
  <1> QED
    BY <1>1, <1>2, <1>3 DEF Next

(* So does a step of something else. *)
LEMMA StutterIndInv ==
  ASSUME IndInv, UNCHANGED allVars
  PROVE  IndInv'
  <1>1. UNCHANGED <<program, pc, to_wake, runner, after, signaled_, waiters_>>
    BY DEF allVars, groupVars, raceVars, vars, event, stack
  <1>2. UNCHANGED <<size, child, ended, joined, one_thread>>
    BY DEF allVars, groupVars, group
  <1>3. UNCHANGED <<children, started, count_, awaiting_, freed, first_completed, result>>
    BY DEF allVars, raceVars, latch, race
  <1>4. EventInv'
    BY <1>1 DEF IndInv, EventInv, StackInv, ListsInv, Woken
  <1>5. GroupInv => GroupInv'
    BY <1>1, <1>2 DEF GroupInv, GroupRoles, Active, Over, Starts, SizeExact, Live, Begun,
       OnlyWaiter, OneThread
  <1>6. RaceInv => RaceInv'
    BY <1>1, <1>3 DEF RaceInv, RaceRoles, CallerAt, ParentAt, ChildAt, Past, LatchInv,
       Counted, Subtracted, WinnerInv, OnlyWaiter
  <1> QED
    BY <1>1, <1>2, <1>3, <1>4, <1>5, <1>6 DEF IndInv

(***************************************************************************)
(* The inductive invariant of the event, of TaskGroup (task_group.hpp) and *)
(* of WhenAny and WithTimeout over WhenAll, for every set of coroutines.   *)
(***************************************************************************)
THEOREM Inductive == Spec => []IndInv
  <1>1. Init => IndInv
    BY InitIndInv
  <1>2. IndInv /\ [Next]_allVars => IndInv'
    BY NextIndInv, StutterIndInv
  <1> QED
    BY <1>1, <1>2, PTL DEF Spec

(***************************************************************************)
(* AsyncEvent (event.hpp:80-95): whoever uses it, each suspended coroutine *)
(* is in waiters_ or in the to_wake of one Set(), once, and nobody is      *)
(* listed while the event is set.                                          *)
(***************************************************************************)
THEOREM EventHandlesSafe == Spec => []HandlesValid
  <1>1. ASSUME IndInv PROVE HandlesValid
    <2>1. EventInv /\ StackInv(Running, Asleep)
      BY <1>1 DEF IndInv, EventInv
    <2>2. to_wake \in [Coro -> Seq(Coro)]
      BY <2>1 DEF StackInv
    <2>3. InOnePlace(waiters_, {c \in Coro : pc[c] = "susp"})
      BY <2>1, <2>2, OnePlace DEF EventInv
    <2> QED
      BY <2>1, <2>3 DEF HandlesValid, EventInv
  <1> QED
    BY <1>1, Inductive, PTL

(***************************************************************************)
(* TaskGroup on one event loop (task_group.hpp:7-8): past co_await group,  *)
(* every task that was started has ended and size is 0, however tasks      *)
(* start tasks and wherever they suspend.                                  *)
(***************************************************************************)
THEOREM GroupJoins == Spec => []JoinsAllOnOneThread
  <1>1. ASSUME IndInv PROVE JoinsAllOnOneThread
    <2> SUFFICES ASSUME one_thread, joined
                 PROVE  size = 0 /\ \A t \in Task : pc[t] # "new" => t \in ended
      BY DEF JoinsAllOnOneThread, JoinsAll
    <2>1. OneThread
      BY <1>1 DEF IndInv, GroupInv
    <2> QED
      BY <2>1 DEF OneThread, Live
  <1> QED
    BY <1>1, Inductive, PTL

(***************************************************************************)
(* WhenAll (when_all.hpp): once the latch and the children's frames are    *)
(* destroyed, every child is past its decrement of the latch.              *)
(***************************************************************************)
THEOREM LatchOutlivesChildren == Spec => []NoUseAfterFree
  <1>1. ASSUME IndInv PROVE NoUseAfterFree
    <2> SUFFICES ASSUME freed, NEW c \in children
                 PROVE  Past(c)
      BY DEF NoUseAfterFree, Past
    <2>1. LatchInv
      BY <1>1 DEF IndInv, RaceInv
    <2> QED
      BY <2>1 DEF LatchInv, Counted
  <1> QED
    BY <1>1, Inductive, PTL

(***************************************************************************)
(* WhenAny and WithTimeout (when_any.hpp, timeout.hpp): the caller reads   *)
(* the result only when a child has published it.                          *)
(***************************************************************************)
THEOREM ResultThere == Spec => []ResultPublished
  <1>1. ASSUME IndInv PROVE ResultPublished
    <2> SUFFICES ASSUME pc[Caller] \in {"got", "done"}, children # {}
                 PROVE  result \in children
      BY DEF ResultPublished
    <2>1. WinnerInv
      BY <1>1 DEF IndInv, RaceInv
    <2> QED
      BY <2>1 DEF WinnerInv
  <1> QED
    BY <1>1, Inductive, PTL

(***************************************************************************)
(* WhenAny and WithTimeout: a published result is never replaced, however  *)
(* many children end at once, for every number of children.                *)
(***************************************************************************)
THEOREM WinnerStays == Spec => OneWinner
  <1>1. IndInv /\ [Next]_allVars => [result # None => result' = result]_raceVars
    <2> SUFFICES ASSUME IndInv, [Next]_allVars
                 PROVE  result # None => result' = result
      OBVIOUS
    <2>1. CASE Next
      BY <2>1, NextIndInv
    <2>2. CASE UNCHANGED allVars
      BY <2>2 DEF allVars, raceVars, race
    <2> QED
      BY <2>1, <2>2
  <1> QED
    BY <1>1, Inductive, PTL DEF Spec, OneWinner

=============================================================================
