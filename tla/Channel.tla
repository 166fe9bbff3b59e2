------------------------------ MODULE Channel ------------------------------
(***************************************************************************)
(* Channel<T> (core/channel.hpp).  A Send or a Receive is await_ready and, *)
(* when that returns false, await_suspend: two critical sections of mutex_ *)
(* that run the same tests.  A Send hands its message straight to a waiting*)
(* receiver; a Receive that frees a place moves the message of a waiting   *)
(* sender into it.  The counterpart, and after Close() every waiter, is    *)
(* resumed inline once mutex_ is unlocked: it runs on the stack of the     *)
(* operation that woke it, which returns only when it gives the thread up. *)
(* Every coroutine starts on a thread of its own.                          *)
(***************************************************************************)
EXTENDS Coroutines

CONSTANTS
  capacity_,     (* Channel::capacity_                                      *)
  MaxSends       (* bound on the number of Send() calls                     *)

ASSUME ChannelAssumption ==
  capacity_ \in Nat \ {0} /\ MaxSends \in Nat

Msg == 1 .. MaxSends    (* the value of the n-th Send() is n                *)
NoMsg == 0              (* an empty std::optional<T>                        *)

VARIABLES
  buffer_,
  closed_,
  receiver_waiters_,    (* handles; the result slot is result_[handle]      *)
  sender_waiters_,      (* handles; the value is value_[handle]             *)
  value_,               (* SendAwaitable::value_ of each coroutine          *)
  sent_,                (* SendAwaitable::sent_, FALSE also when failed_    *)
  result_,              (* ReceiveAwaitable::result_                        *)
  abandoned,            (* the coroutines that waited when the channel was  *)
                        (* destroyed                                        *)
  destroyed,
  sends,                (* history: Send() calls so far                     *)
  taken,                (* history: messages receivers took, in that order  *)
  acked, refused,       (* history: messages whose Send() returned TRUE,    *)
                        (* FALSE                                            *)
  got,                  (* history: messages Receive() returned             *)
  ended                 (* history: some Receive() returned nullopt         *)

chan == <<buffer_, closed_, receiver_waiters_, sender_waiters_>>
gone == <<abandoned, destroyed>>
hist == <<acked, refused, got, ended>>
vars == <<chan, gone, value_, sent_, result_, pc, stack, sends, taken, hist>>

(* "run" in user code      "send?", "recv?" await_ready returned false      *)
(* "send", "recv" suspended                                                 *)
Init ==
  /\ buffer_ = <<>> /\ closed_ = FALSE
  /\ receiver_waiters_ = <<>> /\ sender_waiters_ = <<>>
  /\ value_ = [c \in Coro |-> NoMsg]
  /\ sent_ = [c \in Coro |-> FALSE]
  /\ result_ = [c \in Coro |-> NoMsg]
  /\ pc = [c \in Coro |-> "run"]
  /\ StackInit
  /\ abandoned = {} /\ destroyed = FALSE
  /\ sends = 0 /\ taken = <<>>
  /\ acked = {} /\ refused = {} /\ got = {} /\ ended = FALSE

Wakes(c, handles) == WakeAll(c, handles, "run")

(* await_resume.  An operation that does not suspend reads here, at its     *)
(* critical section, what nobody changes before its await_resume.           *)
SendReturns(m, ok) ==
  /\ acked' = IF ok THEN acked \union {m} ELSE acked
  /\ refused' = IF ok THEN refused ELSE refused \union {m}
  /\ UNCHANGED <<got, ended>>

ReceiveReturns(m) ==
  /\ got' = IF m # NoMsg THEN got \union {m} ELSE got
  /\ ended' = (ended \/ m = NoMsg)
  /\ UNCHANGED <<acked, refused>>

-----------------------------------------------------------------------------
(* Send: the value of awaitable c is m. *)
SendFails(c, m) ==
  /\ closed_
  /\ Wakes(c, <<>>)
  /\ SendReturns(m, FALSE)
  /\ UNCHANGED <<chan, sent_, result_, taken>>

HandOver(c, m) ==
  /\ ~closed_ /\ receiver_waiters_ # <<>>
  /\ receiver_waiters_' = Tail(receiver_waiters_)
  /\ result_' = [result_ EXCEPT ![Head(receiver_waiters_)] = m]
  /\ taken' = Append(taken, m)
  /\ sent_' = [sent_ EXCEPT ![c] = TRUE]
  /\ Wakes(c, <<Head(receiver_waiters_)>>)
  /\ SendReturns(m, TRUE)
  /\ UNCHANGED <<buffer_, closed_, sender_waiters_>>

Buffer(c, m) ==
  /\ ~closed_ /\ receiver_waiters_ = <<>>
  /\ Len(buffer_) < capacity_
  /\ buffer_' = Append(buffer_, m)
  /\ sent_' = [sent_ EXCEPT ![c] = TRUE]
  /\ Wakes(c, <<>>)
  /\ SendReturns(m, TRUE)
  /\ UNCHANGED <<closed_, receiver_waiters_, sender_waiters_, result_, taken>>

SendMustWait ==
  ~closed_ /\ receiver_waiters_ = <<>> /\ Len(buffer_) >= capacity_

(* SendAwaitable::await_ready, of a new awaitable *)
SendReady(c) ==
  LET m == sends + 1 IN
  /\ pc[c] = "run"
  /\ sends < MaxSends
  /\ sends' = m
  /\ value_' = [value_ EXCEPT ![c] = m]
  /\ \/ SendFails(c, m) \/ HandOver(c, m) \/ Buffer(c, m)
     \/ /\ SendMustWait
        /\ pc' = [pc EXCEPT ![c] = "send?"]
        /\ sent_' = [sent_ EXCEPT ![c] = FALSE]
        /\ UNCHANGED <<chan, result_, stack, taken, hist>>

(* SendAwaitable::await_suspend *)
SendSuspend(c) ==
  LET m == value_[c] IN
  /\ pc[c] = "send?"
  /\ \/ SendFails(c, m) \/ HandOver(c, m) \/ Buffer(c, m)
     \/ /\ SendMustWait
        /\ sender_waiters_' = Append(sender_waiters_, c)
        /\ Leave(c, "send")
        /\ UNCHANGED <<buffer_, closed_, receiver_waiters_, sent_, result_, taken, hist>>
  /\ UNCHANGED <<value_, sends>>

-----------------------------------------------------------------------------
Bug_PopUnacked(c) ==  (* sent_flag is not stored *)
  LET m == Head(buffer_)
      s == Head(sender_waiters_)
  IN
  /\ buffer_ # <<>>
  /\ result_' = [result_ EXCEPT ![c] = m]
  /\ taken' = Append(taken, m)
  /\ ReceiveReturns(m)
  /\ IF sender_waiters_ = <<>>
     THEN buffer_' = Tail(buffer_) /\ Wakes(c, <<>>) /\ UNCHANGED sender_waiters_
     ELSE /\ buffer_' = Append(Tail(buffer_), value_[s])
          /\ sender_waiters_' = Tail(sender_waiters_)
          /\ Wakes(c, <<s>>)
  /\ UNCHANGED <<sent_, closed_, receiver_waiters_>>

(* Receive: the front of buffer_, and its place for the first sender. *)
Pop(c) ==
  LET m == Head(buffer_) IN
  /\ buffer_ # <<>>
  /\ result_' = [result_ EXCEPT ![c] = m]
  /\ taken' = Append(taken, m)
  /\ ReceiveReturns(m)
  /\ \/ /\ sender_waiters_ = <<>>
        /\ buffer_' = Tail(buffer_)
        /\ Wakes(c, <<>>)
        /\ UNCHANGED <<sent_, sender_waiters_>>
     \/ LET s == Head(sender_waiters_) IN
        /\ sender_waiters_ # <<>>
        /\ buffer_' = Append(Tail(buffer_), value_[s])
        /\ sender_waiters_' = Tail(sender_waiters_)
        /\ sent_' = [sent_ EXCEPT ![s] = TRUE]
        /\ Wakes(c, <<s>>)
  /\ UNCHANGED <<closed_, receiver_waiters_>>

ReceiveEnds(c) ==
  /\ buffer_ = <<>> /\ closed_
  /\ result_' = [result_ EXCEPT ![c] = NoMsg]
  /\ Wakes(c, <<>>)
  /\ ReceiveReturns(NoMsg)
  /\ UNCHANGED <<chan, sent_, taken>>

ReceiveMustWait == buffer_ = <<>> /\ ~closed_

(* ReceiveAwaitable::await_ready, of a new awaitable *)
ReceiveReady(c) ==
  /\ pc[c] = "run"
  /\ \/ Pop(c) \/ ReceiveEnds(c)
     \/ /\ ReceiveMustWait
        /\ pc' = [pc EXCEPT ![c] = "recv?"]
        /\ result_' = [result_ EXCEPT ![c] = NoMsg]
        /\ UNCHANGED <<chan, sent_, stack, taken, hist>>
  /\ UNCHANGED <<value_, sends>>

Bug_ReceiveSuspend(c) ==  (* nothing is tested again *)
  /\ pc[c] = "recv?"
  /\ receiver_waiters_' = Append(receiver_waiters_, c)
  /\ Leave(c, "recv")
  /\ UNCHANGED <<buffer_, closed_, sender_waiters_, sent_, result_, taken, hist>>
  /\ UNCHANGED <<value_, sends>>

(* ReceiveAwaitable::await_suspend *)
ReceiveSuspend(c) ==
  /\ pc[c] = "recv?"
  /\ \/ Pop(c) \/ ReceiveEnds(c)
     \/ /\ ReceiveMustWait
        /\ receiver_waiters_' = Append(receiver_waiters_, c)
        /\ Leave(c, "recv")
        /\ UNCHANGED <<buffer_, closed_, sender_waiters_, sent_, result_, taken, hist>>
  /\ UNCHANGED <<value_, sends>>

-----------------------------------------------------------------------------
Bug_Close(c) ==  (* the waiters stay listed *)
  /\ pc[c] = "run" /\ ~closed_
  /\ closed_' = TRUE
  /\ Wakes(c, receiver_waiters_ \o sender_waiters_)
  /\ UNCHANGED <<buffer_, receiver_waiters_, sender_waiters_, value_, sent_,
                 result_, sends, taken, hist>>

Bug_CloseForgets(c) ==  (* the senders are cleared and not woken *)
  /\ pc[c] = "run" /\ ~closed_
  /\ closed_' = TRUE
  /\ Wakes(c, receiver_waiters_)
  /\ receiver_waiters_' = <<>> /\ sender_waiters_' = <<>>
  /\ UNCHANGED <<buffer_, value_, sent_, result_, sends, taken, hist>>

(* Close(); on a closed channel it changes nothing. *)
Close(c) ==
  /\ pc[c] = "run" /\ ~closed_
  /\ closed_' = TRUE
  /\ Wakes(c, receiver_waiters_ \o sender_waiters_)
  /\ receiver_waiters_' = <<>> /\ sender_waiters_' = <<>>
  /\ UNCHANGED <<buffer_, value_, sent_, result_, sends, taken, hist>>

(* ~Channel(): nobody is in the middle of a Send or a Receive, and nobody   *)
(* uses the channel afterwards; who waits in it is forgotten.               *)
Destroy(c) ==
  /\ pc[c] = "run" /\ \A d \in Coro : pc[d] \notin {"send?", "recv?"}
  /\ destroyed' = TRUE /\ closed_' = TRUE
  /\ abandoned' = Elems(receiver_waiters_ \o sender_waiters_)
  /\ receiver_waiters_' = <<>> /\ sender_waiters_' = <<>>
  /\ UNCHANGED <<buffer_, value_, sent_, result_, pc, stack, sends, taken, hist>>

(* resume() of the next handle, whose coroutine runs its await_resume. *)
Resume(c) ==
  /\ ResumeAt(c, LAMBDA w : "run")
  /\ LET w == Head(to_wake[c]) IN
       \/ pc[w] = "send" /\ SendReturns(value_[w], sent_[w])
       \/ pc[w] = "recv" /\ ReceiveReturns(result_[w])
  /\ UNCHANGED <<chan, gone, value_, sent_, result_, sends, taken>>

Yield(c) ==
  /\ YieldAt(c, {"run"})
  /\ UNCHANGED <<chan, gone, value_, sent_, result_, sends, taken, hist>>

Operation(c) ==
  SendReady(c) \/ SendSuspend(c) \/ ReceiveReady(c) \/ ReceiveSuspend(c) \/ Close(c)

Step(c) ==
  \/ ~destroyed /\ Operation(c) /\ UNCHANGED gone
  \/ ~destroyed /\ Destroy(c)
  \/ Resume(c) \/ Yield(c)

Next == \E c \in Coro : Step(c)

(* A started await_suspend or resume() runs to its end, and a coroutine     *)
(* resumed inline suspends or ends at last: Close() resumes one waiter only *)
(* after the one before it has given the thread back.                       *)
Fairness ==
  \A c \in Coro :
    /\ WF_vars((SendSuspend(c) \/ ReceiveSuspend(c)) /\ UNCHANGED gone)
    /\ WF_vars(Resume(c)) /\ SF_vars(Yield(c))

Spec == Init /\ [][Next]_vars
FairSpec == Spec /\ Fairness

-----------------------------------------------------------------------------
Suspended == {c \in Coro : pc[c] \in {"send", "recv"}}
Accepted == Elems(buffer_) \union Elems(taken)

(***************************************************************************)
(* Each suspended coroutine is in one place, once: in its waiter list,     *)
(* where it waits for what is not there, or in the list of the operation   *)
(* that is about to resume it.  So no handle is resumed twice or while its *)
(* coroutine runs, and only the destructor drops any.  A lost wakeup in    *)
(* the gap between await_ready and await_suspend, or a Receive() that      *)
(* frees a place and lets nobody in, would leave somebody in a list        *)
(* without a reason.                                                       *)
(***************************************************************************)
WaitersRight ==
  /\ InOnePlace(receiver_waiters_ \o sender_waiters_, Suspended \ abandoned)
  /\ \A c \in Elems(receiver_waiters_) : pc[c] = "recv"
  /\ receiver_waiters_ # <<>> => buffer_ = <<>> /\ ~closed_
  /\ sender_waiters_ # <<>> => Len(buffer_) = capacity_ /\ ~closed_

(***************************************************************************)
(* Both ends tell the truth.  Send() returns TRUE only for a message the   *)
(* channel accepted, FALSE only for one it never gives out, although a     *)
(* suspended Send learns the outcome from a flag another coroutine stores  *)
(* (channel.hpp:119,147).  A Receive() that returns nullopt is the end of  *)
(* the stream: the channel is closed and nothing is left in it.            *)
(***************************************************************************)
Truthful ==
  /\ acked \subseteq Accepted /\ refused \intersect Accepted = {}
  /\ ended => closed_ /\ buffer_ = <<>>

FC == INSTANCE FifoChannel WITH queue <- buffer_, closed <- closed_,
                                Capacity <- capacity_

(***************************************************************************)
(* The channel implements the bounded FIFO queue: no direct handover       *)
(* overtakes a buffered message, no message is taken twice or lost, none   *)
(* is accepted after Close(), and the buffer respects its capacity.        *)
(***************************************************************************)
RefinesFifoChannel == FC!Spec

(***************************************************************************)
(* Close() releases everybody: whoever is suspended on a closed channel    *)
(* runs again, although Close() resumes the waiters one after the other,   *)
(* unless the destructor closed it.                                        *)
(***************************************************************************)
CloseReleases ==
  \A c \in Coro : closed_ /\ c \in Suspended \ abandoned ~> pc[c] = "run"

=============================================================================
