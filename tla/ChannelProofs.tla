---------------------------- MODULE ChannelProofs ----------------------------
(***************************************************************************)
(* Channel for every set of coroutines, every capacity and every number of *)
(* messages: no handle is lost or resumed twice, nobody waits without a    *)
(* reason, both ends tell the truth, and the channel implements the        *)
(* bounded FIFO queue.                                                     *)
(***************************************************************************)
EXTENDS Channel, CoroutineLemmas

Running == {"run", "send?", "recv?"}
Asleep == {"send", "recv"}

Listed == Contents(receiver_waiters_) \union Contents(sender_waiters_)

(* A suspended coroutine is listed, about to be resumed, or abandoned by    *)
(* the destructor.                                                          *)
Handles ==
  /\ StackInv(Running, Asleep) /\ ListsInv(Asleep)
  /\ \A c \in Coro : after[c] = "run"
  /\ receiver_waiters_ \in Seq(Coro) /\ Distinct(receiver_waiters_)
  /\ sender_waiters_ \in Seq(Coro) /\ Distinct(sender_waiters_)
  /\ \A c \in Contents(receiver_waiters_) : pc[c] = "recv"
  /\ \A c \in Contents(sender_waiters_) : pc[c] = "send"
  /\ Listed \intersect Woken = {}
  /\ abandoned \intersect (Listed \union Woken) = {}
  /\ Listed \union Woken \union abandoned = Suspended
  /\ destroyed \in BOOLEAN
  /\ ~destroyed => abandoned = {}

(* Who waits has a reason to. *)
Queues ==
  /\ closed_ \in BOOLEAN
  /\ buffer_ \in Seq(Msg) /\ Len(buffer_) <= capacity_
  /\ taken \in Seq(Msg)
  /\ receiver_waiters_ # <<>> => buffer_ = <<>> /\ ~closed_
  /\ sender_waiters_ # <<>> => Len(buffer_) = capacity_ /\ ~closed_

Given == Contents(buffer_) \union Contents(taken)
Sending(c) == pc[c] \in {"send?", "send"}

(* Every message sent is accepted, refused or in the hands of one sender,   *)
(* whose sent_ says whether the channel has accepted it.                    *)
Messages ==
  /\ sends \in 0 .. MaxSends
  /\ value_ \in [Coro -> 0 .. MaxSends]
  /\ sent_ \in [Coro -> BOOLEAN]
  /\ Given \subseteq 1 .. sends
  /\ refused \subseteq 1 .. sends
  /\ refused \intersect Given = {}
  /\ acked \subseteq Given
  /\ \A c \in Coro : Sending(c) => value_[c] \in 1 .. sends
  /\ \A c, d \in Coro : c # d /\ Sending(c) /\ Sending(d) => value_[c] # value_[d]
  /\ \A c \in Coro : Sending(c) /\ sent_[c] = TRUE => value_[c] \in Given
  /\ \A c \in Coro : Sending(c) /\ sent_[c] = FALSE
                       => value_[c] \notin Given /\ value_[c] \notin refused
  /\ \A c \in Coro : pc[c] = "send?" \/ c \in Contents(sender_waiters_)
                       => sent_[c] = FALSE

(* A receiver that is told, or is about to be told, of the end of the       *)
(* stream has reached it.                                                   *)
Ends ==
  /\ result_ \in [Coro -> 0 .. MaxSends]
  /\ ended \in BOOLEAN
  /\ ended => closed_ /\ buffer_ = <<>>
  /\ \A c \in Coro : c \in Woken /\ pc[c] = "recv" /\ result_[c] = NoMsg
                       => closed_ /\ buffer_ = <<>>

IndInv == Handles /\ Queues /\ Messages /\ Ends

-----------------------------------------------------------------------------
(* The labels of the channel's coroutines. *)
LEMMA ChannelLabels == Labels(Running, Asleep)
  BY DEF Labels, Running, Asleep

(* Nothing is in the empty deque. *)
LEMMA NothingQueued ==
  \A S : Contents(<<>>) = {} /\ Distinct(<<>>) /\ <<>> \in Seq(S)
  BY DEF Contents, Distinct

(* Who is listed waits; the coroutine that takes a step is in no list. *)
LEMMA ListedFacts ==
  ASSUME Handles
  PROVE  /\ \A d \in Listed : d \in Coro /\ pc[d] \in Asleep
         /\ \A d \in Woken : d \in Coro /\ pc[d] \in Asleep
         /\ Contents(receiver_waiters_) \intersect Contents(sender_waiters_) = {}
         /\ \A d \in Coro : pc[d] \notin Asleep
              => d \notin Listed /\ d \notin Woken /\ d \notin abandoned
  <1>1. Contents(receiver_waiters_) \subseteq Coro /\ Contents(sender_waiters_) \subseteq Coro
    BY EmptyDeque DEF Handles
  <1>2. \A d \in Listed : d \in Coro /\ pc[d] \in Asleep
    BY <1>1 DEF Handles, Listed, Asleep
  <1>3. \A d \in Woken : d \in Coro /\ pc[d] \in Asleep
    BY DEF Handles, ListsInv
  <1>4. Contents(receiver_waiters_) \intersect Contents(sender_waiters_) = {}
    BY DEF Handles
  <1>5. \A d \in abandoned : pc[d] \in Asleep
    BY DEF Handles, Suspended, Asleep
  <1> QED
    BY <1>2, <1>3, <1>4, <1>5

(* An operation takes the handles q off the lists, to resume them. *)
LEMMA WakesHandles ==
  ASSUME Handles, NEW c \in Coro, pc[c] \in Running,
         NEW q \in Seq(Coro), Distinct(q), Contents(q) \subseteq Listed, Wakes(c, q),
         receiver_waiters_' \in Seq(Coro), Distinct(receiver_waiters_'),
         sender_waiters_' \in Seq(Coro), Distinct(sender_waiters_'),
         Contents(receiver_waiters_') = Contents(receiver_waiters_) \ Contents(q),
         Contents(sender_waiters_') = Contents(sender_waiters_) \ Contents(q),
         UNCHANGED <<abandoned, destroyed>>
  PROVE  /\ Handles'
         /\ Woken' = Woken \union Contents(q)
         /\ \A d \in Coro \ {c} : pc'[d] = pc[d]
         /\ pc'[c] \in {"run", "wake"}
  <1>1. \A d \in Contents(q) : d \in Coro /\ pc[d] \in Asleep /\ d # c
    BY ListedFacts, ChannelLabels DEF Labels
  <1>2. Contents(q) \intersect Woken = {}
    BY DEF Handles
  <1>3. StackInv(Running, Asleep) /\ ListsInv(Asleep) /\ "run" \in Running
        /\ WakeAll(c, q, "run")
    BY DEF Handles, Running, Wakes
  <1>4. /\ StackInv(Running, Asleep)' /\ ListsInv(Asleep)'
        /\ Woken' = Woken \union Contents(q)
        /\ pc'[c] = (IF q = <<>> THEN "run" ELSE "wake")
        /\ \A d \in Coro \ {c} : pc'[d] = pc[d]
    BY <1>1, <1>2, <1>3, WakeAllInv, ChannelLabels
  <1>5. \A d \in Coro : after'[d] = "run"
    BY <1>3 DEF Handles, StackInv, WakeAll
  <1>6. Listed' = Listed \ Contents(q)
    BY DEF Listed
  <1>7. \A d \in Listed \union Woken \union abandoned : d # c /\ d \in Coro
    BY ListedFacts, ChannelLabels DEF Handles, Labels, Suspended
  <1>8. Suspended' = Suspended
    <2>1. pc[c] \notin {"send", "recv"} /\ pc'[c] \notin {"send", "recv"}
      BY <1>4 DEF Running
    <2> QED
      BY <1>4, <2>1 DEF Suspended
  <1>9. /\ \A d \in Contents(receiver_waiters_') : pc'[d] = "recv"
        /\ \A d \in Contents(sender_waiters_') : pc'[d] = "send"
    BY <1>4, <1>7 DEF Handles, Listed
  <1>10. Handles'
    <2>1. /\ Listed' \intersect Woken' = {}
          /\ abandoned' \intersect (Listed' \union Woken') = {}
          /\ Listed' \union Woken' \union abandoned' = Suspended'
      BY <1>2, <1>4, <1>6, <1>8 DEF Handles
    <2> QED
      BY <1>4, <1>5, <1>9, <2>1 DEF Handles
  <1> QED
    BY <1>4, <1>10

(* An operation that resumes nobody. *)
LEMMA NoWakesHandles ==
  ASSUME Handles, NEW c \in Coro, pc[c] \in Running, Wakes(c, <<>>),
         UNCHANGED <<receiver_waiters_, sender_waiters_, abandoned, destroyed>>
  PROVE  /\ Handles'
         /\ Woken' = Woken
         /\ \A d \in Coro \ {c} : pc'[d] = pc[d]
         /\ pc'[c] \in {"run", "wake"}
  <1>1. Contents(<<>>) = {} /\ Distinct(<<>>) /\ <<>> \in Seq(Coro)
    BY NothingQueued
  <1>2. /\ receiver_waiters_' \in Seq(Coro) /\ Distinct(receiver_waiters_')
        /\ sender_waiters_' \in Seq(Coro) /\ Distinct(sender_waiters_')
    BY DEF Handles
  <1> QED
    BY <1>1, <1>2, WakesHandles

(* Between await_ready and await_suspend. *)
LEMMA AtHandles ==
  ASSUME Handles, NEW c \in Coro, pc[c] \in Running, NEW l \in Running, At(c, l),
         UNCHANGED <<receiver_waiters_, sender_waiters_, abandoned, destroyed>>
  PROVE  /\ Handles'
         /\ Woken' = Woken
         /\ \A d \in Coro : pc'[d] = IF d = c THEN l ELSE pc[d]
  <1>1. /\ StackInv(Running, Asleep)' /\ ListsInv(Asleep)'
        /\ Woken' = Woken
        /\ \A d \in Coro : pc'[d] = IF d = c THEN l ELSE pc[d]
    BY AtInv, ChannelLabels DEF Handles
  <1>2. \A d \in Coro : after'[d] = "run"
    BY DEF Handles, At, stack
  <1>3. Listed' = Listed
    BY DEF Listed
  <1>4. Suspended' = Suspended
    <2>1. pc[c] \notin {"send", "recv"} /\ l \notin {"send", "recv"}
      BY DEF Running
    <2> QED
      BY <1>1, <2>1 DEF Suspended
  <1>5. \A d \in Listed : d # c /\ d \in Coro
    BY ListedFacts, ChannelLabels DEF Labels
  <1> QED
    BY <1>1, <1>2, <1>3, <1>4, <1>5 DEF Handles, Listed

(* c queues and gives its thread up. *)
LEMMA QueueHandles ==
  ASSUME Handles, NEW c \in Coro, pc[c] \in Running, NEW l \in Asleep, Leave(c, l),
         \/ /\ l = "recv" /\ receiver_waiters_' = Append(receiver_waiters_, c)
            /\ sender_waiters_' = sender_waiters_
         \/ /\ l = "send" /\ sender_waiters_' = Append(sender_waiters_, c)
            /\ receiver_waiters_' = receiver_waiters_,
         UNCHANGED <<abandoned, destroyed>>
  PROVE  /\ Handles'
         /\ Woken' = Woken /\ c \notin Woken
         /\ pc'[c] = l
         /\ \A d \in Coro \ {c} : \/ pc'[d] = pc[d]
                                  \/ pc[d] = "nest" /\ pc'[d] \in {"run", "wake"}
  <1>1. /\ StackInv(Running, Asleep)' /\ ListsInv(Asleep)'
        /\ Woken' = Woken
        /\ pc'[c] = l
        /\ \A d \in Coro \ {c} :
             pc'[d] = pc[d] \/ (pc[d] = "nest" /\ pc'[d] \in {after[d], "wake"})
    BY LeaveInv, ChannelLabels DEF Handles
  <1>2. \A d \in Coro : after[d] = "run" /\ after'[d] = "run"
    BY DEF Handles, Leave
  <1>3. \A d \in Coro \ {c} : \/ pc'[d] = pc[d]
                              \/ pc[d] = "nest" /\ pc'[d] \in {"run", "wake"}
    BY <1>1, <1>2
  <1>4. c \notin Listed /\ c \notin Woken /\ c \notin abandoned
    BY ListedFacts, ChannelLabels DEF Labels
  <1>5. /\ receiver_waiters_' \in Seq(Coro) /\ Distinct(receiver_waiters_')
        /\ sender_waiters_' \in Seq(Coro) /\ Distinct(sender_waiters_')
        /\ \/ /\ l = "recv" /\ Contents(sender_waiters_') = Contents(sender_waiters_)
              /\ Contents(receiver_waiters_') = Contents(receiver_waiters_) \union {c}
           \/ /\ l = "send" /\ Contents(receiver_waiters_') = Contents(receiver_waiters_)
              /\ Contents(sender_waiters_') = Contents(sender_waiters_) \union {c}
    <2>1. CASE l = "recv"
      <3>1. receiver_waiters_' = Append(receiver_waiters_, c) /\ sender_waiters_' = sender_waiters_
        BY <2>1
      <3> QED
        BY <1>4, <2>1, <3>1, PushBackSets DEF Handles, Listed
    <2>2. CASE l = "send"
      <3>1. sender_waiters_' = Append(sender_waiters_, c) /\ receiver_waiters_' = receiver_waiters_
        BY <2>2
      <3> QED
        BY <1>4, <2>2, <3>1, PushBackSets DEF Handles, Listed
    <2> QED
      BY <2>1, <2>2 DEF Asleep
  <1>6. Listed' = Listed \union {c}
    BY <1>5 DEF Listed
  <1>7. Suspended' = Suspended \union {c}
    BY <1>1, <1>3 DEF Suspended, Asleep
  <1>8. \A d \in Listed : d # c /\ d \in Coro /\ pc'[d] = pc[d]
    BY <1>3, <1>4, ListedFacts DEF Asleep
  <1>9. /\ \A d \in Contents(receiver_waiters_') : pc'[d] = "recv"
        /\ \A d \in Contents(sender_waiters_') : pc'[d] = "send"
    BY <1>1, <1>5, <1>8 DEF Handles, Listed
  <1>10. Handles'
    BY <1>1, <1>2, <1>4, <1>5, <1>6, <1>7, <1>9 DEF Handles
  <1> QED
    BY <1>1, <1>3, <1>4, <1>10

-----------------------------------------------------------------------------
(* Send *)

(* c sends m, from await_ready or from await_suspend: m is in the hands of  *)
(* c alone.                                                                 *)
SendsNow(c, m) ==
  /\ pc[c] \in {"run", "send?"}
  /\ m \in Msg /\ m \notin Given /\ m \notin refused
  /\ \A d \in Coro \ {c} : Sending(d) => value_[d] # m
  /\ sends' \in 0 .. MaxSends /\ sends <= sends' /\ m <= sends'
  /\ value_' \in [Coro -> 0 .. MaxSends]
  /\ \A d \in Coro \ {c} : value_'[d] = value_[d]
  /\ UNCHANGED <<abandoned, destroyed>>

(* What a Send that has not to wait leaves of the other messages. *)
LEMMA SentMessages ==
  ASSUME Messages, NEW c \in Coro, NEW m, SendsNow(c, m),
         pc'[c] \in {"run", "wake"}, \A d \in Coro \ {c} : pc'[d] = pc[d],
         sent_' \in [Coro -> BOOLEAN], \A d \in Coro \ {c} : sent_'[d] = sent_[d],
         Contents(sender_waiters_') = Contents(sender_waiters_),
         c \notin Contents(sender_waiters_),
         \/ Given' = Given /\ refused' = refused \union {m} /\ acked' = acked
         \/ Given' = Given \union {m} /\ refused' = refused /\ acked' = acked \union {m}
  PROVE  Messages'
  <1>1. /\ \A d \in Coro : Sending(d)' <=> d # c /\ Sending(d)
        /\ ~Sending(c)'
    BY DEF Sending
  <1>2. m \in 1 .. sends' /\ \A k \in 1 .. sends : k \in 1 .. sends'
    BY DEF SendsNow, Messages, Msg
  <1>3. Given' \subseteq 1 .. sends' /\ refused' \subseteq 1 .. sends'
    BY <1>2 DEF Messages
  <1>4. refused' \intersect Given' = {} /\ acked' \subseteq Given'
    BY DEF Messages, SendsNow
  <1>5. /\ \A d \in Coro : Sending(d)' => value_'[d] \in 1 .. sends'
        /\ \A d, e \in Coro : d # e /\ Sending(d)' /\ Sending(e)' => value_'[d] # value_'[e]
    BY <1>1, <1>2 DEF Messages, SendsNow
  <1>6. /\ \A d \in Coro : Sending(d)' /\ sent_'[d] = TRUE => value_'[d] \in Given'
        /\ \A d \in Coro : Sending(d)' /\ sent_'[d] = FALSE
                       => value_'[d] \notin Given' /\ value_'[d] \notin refused'
    BY <1>1 DEF Messages, SendsNow
  <1>7. \A d \in Coro : pc'[d] = "send?" \/ d \in Contents(sender_waiters_')
                       => sent_'[d] = FALSE
    BY DEF Messages
  <1>8. sends' \in 0 .. MaxSends /\ value_' \in [Coro -> 0 .. MaxSends]
    BY DEF SendsNow
  <1> QED
    BY <1>3, <1>4, <1>5, <1>6, <1>7, <1>8 DEF Messages

(* A closed channel refuses the message. *)
LEMMA SendFailsCore ==
  ASSUME IndInv, NEW c \in Coro, NEW m, SendsNow(c, m), SendFails(c, m)
  PROVE  IndInv' /\ UNCHANGED FC!vars
  <1>1. /\ closed_ /\ Wakes(c, <<>>)
        /\ acked' = acked /\ refused' = refused \union {m} /\ ended' = ended
        /\ UNCHANGED <<buffer_, closed_, receiver_waiters_, sender_waiters_, sent_,
                       result_, taken>>
    BY DEF SendFails, SendReturns, chan
  <1>2. /\ Handles' /\ Woken' = Woken
        /\ \A d \in Coro \ {c} : pc'[d] = pc[d]
        /\ pc'[c] \in {"run", "wake"}
    BY <1>1, NoWakesHandles DEF IndInv, SendsNow, Running
  <1>3. c \notin Listed /\ c \notin Woken
    BY ListedFacts DEF IndInv, SendsNow, Asleep
  <1>4. Messages'
    <2>1. Given' = Given
      BY <1>1 DEF Given
    <2> QED
      BY <1>1, <1>2, <1>3, <2>1, SentMessages DEF IndInv, Messages, Listed
  <1>5. Queues'
    BY <1>1 DEF IndInv, Queues
  <1>6. Ends'
    BY <1>1, <1>2, <1>3 DEF IndInv, Ends
  <1> QED
    BY <1>1, <1>2, <1>4, <1>5, <1>6 DEF IndInv, FC!vars

(* The message goes to the first waiting receiver, past an empty buffer. *)
LEMMA HandOverCore ==
  ASSUME IndInv, NEW c \in Coro, NEW m, SendsNow(c, m), HandOver(c, m)
  PROVE  IndInv' /\ FC!PassThrough(m)
  <1> DEFINE w == Head(receiver_waiters_)
             q == <<w>>
  <1>1. /\ ~closed_ /\ receiver_waiters_ # <<>> /\ receiver_waiters_' = Tail(receiver_waiters_)
        /\ result_' = [result_ EXCEPT ![w] = m]
        /\ taken' = Append(taken, m)
        /\ sent_' = [sent_ EXCEPT ![c] = TRUE]
        /\ Wakes(c, q)
        /\ acked' = acked \union {m} /\ refused' = refused /\ ended' = ended
        /\ UNCHANGED <<buffer_, closed_, sender_waiters_>>
    BY DEF HandOver, SendReturns
  <1>2. /\ Tail(receiver_waiters_) \in Seq(Coro) /\ Distinct(Tail(receiver_waiters_))
        /\ w \in Coro /\ w \in Contents(receiver_waiters_)
        /\ Contents(Tail(receiver_waiters_)) = Contents(receiver_waiters_) \ {w}
    BY <1>1, PopFrontSets DEF IndInv, Handles
  <1> HIDE DEF w
  <1>3. q \in Seq(Coro) /\ q # <<>> /\ Distinct(q) /\ Contents(q) = {w}
    BY <1>2, OneSets
  <1> HIDE DEF q
  <1>4. /\ w \notin Contents(sender_waiters_) /\ w \in Listed
        /\ c \notin Listed /\ c \notin Woken
    BY <1>2, ListedFacts DEF IndInv, SendsNow, Asleep, Listed
  <1>5. /\ Handles' /\ Woken' = Woken \union {w}
        /\ \A d \in Coro \ {c} : pc'[d] = pc[d]
        /\ pc'[c] \in {"run", "wake"}
    <2>1. /\ Contents(receiver_waiters_') = Contents(receiver_waiters_) \ Contents(q)
          /\ Contents(sender_waiters_') = Contents(sender_waiters_) \ Contents(q)
          /\ receiver_waiters_' \in Seq(Coro) /\ Distinct(receiver_waiters_')
          /\ sender_waiters_' \in Seq(Coro) /\ Distinct(sender_waiters_')
          /\ Contents(q) \subseteq Listed
      BY <1>1, <1>2, <1>3, <1>4 DEF IndInv, Handles
    <2> QED
      BY <1>1, <1>3, <2>1, WakesHandles DEF IndInv, SendsNow, Running
  <1>6. /\ buffer_ = <<>> /\ sender_waiters_ = <<>> /\ taken \in Seq(Msg) /\ m \in Msg
    <2>1. buffer_ = <<>>
      BY <1>1 DEF IndInv, Queues
    <2>2. Len(buffer_) = 0 /\ capacity_ # 0
      BY <2>1, ChannelAssumption
    <2> QED
      BY <2>1, <2>2 DEF IndInv, Queues, SendsNow
  <1>7. /\ taken' \in Seq(Msg) /\ Contents(taken') = Contents(taken) \union {m}
    BY <1>1, <1>6, PushBackSets
  <1>8. Messages'
    <2>1. Given' = Given \union {m}
      BY <1>1, <1>7 DEF Given
    <2>2. /\ sent_' \in [Coro -> BOOLEAN]
          /\ \A d \in Coro \ {c} : sent_'[d] = sent_[d]
      BY <1>1 DEF IndInv, Messages
    <2> QED
      BY <1>1, <1>4, <1>5, <2>1, <2>2, SentMessages DEF IndInv, Listed
  <1>9. Queues'
    BY <1>1, <1>6, <1>7 DEF IndInv, Queues
  <1>10. Ends'
    <2>1. m \in 0 .. MaxSends /\ m # NoMsg
      BY <1>6 DEF Msg, NoMsg
    <2>2. /\ result_' \in [Coro -> 0 .. MaxSends]
          /\ \A d \in Coro : result_'[d] = IF d = w THEN m ELSE result_[d]
      BY <1>1, <1>2, <2>1 DEF IndInv, Ends
    <2> QED
      BY <1>1, <1>4, <1>5, <2>1, <2>2 DEF IndInv, Ends
  <1>11. FC!PassThrough(m)
    <2>1. FC!Accepted = Given
      BY DEF FC!Accepted, Given, Contents
    <2> QED
      BY <1>1, <1>6, <2>1 DEF FC!PassThrough, SendsNow
  <1> QED
    BY <1>5, <1>8, <1>9, <1>10, <1>11 DEF IndInv

(* The message is buffered. *)
LEMMA BufferCore ==
  ASSUME IndInv, NEW c \in Coro, NEW m, SendsNow(c, m), Buffer(c, m)
  PROVE  IndInv' /\ FC!Accept(m)
  <1>1. /\ ~closed_ /\ receiver_waiters_ = <<>> /\ Len(buffer_) < capacity_
        /\ buffer_' = Append(buffer_, m)
        /\ sent_' = [sent_ EXCEPT ![c] = TRUE]
        /\ Wakes(c, <<>>)
        /\ acked' = acked \union {m} /\ refused' = refused /\ ended' = ended
        /\ UNCHANGED <<closed_, receiver_waiters_, sender_waiters_, result_, taken>>
    BY DEF Buffer, SendReturns
  <1>2. /\ Handles' /\ Woken' = Woken
        /\ \A d \in Coro \ {c} : pc'[d] = pc[d]
        /\ pc'[c] \in {"run", "wake"}
    BY <1>1, NoWakesHandles DEF IndInv, SendsNow, Running
  <1>3. c \notin Listed /\ c \notin Woken
    BY ListedFacts DEF IndInv, SendsNow, Asleep
  <1>4. /\ buffer_ \in Seq(Msg) /\ m \in Msg /\ sender_waiters_ = <<>>
        /\ capacity_ \in Nat
    <2>1. buffer_ \in Seq(Msg) /\ Len(buffer_) \in Nat /\ capacity_ \in Nat
      BY ChannelAssumption DEF IndInv, Queues
    <2> QED
      BY <1>1, <2>1 DEF IndInv, Queues, SendsNow
  <1>5. /\ buffer_' \in Seq(Msg) /\ Contents(buffer_') = Contents(buffer_) \union {m}
    BY <1>1, <1>4, PushBackSets
  <1>6. Len(buffer_') <= capacity_
    BY <1>1, <1>4
  <1>7. Messages'
    <2>1. Given' = Given \union {m}
      BY <1>1, <1>5 DEF Given
    <2>2. /\ sent_' \in [Coro -> BOOLEAN]
          /\ \A d \in Coro \ {c} : sent_'[d] = sent_[d]
      BY <1>1 DEF IndInv, Messages
    <2> QED
      BY <1>1, <1>2, <1>3, <2>1, <2>2, SentMessages DEF IndInv, Listed
  <1>8. Queues'
    BY <1>1, <1>4, <1>5, <1>6 DEF IndInv, Queues
  <1>9. Ends'
    BY <1>1, <1>2, <1>3 DEF IndInv, Ends
  <1>10. FC!Accept(m)
    <2>1. FC!Accepted = Given
      BY DEF FC!Accepted, Given, Contents
    <2> QED
      BY <1>1, <2>1 DEF FC!Accept, SendsNow
  <1> QED
    BY <1>2, <1>7, <1>8, <1>9, <1>10 DEF IndInv

(* SendAwaitable::await_ready *)
LEMMA SendReadyCore ==
  ASSUME IndInv, NEW c \in Coro, SendReady(c), UNCHANGED <<abandoned, destroyed>>
  PROVE  IndInv' /\ (FC!Next \/ UNCHANGED FC!vars)
  <1> DEFINE m == sends + 1
  <1>1. /\ pc[c] = "run" /\ sends < MaxSends /\ sends' = m
        /\ value_' = [value_ EXCEPT ![c] = m]
    BY DEF SendReady
  <1>2. /\ m \in Msg /\ m \notin 1 .. sends /\ sends \in Nat /\ MaxSends \in Nat
        /\ m \in 0 .. MaxSends
    BY <1>1, ChannelAssumption DEF IndInv, Messages, Msg
  <1>3. /\ value_' \in [Coro -> 0 .. MaxSends]
        /\ \A d \in Coro : value_'[d] = IF d = c THEN m ELSE value_[d]
    BY <1>1, <1>2 DEF IndInv, Messages
  <1>4. m \notin Given /\ m \notin refused
        /\ \A d \in Coro : Sending(d) => value_[d] # m
    BY <1>2 DEF IndInv, Messages
  <1>5. SendsNow(c, m)
    BY <1>1, <1>2, <1>3, <1>4 DEF SendsNow
  <1>6. CASE SendFails(c, m) \/ HandOver(c, m) \/ Buffer(c, m)
    <2> HIDE DEF m
    <2> QED
      BY <1>2, <1>5, <1>6, SendFailsCore, HandOverCore, BufferCore DEF FC!Next
  <1>7. CASE ~(SendFails(c, m) \/ HandOver(c, m) \/ Buffer(c, m))
    <2>1. /\ pc' = [pc EXCEPT ![c] = "send?"] /\ sent_' = [sent_ EXCEPT ![c] = FALSE]
          /\ UNCHANGED <<buffer_, closed_, receiver_waiters_, sender_waiters_, result_,
                         stack, taken, acked, refused, got, ended>>
      BY <1>7 DEF SendReady, chan, hist
    <2>2. /\ Handles' /\ Woken' = Woken
          /\ \A d \in Coro : pc'[d] = IF d = c THEN "send?" ELSE pc[d]
      BY <1>1, <2>1, AtHandles DEF IndInv, Running, At
    <2>3. /\ sent_' \in [Coro -> BOOLEAN]
          /\ \A d \in Coro : sent_'[d] = IF d = c THEN FALSE ELSE sent_[d]
      BY <2>1 DEF IndInv, Messages
    <2>4. c \notin Listed /\ c \notin Woken
      BY <1>1, ListedFacts DEF IndInv, Asleep
    <2>5. Given' = Given
      BY <2>1 DEF Given
    <2>6. /\ \A d \in Coro : Sending(d)' <=> d = c \/ Sending(d)
          /\ \A k \in 1 .. sends : k \in 1 .. sends'
          /\ m \in 1 .. sends' /\ sends' \in 0 .. MaxSends
      BY <1>1, <1>2, <2>2 DEF Sending
    <2> HIDE DEF m
    <2>7. Messages'
      <3>1. \A d \in Coro : Sending(d)' => value_'[d] \in 1 .. sends'
        BY <1>3, <2>6 DEF IndInv, Messages
      <3>2. \A d, e \in Coro : d # e /\ Sending(d)' /\ Sending(e)' => value_'[d] # value_'[e]
        BY <1>3, <1>4, <2>6 DEF IndInv, Messages
      <3>3. /\ \A d \in Coro : Sending(d)' /\ sent_'[d] = TRUE => value_'[d] \in Given'
            /\ \A d \in Coro : Sending(d)' /\ sent_'[d] = FALSE
                     => value_'[d] \notin Given' /\ value_'[d] \notin refused'
        BY <1>3, <1>4, <2>1, <2>3, <2>5, <2>6 DEF IndInv, Messages
      <3>4. \A d \in Coro : pc'[d] = "send?" \/ d \in Contents(sender_waiters_')
                       => sent_'[d] = FALSE
        BY <2>1, <2>2, <2>3, <2>4 DEF IndInv, Messages
      <3>5. /\ Given' \subseteq 1 .. sends' /\ refused' \subseteq 1 .. sends'
            /\ refused' \intersect Given' = {} /\ acked' \subseteq Given'
        BY <2>1, <2>5, <2>6 DEF IndInv, Messages
      <3> QED
        BY <1>3, <2>3, <2>6, <3>1, <3>2, <3>3, <3>4, <3>5 DEF Messages
    <2>8. Queues'
      BY <2>1 DEF IndInv, Queues
    <2>9. Ends'
      BY <2>1, <2>2, <2>4 DEF IndInv, Ends
    <2> QED
      BY <2>1, <2>2, <2>7, <2>8, <2>9 DEF IndInv, FC!vars
  <1> QED
    BY <1>6, <1>7

(* The messages, where the senders and what they know stay the same. *)
LEMMA SameMessages ==
  ASSUME Messages, UNCHANGED <<sends, value_, sent_, acked, refused>>, Given' = Given,
         \A d \in Coro : Sending(d)' => Sending(d),
         \A d \in Coro : pc'[d] = "send?" => pc[d] = "send?",
         \A d \in Coro : d \in Contents(sender_waiters_')
                           => pc[d] = "send?" \/ d \in Contents(sender_waiters_)
  PROVE  Messages'
  BY DEF Messages

(* SendAwaitable::await_suspend *)
LEMMA SendSuspendCore ==
  ASSUME IndInv, NEW c \in Coro, SendSuspend(c), UNCHANGED <<abandoned, destroyed>>
  PROVE  IndInv' /\ (FC!Next \/ UNCHANGED FC!vars)
  <1> DEFINE m == value_[c]
  <1>1. pc[c] = "send?" /\ UNCHANGED <<value_, sends>> /\ Sending(c)
    BY DEF SendSuspend, Sending
  <1>2. m \in 1 .. sends /\ sends \in 0 .. MaxSends /\ MaxSends \in Nat
    BY <1>1, ChannelAssumption DEF IndInv, Messages
  <1>3. m \in Msg /\ m <= sends
    BY <1>2 DEF Msg
  <1>4. m \notin Given /\ m \notin refused
        /\ \A d \in Coro \ {c} : Sending(d) => value_[d] # m
    BY <1>1 DEF IndInv, Messages
  <1>5. SendsNow(c, m)
    BY <1>1, <1>2, <1>3, <1>4 DEF SendsNow, IndInv, Messages
  <1>6. CASE SendFails(c, m) \/ HandOver(c, m) \/ Buffer(c, m)
    <2> HIDE DEF m
    <2> QED
      BY <1>3, <1>5, <1>6, SendFailsCore, HandOverCore, BufferCore DEF FC!Next
  <1>7. CASE ~(SendFails(c, m) \/ HandOver(c, m) \/ Buffer(c, m))
    <2>1. /\ SendMustWait /\ sender_waiters_' = Append(sender_waiters_, c) /\ Leave(c, "send")
          /\ UNCHANGED <<buffer_, closed_, receiver_waiters_, sent_, result_,
                         taken, acked, refused, got, ended>>
      BY <1>7 DEF SendSuspend, hist
    <2>2. /\ Handles' /\ Woken' = Woken /\ c \notin Woken
          /\ pc'[c] = "send"
          /\ \A d \in Coro \ {c} : \/ pc'[d] = pc[d]
                                   \/ pc[d] = "nest" /\ pc'[d] \in {"run", "wake"}
      <3>1. Handles /\ pc[c] \in Running /\ "send" \in Asleep
        BY <1>1 DEF IndInv, Running, Asleep
      <3> QED
        BY <2>1, <3>1, QueueHandles
    <2>3. Contents(sender_waiters_') = Contents(sender_waiters_) \union {c}
      BY <2>1, PushBackSets DEF IndInv, Handles
    <2>4. Messages'
      <3>1. Given' = Given
        BY <2>1 DEF Given
      <3>2. \A d \in Coro : Sending(d)' => Sending(d)
        BY <1>1, <2>2 DEF Sending
      <3>3. \A d \in Coro : pc'[d] = "send?" => pc[d] = "send?"
        BY <2>2
      <3> QED
        BY <1>1, <2>1, <2>3, <3>1, <3>2, <3>3, SameMessages DEF IndInv
    <2>5. Queues'
      <3>1. buffer_ \in Seq(Msg) /\ Len(buffer_) = capacity_
        <4>1. Len(buffer_) \in Nat /\ capacity_ \in Nat
          BY ChannelAssumption DEF IndInv, Queues
        <4> QED
          BY <2>1, <4>1 DEF IndInv, Queues, SendMustWait
      <3> QED
        BY <2>1, <3>1 DEF IndInv, Queues, SendMustWait
    <2>6. Ends'
      BY <2>1, <2>2 DEF IndInv, Ends
    <2> QED
      BY <2>1, <2>2, <2>4, <2>5, <2>6 DEF IndInv, FC!vars
  <1> QED
    BY <1>6, <1>7

-----------------------------------------------------------------------------
(* Receive *)

(* The front of the buffer is taken; the first waiting sender's message     *)
(* gets its place, and the sender is told so while it is still suspended.   *)
LEMMA PopCore ==
  ASSUME IndInv, NEW c \in Coro, pc[c] \in {"run", "recv?"}, Pop(c),
         UNCHANGED <<value_, sends, abandoned, destroyed>>
  PROVE  IndInv' /\ FC!Next
  <1> DEFINE m == Head(buffer_)
  <1>1. /\ buffer_ # <<>> /\ result_' = [result_ EXCEPT ![c] = m]
        /\ taken' = Append(taken, m) /\ ended' = (ended \/ m = NoMsg)
        /\ UNCHANGED <<acked, refused, closed_, receiver_waiters_>>
    BY DEF Pop, ReceiveReturns
  <1>2. buffer_ \in Seq(Msg) /\ taken \in Seq(Msg) /\ Len(buffer_) <= capacity_
        /\ capacity_ \in Nat
    BY ChannelAssumption DEF IndInv, Queues
  <1>3. /\ Tail(buffer_) \in Seq(Msg) /\ m \in Msg
        /\ Contents(buffer_) = Contents(Tail(buffer_)) \union {m}
    BY <1>1, <1>2, PopFrontSets
  <1>4. Len(Tail(buffer_)) = Len(buffer_) - 1 /\ Len(buffer_) \in Nat
    BY <1>1, <1>2
  <1>5. m # NoMsg /\ m \in 0 .. MaxSends
    BY <1>3 DEF Msg, NoMsg
  <1>6. /\ receiver_waiters_ = <<>> /\ ended = FALSE /\ ended' = FALSE
        /\ \A d \in Coro : d \in Woken /\ pc[d] = "recv" => result_[d] # NoMsg
    <2>1. receiver_waiters_ = <<>> /\ ended = FALSE
          /\ \A d \in Coro : d \in Woken /\ pc[d] = "recv" => result_[d] # NoMsg
      BY <1>1 DEF IndInv, Queues, Ends
    <2> QED
      BY <1>1, <1>5, <2>1
  <1>7. /\ result_' \in [Coro -> 0 .. MaxSends]
        /\ \A d \in Coro : result_'[d] = IF d = c THEN m ELSE result_[d]
    BY <1>1, <1>5 DEF IndInv, Ends
  <1>8. taken' \in Seq(Msg) /\ Contents(taken') = Contents(taken) \union {m}
    BY <1>1, <1>2, <1>3, PushBackSets
  <1>9. c \notin Listed /\ c \notin Woken
    BY ListedFacts DEF IndInv, Asleep
  <1>10. CASE sender_waiters_ = <<>>
    <2>1. buffer_' = Tail(buffer_) /\ Wakes(c, <<>>) /\ UNCHANGED <<sent_, sender_waiters_>>
      BY <1>10 DEF Pop
    <2>2. /\ Handles' /\ Woken' = Woken
          /\ \A d \in Coro \ {c} : pc'[d] = pc[d]
          /\ pc'[c] \in {"run", "wake"}
      BY <1>1, <2>1, NoWakesHandles DEF IndInv, Running
    <2>3. Messages'
      <3>1. Given' = Given
        BY <1>3, <1>8, <2>1 DEF Given
      <3>2. \A d \in Coro : Sending(d)' => Sending(d)
        BY <2>2 DEF Sending
      <3>3. \A d \in Coro : pc'[d] = "send?" => pc[d] = "send?"
        BY <2>2
      <3> QED
        BY <1>1, <2>1, <3>1, <3>2, <3>3, SameMessages DEF IndInv
    <2>4. Queues'
      BY <1>1, <1>2, <1>3, <1>4, <1>6, <1>8, <1>10, <2>1 DEF IndInv, Queues
    <2>5. Ends'
      BY <1>6, <1>7, <1>9, <2>2 DEF IndInv, Ends
    <2>6. FC!Take
      BY <1>1, <2>1 DEF FC!Take
    <2> QED
      BY <2>2, <2>3, <2>4, <2>5, <2>6 DEF IndInv, FC!Next
  <1>11. CASE sender_waiters_ # <<>>
    <2> DEFINE s == Head(sender_waiters_)
               q == <<s>>
               v == value_[s]
    <2>1. /\ buffer_' = Append(Tail(buffer_), v)
          /\ sender_waiters_' = Tail(sender_waiters_)
          /\ sent_' = [sent_ EXCEPT ![s] = TRUE]
          /\ Wakes(c, q)
      BY <1>11 DEF Pop
    <2>2. /\ Tail(sender_waiters_) \in Seq(Coro) /\ Distinct(Tail(sender_waiters_))
          /\ s \in Coro /\ s \in Contents(sender_waiters_)
          /\ Contents(Tail(sender_waiters_)) = Contents(sender_waiters_) \ {s}
      BY <1>11, PopFrontSets DEF IndInv, Handles
    <2> HIDE DEF s
    <2>3. q \in Seq(Coro) /\ q # <<>> /\ Distinct(q) /\ Contents(q) = {s}
      BY <2>2, OneSets
    <2> HIDE DEF q
    <2>4. /\ s \notin Contents(receiver_waiters_) /\ s \in Listed /\ s # c
          /\ pc[s] = "send" /\ Sending(s) /\ sent_[s] = FALSE
      BY <1>9, <2>2, ListedFacts DEF IndInv, Listed, Handles, Messages, Sending
    <2>5. /\ Handles' /\ Woken' = Woken \union {s}
          /\ \A d \in Coro \ {c} : pc'[d] = pc[d]
          /\ pc'[c] \in {"run", "wake"}
      <3>1. /\ Contents(receiver_waiters_') = Contents(receiver_waiters_) \ Contents(q)
            /\ Contents(sender_waiters_') = Contents(sender_waiters_) \ Contents(q)
            /\ receiver_waiters_' \in Seq(Coro) /\ Distinct(receiver_waiters_')
            /\ sender_waiters_' \in Seq(Coro) /\ Distinct(sender_waiters_')
            /\ Contents(q) \subseteq Listed
        BY <1>1, <2>1, <2>2, <2>3, <2>4 DEF IndInv, Handles
      <3> QED
        BY <2>1, <2>3, <3>1, WakesHandles DEF IndInv, Running
    <2>6. /\ v \in 1 .. sends /\ v \notin Given /\ v \notin refused
          /\ \A d \in Coro \ {s} : Sending(d) => value_[d] # v
      BY <2>2, <2>4 DEF IndInv, Messages
    <2>7. v \in Msg
      BY <2>6, ChannelAssumption DEF IndInv, Messages, Msg
    <2>8. ~closed_ /\ Len(buffer_) = capacity_
      BY <1>11 DEF IndInv, Queues
    <2> HIDE DEF v, m
    <2>9. /\ buffer_' \in Seq(Msg)
          /\ Contents(buffer_') = Contents(Tail(buffer_)) \union {v}
      <3> DEFINE t == Tail(buffer_)
      <3>1. buffer_' = Append(t, v) /\ t \in Seq(Msg)
        BY <1>3, <2>1
      <3> HIDE DEF t
      <3>2. buffer_' \in Seq(Msg) /\ Contents(buffer_') = Contents(t) \union {v}
        BY <2>7, <3>1, PushBackSets
      <3> QED
        BY <3>2 DEF t
    <2>10. Len(buffer_') = capacity_
      BY <1>3, <1>4, <2>1, <2>7, <2>8
    <2>11. Given' = Given \union {v}
      BY <1>3, <1>8, <2>9 DEF Given
    <2>12. /\ sent_' \in [Coro -> BOOLEAN]
           /\ \A d \in Coro : sent_'[d] = IF d = s THEN TRUE ELSE sent_[d]
      BY <2>1, <2>2 DEF IndInv, Messages
    <2>13. \A d \in Coro : (Sending(d)' <=> Sending(d)) /\ (pc'[d] = "send?" => pc[d] = "send?")
      BY <2>5 DEF Sending
    <2>14. Messages'
      <3>1. /\ \A d \in Coro : Sending(d)' /\ sent_'[d] = TRUE => value_'[d] \in Given'
            /\ \A d \in Coro : Sending(d)' /\ sent_'[d] = FALSE
                       => value_'[d] \notin Given' /\ value_'[d] \notin refused'
        BY <1>1, <2>6, <2>11, <2>12, <2>13 DEF IndInv, Messages, v
      <3>2. \A d \in Coro : pc'[d] = "send?" \/ d \in Contents(sender_waiters_')
                       => sent_'[d] = FALSE
        BY <2>1, <2>2, <2>4, <2>12, <2>13 DEF IndInv, Messages
      <3>3. /\ Given' \subseteq 1 .. sends' /\ refused' \subseteq 1 .. sends'
            /\ refused' \intersect Given' = {} /\ acked' \subseteq Given'
        BY <1>1, <2>6, <2>11 DEF IndInv, Messages
      <3>4. /\ \A d \in Coro : Sending(d)' => value_'[d] \in 1 .. sends'
            /\ \A d, e \in Coro : d # e /\ Sending(d)' /\ Sending(e)' => value_'[d] # value_'[e]
        BY <2>13 DEF IndInv, Messages
      <3> QED
        BY <2>12, <3>1, <3>2, <3>3, <3>4 DEF IndInv, Messages
    <2>15. Queues'
      BY <1>1, <1>2, <1>6, <1>8, <2>8, <2>9, <2>10 DEF IndInv, Queues
    <2>16. Ends'
      BY <1>6, <1>7, <1>9, <2>4, <2>5 DEF IndInv, Ends
    <2>17. FC!Shift(v)
      <3>1. FC!Accepted = Given
        BY DEF FC!Accepted, Given, Contents
      <3> QED
        BY <1>1, <2>1, <2>6, <2>8, <3>1 DEF FC!Shift, m
    <2> QED
      BY <2>5, <2>7, <2>14, <2>15, <2>16, <2>17 DEF IndInv, FC!Next
  <1> QED
    BY <1>10, <1>11

(* The end of the stream. *)
LEMMA ReceiveEndsCore ==
  ASSUME IndInv, NEW c \in Coro, pc[c] \in {"run", "recv?"}, ReceiveEnds(c),
         UNCHANGED <<value_, sends, abandoned, destroyed>>
  PROVE  IndInv' /\ UNCHANGED FC!vars
  <1>1. /\ buffer_ = <<>> /\ closed_ /\ Wakes(c, <<>>)
        /\ result_' = [result_ EXCEPT ![c] = NoMsg]
        /\ ended' = (ended \/ NoMsg = NoMsg)
        /\ UNCHANGED <<acked, refused, buffer_, closed_, receiver_waiters_,
                       sender_waiters_, sent_, taken>>
    BY DEF ReceiveEnds, ReceiveReturns, chan
  <1>2. /\ Handles' /\ Woken' = Woken
        /\ \A d \in Coro \ {c} : pc'[d] = pc[d]
        /\ pc'[c] \in {"run", "wake"}
    BY <1>1, NoWakesHandles DEF IndInv, Running
  <1>3. Messages'
    <2>1. Given' = Given
      BY <1>1 DEF Given
    <2>2. \A d \in Coro : (Sending(d)' => Sending(d)) /\ (pc'[d] = "send?" => pc[d] = "send?")
      BY <1>2 DEF Sending
    <2> QED
      BY <1>1, <2>1, <2>2, SameMessages DEF IndInv
  <1>4. Queues'
    BY <1>1 DEF IndInv, Queues
  <1>5. Ends'
    <2>1. result_' \in [Coro -> 0 .. MaxSends]
      BY <1>1, ChannelAssumption DEF IndInv, Ends, NoMsg
    <2>2. ended' \in BOOLEAN /\ closed_' /\ buffer_' = <<>>
      BY <1>1
    <2> QED
      BY <2>1, <2>2 DEF Ends
  <1> QED
    BY <1>1, <1>2, <1>3, <1>4, <1>5 DEF IndInv, FC!vars

(* ReceiveAwaitable::await_ready *)
LEMMA ReceiveReadyCore ==
  ASSUME IndInv, NEW c \in Coro, ReceiveReady(c), UNCHANGED <<abandoned, destroyed>>
  PROVE  IndInv' /\ (FC!Next \/ UNCHANGED FC!vars)
  <1>1. pc[c] = "run" /\ UNCHANGED <<value_, sends>>
    BY DEF ReceiveReady
  <1>2. CASE Pop(c) \/ ReceiveEnds(c)
    BY <1>1, <1>2, PopCore, ReceiveEndsCore
  <1>3. CASE ~(Pop(c) \/ ReceiveEnds(c))
    <2>1. /\ pc' = [pc EXCEPT ![c] = "recv?"] /\ result_' = [result_ EXCEPT ![c] = NoMsg]
          /\ UNCHANGED <<buffer_, closed_, receiver_waiters_, sender_waiters_, sent_,
                         stack, taken, acked, refused, got, ended>>
      BY <1>3 DEF ReceiveReady, chan, hist
    <2>2. /\ Handles' /\ Woken' = Woken
          /\ \A d \in Coro : pc'[d] = IF d = c THEN "recv?" ELSE pc[d]
      BY <1>1, <2>1, AtHandles DEF IndInv, Running, At
    <2>3. c \notin Woken
      BY <1>1, ListedFacts DEF IndInv, Asleep
    <2>4. Messages'
      <3>1. Given' = Given
        BY <2>1 DEF Given
      <3>2. \A d \in Coro : (Sending(d)' => Sending(d)) /\ (pc'[d] = "send?" => pc[d] = "send?")
        BY <2>2 DEF Sending
      <3> QED
        BY <1>1, <2>1, <3>1, <3>2, SameMessages DEF IndInv
    <2>5. Queues'
      BY <2>1 DEF IndInv, Queues
    <2>6. Ends'
      <3>1. /\ result_' \in [Coro -> 0 .. MaxSends]
            /\ \A d \in Coro : d # c => result_'[d] = result_[d]
        BY <2>1, ChannelAssumption DEF IndInv, Ends, NoMsg
      <3> QED
        BY <2>1, <2>2, <2>3, <3>1 DEF IndInv, Ends
    <2> QED
      BY <2>1, <2>2, <2>4, <2>5, <2>6 DEF IndInv, FC!vars
  <1> QED
    BY <1>2, <1>3

(* ReceiveAwaitable::await_suspend *)
LEMMA ReceiveSuspendCore ==
  ASSUME IndInv, NEW c \in Coro, ReceiveSuspend(c), UNCHANGED <<abandoned, destroyed>>
  PROVE  IndInv' /\ (FC!Next \/ UNCHANGED FC!vars)
  <1>1. pc[c] = "recv?" /\ UNCHANGED <<value_, sends>>
    BY DEF ReceiveSuspend
  <1>2. CASE Pop(c) \/ ReceiveEnds(c)
    BY <1>1, <1>2, PopCore, ReceiveEndsCore
  <1>3. CASE ~(Pop(c) \/ ReceiveEnds(c))
    <2>1. /\ ReceiveMustWait /\ receiver_waiters_' = Append(receiver_waiters_, c)
          /\ Leave(c, "recv")
          /\ UNCHANGED <<buffer_, closed_, sender_waiters_, sent_, result_,
                         taken, acked, refused, got, ended>>
      BY <1>3 DEF ReceiveSuspend, hist
    <2>2. /\ Handles' /\ Woken' = Woken /\ c \notin Woken
          /\ pc'[c] = "recv"
          /\ \A d \in Coro \ {c} : \/ pc'[d] = pc[d]
                                   \/ pc[d] = "nest" /\ pc'[d] \in {"run", "wake"}
      <3>1. Handles /\ pc[c] \in Running /\ "recv" \in Asleep
        BY <1>1 DEF IndInv, Running, Asleep
      <3> QED
        BY <2>1, <3>1, QueueHandles
    <2>3. Messages'
      <3>1. Given' = Given
        BY <2>1 DEF Given
      <3>2. \A d \in Coro : (Sending(d)' => Sending(d)) /\ (pc'[d] = "send?" => pc[d] = "send?")
        BY <1>1, <2>2 DEF Sending
      <3> QED
        BY <1>1, <2>1, <3>1, <3>2, SameMessages DEF IndInv
    <2>4. Queues'
      BY <2>1 DEF IndInv, Queues, ReceiveMustWait
    <2>5. Ends'
      BY <2>1, <2>2 DEF IndInv, Ends
    <2> QED
      BY <2>1, <2>2, <2>3, <2>4, <2>5 DEF IndInv, FC!vars
  <1> QED
    BY <1>2, <1>3

-----------------------------------------------------------------------------
(* Close(), the destructor, and the coroutines that go on *)

(* Close() takes all the waiters: the receivers wait for an empty buffer,   *)
(* so each of them is at the end of the stream.                             *)
LEMMA CloseCore ==
  ASSUME IndInv, NEW c \in Coro, Close(c), UNCHANGED <<abandoned, destroyed>>
  PROVE  IndInv' /\ FC!Close
  <1> DEFINE q == receiver_waiters_ \o sender_waiters_
  <1>1. /\ pc[c] = "run" /\ ~closed_ /\ closed_' = TRUE /\ Wakes(c, q)
        /\ receiver_waiters_' = <<>> /\ sender_waiters_' = <<>>
        /\ UNCHANGED <<buffer_, value_, sent_, result_, sends, taken,
                       acked, refused, got, ended>>
    BY DEF Close, hist
  <1>2. q \in Seq(Coro) /\ Distinct(q) /\ Contents(q) = Listed
    <2>1. /\ receiver_waiters_ \in Seq(Coro) /\ Distinct(receiver_waiters_)
          /\ sender_waiters_ \in Seq(Coro) /\ Distinct(sender_waiters_)
          /\ Contents(receiver_waiters_) \intersect Contents(sender_waiters_) = {}
      BY ListedFacts DEF IndInv, Handles
    <2> QED
      BY <2>1, ConcatSets DEF Listed
  <1> HIDE DEF q
  <1>3. Contents(<<>>) = {} /\ Distinct(<<>>) /\ <<>> \in Seq(Coro)
    BY NothingQueued
  <1>4. /\ Handles' /\ Woken' = Woken \union Listed
        /\ \A d \in Coro \ {c} : pc'[d] = pc[d]
        /\ pc'[c] \in {"run", "wake"}
    <2>1. /\ receiver_waiters_' \in Seq(Coro) /\ Distinct(receiver_waiters_')
          /\ sender_waiters_' \in Seq(Coro) /\ Distinct(sender_waiters_')
          /\ Contents(receiver_waiters_') = Contents(receiver_waiters_) \ Contents(q)
          /\ Contents(sender_waiters_') = Contents(sender_waiters_) \ Contents(q)
          /\ pc[c] \in Running /\ Handles
      BY <1>1, <1>2, <1>3 DEF Listed, Running, IndInv
    <2> QED
      BY <1>1, <1>2, <2>1, WakesHandles
  <1>5. c \notin Woken /\ c \notin Listed
    BY <1>1, ListedFacts DEF IndInv, Asleep
  <1>6. Messages'
    <2>1. Given' = Given
      BY <1>1 DEF Given
    <2>2. \A d \in Coro : (Sending(d)' => Sending(d)) /\ (pc'[d] = "send?" => pc[d] = "send?")
      BY <1>4 DEF Sending
    <2>3. Contents(sender_waiters_') = {}
      BY <1>1, <1>3
    <2> QED
      BY <1>1, <2>1, <2>2, <2>3, SameMessages DEF IndInv
  <1>7. Queues'
    BY <1>1 DEF IndInv, Queues
  <1>8. Ends'
    <2>1. ended = FALSE /\ \A d \in Coro : d \in Woken /\ pc[d] = "recv" => result_[d] # NoMsg
      BY <1>1 DEF IndInv, Ends
    <2>2. ASSUME NEW d \in Listed, pc[d] = "recv" PROVE buffer_ = <<>>
      <3>1. d \in Contents(receiver_waiters_)
        BY <2>2 DEF Listed, IndInv, Handles
      <3>2. receiver_waiters_ # <<>>
        BY <1>3, <3>1
      <3> QED
        BY <3>2 DEF IndInv, Queues
    <2> QED
      BY <1>1, <1>4, <1>5, <2>1, <2>2 DEF IndInv, Ends
  <1> QED
    BY <1>1, <1>4, <1>6, <1>7, <1>8 DEF IndInv, FC!Close

(* ~Channel() resumes nobody. *)
LEMMA DestroyCore ==
  ASSUME IndInv, NEW c \in Coro, ~destroyed, Destroy(c)
  PROVE  IndInv' /\ FC!Close
  <1> DEFINE q == receiver_waiters_ \o sender_waiters_
  <1>1. /\ destroyed' = TRUE /\ closed_' = TRUE /\ abandoned' = Contents(q)
        /\ receiver_waiters_' = <<>> /\ sender_waiters_' = <<>>
        /\ UNCHANGED <<buffer_, value_, sent_, result_, sends, taken,
                       acked, refused, got, ended, pc, to_wake, runner, after>>
    BY ElemsContents DEF Destroy, hist, stack
  <1>2. abandoned' = Listed /\ abandoned = {}
    <2>1. receiver_waiters_ \in Seq(Coro) /\ sender_waiters_ \in Seq(Coro)
      BY DEF IndInv, Handles
    <2>2. Contents(q) = Listed
      BY <2>1, ConcatSets DEF Listed
    <2> QED
      BY <1>1, <2>2 DEF IndInv, Handles
  <1> HIDE DEF q
  <1>3. /\ Contents(receiver_waiters_') = {} /\ Contents(sender_waiters_') = {}
        /\ Distinct(receiver_waiters_') /\ Distinct(sender_waiters_')
        /\ receiver_waiters_' \in Seq(Coro) /\ sender_waiters_' \in Seq(Coro)
    BY <1>1, NothingQueued
  <1>4. Woken' = Woken /\ Suspended' = Suspended /\ Listed' = {} /\ Given' = Given
    BY <1>1, <1>3 DEF Woken, Suspended, Listed, Given
  <1>5. StackInv(Running, Asleep)' /\ ListsInv(Asleep)'
    BY <1>1, <1>4 DEF IndInv, Handles, StackInv, ListsInv
  <1>6. Handles'
    BY <1>1, <1>2, <1>3, <1>4, <1>5 DEF IndInv, Handles
  <1>7. Messages'
    <2>1. \A d \in Coro : (Sending(d)' => Sending(d)) /\ (pc'[d] = "send?" => pc[d] = "send?")
      BY <1>1 DEF Sending
    <2> QED
      BY <1>1, <1>3, <1>4, <2>1, SameMessages DEF IndInv
  <1>8. Queues'
    BY <1>1 DEF IndInv, Queues
  <1>9. Ends'
    BY <1>1, <1>4 DEF IndInv, Ends
  <1> QED
    BY <1>1, <1>6, <1>7, <1>8, <1>9 DEF IndInv, FC!Close

(* resume(): await_resume reads what the waker stored. *)
LEMMA ResumeCore ==
  ASSUME IndInv, NEW c \in Coro, Resume(c)
  PROVE  IndInv' /\ UNCHANGED FC!vars
  <1> DEFINE w == Head(to_wake[c])
  <1>1. /\ ResumeTo(c, w, "run")
        /\ \/ pc[w] = "send" /\ SendReturns(value_[w], sent_[w])
           \/ pc[w] = "recv" /\ ReceiveReturns(result_[w])
        /\ UNCHANGED <<buffer_, closed_, receiver_waiters_, sender_waiters_, abandoned,
                       destroyed, value_, sent_, result_, sends, taken>>
    BY DEF Resume, ResumeAt, ResumeTo, chan, gone
  <1> HIDE DEF w
  <1>2. StackInv(Running, Asleep) /\ ListsInv(Asleep) /\ "run" \in Running
    BY DEF IndInv, Handles, Running
  <1>3. /\ pc[c] = "wake" /\ after' = after
        /\ w \in Coro /\ w # c /\ w \in Woken /\ pc[w] \in Asleep
        /\ StackInv(Running, Asleep)' /\ ListsInv(Asleep)'
        /\ Woken' = Woken \ {w}
        /\ \A d \in Coro : pc'[d] = IF d = w THEN "run"
                                    ELSE IF d = c THEN "nest" ELSE pc[d]
    BY <1>1, <1>2, ResumeInv, ChannelLabels
  <1>4. Listed' = Listed /\ Given' = Given /\ w \notin Listed /\ w \notin abandoned
        /\ c \notin Listed
    BY <1>1, <1>3, ListedFacts DEF IndInv, Handles, Listed, Given, Asleep
  <1>5. Suspended' = Suspended \ {w}
    BY <1>3 DEF Suspended
  <1>6. Handles'
    <2>1. /\ \A d \in Contents(receiver_waiters_) : d \in Coro /\ d # c /\ d # w
          /\ \A d \in Contents(sender_waiters_) : d \in Coro /\ d # c /\ d # w
      BY <1>4, ListedFacts DEF IndInv, Listed
    <2> QED
      BY <1>1, <1>3, <1>4, <1>5, <2>1 DEF IndInv, Handles
  <1>7. \A d \in Coro : /\ Sending(d)' <=> Sending(d) /\ d # w
                        /\ pc'[d] = "send?" => pc[d] = "send?"
    BY <1>3 DEF Sending
  <1>8. Queues'
    BY <1>1 DEF IndInv, Queues
  <1>9. CASE pc[w] = "send"
    <2>1. SendReturns(value_[w], sent_[w]) /\ Sending(w)
      BY <1>1, <1>9 DEF Sending
    <2>2. Ends'
      BY <1>1, <1>3, <2>1 DEF IndInv, Ends, SendReturns
    <2>3. CASE sent_[w] = TRUE
      <3>1. acked' = acked \union {value_[w]} /\ refused' = refused /\ value_[w] \in Given
        BY <1>3, <2>1, <2>3 DEF SendReturns, IndInv, Messages
      <3>2. Messages'
        BY <1>1, <1>4, <1>7, <3>1 DEF IndInv, Messages
      <3> QED
        BY <1>1, <1>6, <1>8, <2>2, <3>2 DEF IndInv, FC!vars
    <2>4. CASE sent_[w] = FALSE
      <3>1. acked' = acked /\ refused' = refused \union {value_[w]}
        BY <2>1, <2>4 DEF SendReturns
      <3>2. /\ value_[w] \notin Given /\ value_[w] \in 1 .. sends
            /\ \A d \in Coro : Sending(d)' => value_[d] # value_[w]
        BY <1>3, <1>7, <2>1, <2>4 DEF IndInv, Messages
      <3>3. Messages'
        BY <1>1, <1>4, <1>7, <3>1, <3>2 DEF IndInv, Messages
      <3> QED
        BY <1>1, <1>6, <1>8, <2>2, <3>3 DEF IndInv, FC!vars
    <2>5. sent_[w] \in BOOLEAN
      BY <1>3 DEF IndInv, Messages
    <2> QED
      BY <2>3, <2>4, <2>5
  <1>10. CASE pc[w] = "recv"
    <2>1. /\ ended' = (ended \/ result_[w] = NoMsg)
          /\ UNCHANGED <<acked, refused>>
      BY <1>1, <1>10 DEF ReceiveReturns
    <2>2. Messages'
      BY <1>1, <1>4, <1>7, <2>1, SameMessages DEF IndInv
    <2>3. Ends'
      <3>1. /\ ended' \in BOOLEAN
            /\ ended' = TRUE => ended = TRUE \/ result_[w] = NoMsg
        BY <2>1 DEF IndInv, Ends
      <3>2. result_[w] = NoMsg => closed_ /\ buffer_ = <<>>
        BY <1>3, <1>10 DEF IndInv, Ends
      <3> QED
        BY <1>1, <1>3, <3>1, <3>2 DEF IndInv, Ends
    <2> QED
      BY <1>1, <1>6, <1>8, <2>2, <2>3 DEF IndInv, FC!vars
  <1> QED
    BY <1>3, <1>9, <1>10 DEF Asleep

(* A coroutine gives the thread back to the one that resumed it. *)
LEMMA YieldCore ==
  ASSUME IndInv, NEW c \in Coro, Yield(c)
  PROVE  IndInv' /\ UNCHANGED FC!vars
  <1>1. /\ pc[c] = "run" /\ Leave(c, "run")
        /\ UNCHANGED <<buffer_, closed_, receiver_waiters_, sender_waiters_, abandoned,
                       destroyed, value_, sent_, result_, sends, taken,
                       acked, refused, got, ended>>
    BY DEF Yield, YieldAt, chan, gone, hist
  <1>2. /\ StackInv(Running, Asleep)' /\ ListsInv(Asleep)'
        /\ Woken' = Woken
        /\ pc'[c] = "run"
        /\ \A d \in Coro \ {c} :
             pc'[d] = pc[d] \/ (pc[d] = "nest" /\ pc'[d] \in {after[d], "wake"})
    BY <1>1, LeaveInv, ChannelLabels DEF IndInv, Handles, Running
  <1>3. \A d \in Coro : after[d] = "run" /\ after'[d] = "run"
    BY <1>1 DEF IndInv, Handles, Leave
  <1>4. \A d \in Coro : \/ pc'[d] = pc[d]
                        \/ pc[d] = "nest" /\ pc'[d] \in {"run", "wake"}
    BY <1>1, <1>2, <1>3
  <1>5. Listed' = Listed /\ Given' = Given /\ Suspended' = Suspended
    BY <1>1, <1>4 DEF Listed, Given, Suspended
  <1>6. Handles'
    <2>1. \A d \in Listed : d \in Coro /\ pc'[d] = pc[d]
      BY <1>4, ListedFacts DEF IndInv, Asleep
    <2> QED
      BY <1>1, <1>2, <1>3, <1>5, <2>1 DEF IndInv, Handles, Listed
  <1>7. Messages'
    <2>1. \A d \in Coro : (Sending(d)' => Sending(d)) /\ (pc'[d] = "send?" => pc[d] = "send?")
      BY <1>4 DEF Sending
    <2> QED
      BY <1>1, <1>5, <2>1, SameMessages DEF IndInv
  <1>8. Queues'
    BY <1>1 DEF IndInv, Queues
  <1>9. Ends'
    BY <1>1, <1>2, <1>4 DEF IndInv, Ends
  <1> QED
    BY <1>1, <1>6, <1>7, <1>8, <1>9 DEF IndInv, FC!vars

-----------------------------------------------------------------------------
(* The channel is created. *)
LEMMA InitIndInv ==
  ASSUME Init
  PROVE  IndInv
  <1>1. pc = [c \in Coro |-> "run"] /\ StackInit
    BY DEF Init
  <1>2. StackInv(Running, Asleep) /\ ListsInv(Asleep) /\ Woken = {}
    <2>1. pc \in [Coro -> Running \union Asleep] /\ "run" \in Running
      BY <1>1 DEF Running
    <2> QED
      BY <1>1, <2>1, StackInitInv, ChannelLabels
  <1>3. \A c \in Coro : after[c] = "run" /\ pc[c] = "run"
    BY <1>1 DEF StackInit
  <1>4. /\ buffer_ = <<>> /\ receiver_waiters_ = <<>> /\ sender_waiters_ = <<>>
        /\ taken = <<>>
        /\ Contents(<<>>) = {} /\ Distinct(<<>>) /\ <<>> \in Seq(Coro) /\ <<>> \in Seq(Msg)
    BY NothingQueued DEF Init
  <1>5. Listed = {} /\ Given = {} /\ Suspended = {} /\ abandoned = {}
    BY <1>3, <1>4 DEF Listed, Given, Suspended, Init
  <1>6. Handles
    BY <1>2, <1>3, <1>4, <1>5 DEF Handles, Init
  <1>7. Queues
    <2>1. Len(buffer_) = 0 /\ capacity_ \in Nat
      BY <1>4, ChannelAssumption
    <2>2. Len(buffer_) <= capacity_
      BY <2>1
    <2>3. closed_ \in BOOLEAN
      BY DEF Init
    <2> QED
      BY <1>4, <2>2, <2>3 DEF Queues
  <1>8. Messages
    BY <1>3, <1>4, <1>5, ChannelAssumption DEF Messages, Sending, Init, NoMsg
  <1>9. Ends
    <2>1. result_ \in [Coro -> 0 .. MaxSends]
      BY ChannelAssumption DEF Init, NoMsg
    <2>2. ended = FALSE
      BY DEF Init
    <2> QED
      BY <1>2, <2>1, <2>2 DEF Ends
  <1> QED
    BY <1>6, <1>7, <1>8, <1>9 DEF IndInv

(* Every step, and the step of the bounded queue it is. *)
LEMMA StepIndInv ==
  ASSUME IndInv, NEW c \in Coro, Step(c)
  PROVE  IndInv' /\ (FC!Next \/ UNCHANGED FC!vars)
  <1>1. CASE Operation(c) /\ UNCHANGED gone
    BY <1>1, SendReadyCore, SendSuspendCore, ReceiveReadyCore, ReceiveSuspendCore, CloseCore
       DEF Operation, gone, FC!Next
  <1>2. CASE ~destroyed /\ Destroy(c)
    BY <1>2, DestroyCore DEF FC!Next
  <1>3. CASE Resume(c) \/ Yield(c)
    BY <1>3, ResumeCore, YieldCore
  <1> QED
    BY <1>1, <1>2, <1>3 DEF Step

(* A stuttering step. *)
LEMMA StutterIndInv ==
  ASSUME IndInv, UNCHANGED vars
  PROVE  IndInv' /\ UNCHANGED FC!vars
  <1>1. UNCHANGED <<buffer_, closed_, receiver_waiters_, sender_waiters_, abandoned,
                    destroyed, value_, sent_, result_, pc, to_wake, runner, after,
                    sends, taken, acked, refused, got, ended>>
    BY DEF vars, chan, gone, hist, stack
  <1>2. Woken' = Woken /\ Listed' = Listed /\ Suspended' = Suspended /\ Given' = Given
    BY <1>1 DEF Woken, Listed, Suspended, Given
  <1>3. StackInv(Running, Asleep)' /\ ListsInv(Asleep)'
    BY <1>1, <1>2 DEF IndInv, Handles, StackInv, ListsInv
  <1>4. Handles'
    BY <1>1, <1>2, <1>3 DEF IndInv, Handles
  <1>5. Queues' /\ Ends'
    BY <1>1, <1>2 DEF IndInv, Queues, Ends
  <1>6. Messages'
    <2>1. \A d \in Coro : (Sending(d)' => Sending(d)) /\ (pc'[d] = "send?" => pc[d] = "send?")
      BY <1>1 DEF Sending
    <2> QED
      BY <1>1, <1>2, <2>1, SameMessages DEF IndInv
  <1> QED
    BY <1>1, <1>4, <1>5, <1>6 DEF IndInv, FC!vars

(***************************************************************************)
(* IndInv holds in every reachable state, for every set of coroutines,     *)
(* capacity and number of messages.                                        *)
(***************************************************************************)
THEOREM Inductive == Spec => []IndInv
  <1>1. IndInv /\ [Next]_vars => IndInv'
    BY StepIndInv, StutterIndInv DEF Next
  <1> QED
    BY <1>1, InitIndInv, PTL DEF Spec

(***************************************************************************)
(* Channel implements the bounded FIFO queue: no handover overtakes a      *)
(* buffered message, none is taken twice or lost, none is accepted after   *)
(* Close(), and the buffer respects its capacity.                          *)
(***************************************************************************)
THEOREM ChannelRefines == Spec => RefinesFifoChannel
  <1>1. Init => FC!Init
    BY DEF Init, FC!Init
  <1>2. IndInv /\ [Next]_vars => [FC!Next]_(FC!vars)
    BY StepIndInv, StutterIndInv DEF Next
  <1> QED
    BY <1>1, <1>2, Inductive, PTL DEF Spec, RefinesFifoChannel, FC!Spec

(***************************************************************************)
(* Each suspended coroutine is in one place, once, unless the destructor   *)
(* dropped it, and who is listed waits for what is not there.              *)
(***************************************************************************)
THEOREM WaitersSafe == Spec => []WaitersRight
  <1>1. ASSUME IndInv PROVE WaitersRight
    <2> DEFINE q == receiver_waiters_ \o sender_waiters_
               S == Suspended \ abandoned
    <2>1. /\ receiver_waiters_ \in Seq(Coro) /\ Distinct(receiver_waiters_)
          /\ sender_waiters_ \in Seq(Coro) /\ Distinct(sender_waiters_)
          /\ Contents(receiver_waiters_) \intersect Contents(sender_waiters_) = {}
          /\ to_wake \in [Coro -> Seq(Coro)] /\ ListsInv(Asleep)
      BY <1>1, ListedFacts DEF IndInv, Handles, StackInv
    <2>2. q \in Seq(Coro) /\ Distinct(q) /\ Contents(q) = Listed
      BY <2>1, ConcatSets DEF Listed
    <2> HIDE DEF q
    <2>3. Listed \intersect Woken = {} /\ Listed \union Woken = S
      BY <1>1 DEF IndInv, Handles
    <2> HIDE DEF S
    <2>4. InOnePlace(q, S)
      BY <2>1, <2>2, <2>3, OnePlace
    <2>5. \A c \in Elems(receiver_waiters_) : pc[c] = "recv"
      BY <1>1, ElemsContents DEF IndInv, Handles
    <2> QED
      BY <1>1, <2>4, <2>5 DEF WaitersRight, IndInv, Queues, q, S
  <1> QED
    BY <1>1, Inductive, PTL

(***************************************************************************)
(* Send() returns TRUE only for a message the channel accepted, FALSE only *)
(* for one it never gives out, and a Receive() that returns nullopt is at  *)
(* the end of the stream.                                                  *)
(***************************************************************************)
THEOREM EndsTruthful == Spec => []Truthful
  <1>1. ASSUME IndInv PROVE Truthful
    <2>1. Accepted = Given
      BY ElemsContents DEF Accepted, Given
    <2> QED
      BY <1>1, <2>1 DEF IndInv, Messages, Ends, Truthful
  <1> QED
    BY <1>1, Inductive, PTL

=============================================================================
