--------------------------- MODULE CoroutineLemmas ---------------------------
(***************************************************************************)
(* What the steps of Coroutines do to the stack of nested resumes and to   *)
(* the lists of handles that wakers work through, whatever primitive takes *)
(* them.  R are the labels of coroutines that run, A those of coroutines   *)
(* suspended in the primitive.                                             *)
(***************************************************************************)
EXTENDS Coroutines, FiniteSetTheorems, TLAPS

(* What push_back and pop_front do to the contents of a deque of handles or *)
(* items.                                                                   *)
Contents(q) == {q[i] : i \in DOMAIN q}
Distinct(q) == \A i, j \in DOMAIN q : i # j => q[i] # q[j]

(* The handles of a deque after push_back and after pop_front. *)
LEMMA PushBack ==
  ASSUME NEW S, NEW q \in Seq(S), NEW x \in S
  PROVE  /\ Append(q, x) \in Seq(S)
         /\ Append(q, x) # <<>>
         /\ DOMAIN Append(q, x) = DOMAIN q \union {Len(q) + 1}
         /\ Len(q) + 1 \notin DOMAIN q
         /\ \A i \in DOMAIN q : Append(q, x)[i] = q[i]
         /\ Append(q, x)[Len(q) + 1] = x
  OBVIOUS

(* pop_front() shifts the places by one. *)
LEMMA PopFront ==
  ASSUME NEW S, NEW q \in Seq(S), q # <<>>
  PROVE  /\ Tail(q) \in Seq(S)
         /\ Head(q) = q[1] /\ Head(q) \in S
         /\ 1 \in DOMAIN q
         /\ \A i \in DOMAIN Tail(q) : /\ i + 1 \in DOMAIN q /\ i + 1 # 1
                                      /\ Tail(q)[i] = q[i + 1]
         /\ \A i \in DOMAIN q : i # 1 => /\ i - 1 \in DOMAIN Tail(q)
                                         /\ Tail(q)[i - 1] = q[i]
         /\ \A i, j \in DOMAIN Tail(q) : i # j => i + 1 # j + 1
  OBVIOUS

(* An empty deque, and one that is not. *)
LEMMA EmptyDeque ==
  ASSUME NEW S, NEW q \in Seq(S)
  PROVE  /\ q = <<>> <=> Contents(q) = {}
         /\ Contents(q) \subseteq S
         /\ Distinct(<<>>) /\ <<>> \in Seq(S)
  <1>1. q = <<>> => Contents(q) = {}
    BY DEF Contents
  <1>2. q # <<>> => q[1] \in Contents(q)
    BY PopFront DEF Contents
  <1>3. Contents(q) \subseteq S /\ Distinct(<<>>)
    BY DEF Contents, Distinct
  <1> QED
    BY <1>1, <1>2, <1>3

(* pop_front: what is left, and that the front is gone when it was there    *)
(* only once.                                                               *)
LEMMA PopFrontSets ==
  ASSUME NEW S, NEW q \in Seq(S), q # <<>>
  PROVE  /\ Tail(q) \in Seq(S)
         /\ Head(q) \in S
         /\ Head(q) \in Contents(q)
         /\ Contents(q) = Contents(Tail(q)) \union {Head(q)}
         /\ Distinct(q) => /\ Distinct(Tail(q))
                           /\ Head(q) \notin Contents(Tail(q))
                           /\ Contents(Tail(q)) = Contents(q) \ {Head(q)}
  <1> DEFINE t == Tail(q)
  <1>1. t \in Seq(S) /\ Head(q) = q[1] /\ Head(q) \in S /\ 1 \in DOMAIN q
    BY PopFront
  <1>2. \A i \in DOMAIN t : i + 1 \in DOMAIN q /\ i + 1 # 1 /\ t[i] = q[i + 1]
    BY PopFront
  <1>3. \A i \in DOMAIN q : i # 1 => i - 1 \in DOMAIN t /\ t[i - 1] = q[i]
    BY PopFront
  <1>4. Distinct(q) => Distinct(t)
    BY <1>2, PopFront DEF Distinct
  <1>5. Contents(q) = Contents(t) \union {Head(q)}
    <2>1. ASSUME NEW i \in DOMAIN t
          PROVE  t[i] \in {q[k] : k \in DOMAIN q}
      BY <1>1, <1>2
    <2>2. ASSUME NEW k \in DOMAIN q, q[k] # Head(q)
          PROVE  q[k] \in {t[i] : i \in DOMAIN t}
      <3>1. k - 1 \in DOMAIN t /\ t[k - 1] = q[k]
        BY <1>1, <1>3, <2>2
      <3> QED
        BY <3>1
    <2> HIDE DEF t
    <2> QED
      BY <1>1, <2>1, <2>2 DEF Contents
  <1>6. Distinct(q) => Head(q) \notin Contents(t)
    <2> SUFFICES ASSUME Distinct(q), NEW i \in DOMAIN t PROVE t[i] # Head(q)
      BY DEF Contents
    <2> QED
      BY <1>1, <1>2 DEF Distinct
  <1> HIDE DEF t
  <1>7. Head(q) \in Contents(q)
    BY <1>5
  <1>8. Distinct(q) => Contents(t) = Contents(q) \ {Head(q)}
    BY <1>5, <1>6
  <1> QED
    BY <1>1, <1>4, <1>5, <1>6, <1>7, <1>8 DEF t

(* push_back *)
LEMMA PushBackSets ==
  ASSUME NEW S, NEW q \in Seq(S), NEW x \in S
  PROVE  /\ Append(q, x) \in Seq(S) /\ Append(q, x) # <<>>
         /\ Contents(Append(q, x)) = Contents(q) \union {x}
         /\ Distinct(q) /\ x \notin Contents(q) => Distinct(Append(q, x))
  <1>1. Contents(Append(q, x)) = Contents(q) \union {x}
    BY PushBack DEF Contents
  <1>2. Distinct(q) /\ x \notin Contents(q) => Distinct(Append(q, x))
    BY PushBack DEF Contents, Distinct
  <1> QED
    BY <1>1, <1>2, PushBack

(* Two deques one after the other. *)
LEMMA ConcatSets ==
  ASSUME NEW S, NEW q \in Seq(S), NEW r \in Seq(S)
  PROVE  /\ q \o r \in Seq(S)
         /\ Contents(q \o r) = Contents(q) \union Contents(r)
         /\ Distinct(q) /\ Distinct(r) /\ Contents(q) \intersect Contents(r) = {}
              => Distinct(q \o r)
  <1> DEFINE s == q \o r
  <1>1. /\ s \in Seq(S) /\ Len(q) \in Nat /\ Len(r) \in Nat
        /\ DOMAIN q = 1 .. Len(q) /\ DOMAIN r = 1 .. Len(r)
        /\ DOMAIN s = 1 .. Len(q) + Len(r)
    OBVIOUS
  <1>2. /\ \A i \in DOMAIN q : i \in DOMAIN s /\ s[i] = q[i]
        /\ \A i \in DOMAIN r : Len(q) + i \in DOMAIN s /\ s[Len(q) + i] = r[i]
    OBVIOUS
  <1>3. \A i \in DOMAIN s : \/ i \in DOMAIN q /\ s[i] = q[i]
                            \/ /\ i \notin DOMAIN q /\ i - Len(q) \in DOMAIN r
                               /\ s[i] = r[i - Len(q)]
    OBVIOUS
  <1>4. \A i, j \in DOMAIN s : i # j => i - Len(q) # j - Len(q)
    BY <1>1
  <1> HIDE DEF s
  <1>5. Contents(s) = Contents(q) \union Contents(r)
    BY <1>2, <1>3 DEF Contents
  <1>6. ASSUME Distinct(q), Distinct(r), Contents(q) \intersect Contents(r) = {}
        PROVE  Distinct(s)
    <2> SUFFICES ASSUME NEW i \in DOMAIN s, NEW j \in DOMAIN s, i # j, s[i] = s[j]
                 PROVE  FALSE
      BY DEF Distinct
    <2>1. CASE i \in DOMAIN q /\ j \in DOMAIN q
      BY <1>3, <1>6, <2>1 DEF Distinct
    <2>2. CASE i \notin DOMAIN q /\ j \notin DOMAIN q
      BY <1>3, <1>4, <1>6, <2>2 DEF Distinct
    <2>3. CASE i \in DOMAIN q /\ j \notin DOMAIN q
      BY <1>3, <1>6, <2>3 DEF Contents
    <2>4. CASE i \notin DOMAIN q /\ j \in DOMAIN q
      BY <1>3, <1>6, <2>4 DEF Contents
    <2> QED
      BY <2>1, <2>2, <2>3, <2>4
  <1> QED
    BY <1>1, <1>5, <1>6 DEF s

(* A deque of one. *)
LEMMA OneSets ==
  ASSUME NEW S, NEW x \in S
  PROVE  /\ <<x>> \in Seq(S) /\ <<x>> # <<>>
         /\ Contents(<<x>>) = {x} /\ Distinct(<<x>>)
         /\ Head(<<x>>) = x
  BY DEF Contents, Distinct

-----------------------------------------------------------------------------
(* A coroutine resumed inline has the one that resumed it under it, inside  *)
(* resume() and under nobody else; a suspended one is on no stack.          *)
StackInv(R, A) ==
  /\ pc \in [Coro -> R \union A \union {"wake", "nest"}]
  /\ to_wake \in [Coro -> Seq(Coro)]
  /\ runner \in [Coro -> Coro \union {None}]
  /\ after \in [Coro -> R]
  /\ \A c \in Coro : to_wake[c] # <<>> => pc[c] \in {"wake", "nest"}
  /\ \A c \in Coro : pc[c] = "wake" => to_wake[c] # <<>>
  /\ \A c \in Coro : runner[c] # None => pc[runner[c]] = "nest" /\ pc[c] \notin A
  /\ \A c, d \in Coro : c # d /\ runner[c] = runner[d] => runner[c] = None

(* A handle is in one waker's list, once, and its coroutine is suspended. *)
ListsInv(A) ==
  /\ \A c \in Coro : Distinct(to_wake[c])
  /\ \A c, d \in Coro : c # d => Contents(to_wake[c]) \intersect Contents(to_wake[d]) = {}
  /\ \A w \in Woken : w \in Coro /\ pc[w] \in A

Labels(R, A) ==
  R \intersect A = {} /\ {"wake", "nest"} \intersect (R \union A) = {}

-----------------------------------------------------------------------------
(* Elems is the set of a deque's contents. *)
LEMMA ElemsContents == \A s : Elems(s) = Contents(s)
  BY DEF Elems, Contents

(* A coroutine is woken when it is in some waker's list. *)
LEMMA WokenContents ==
  /\ \A w : w \in Woken <=> \E c \in Coro : w \in Contents(to_wake[c])
  /\ \A w : w \in Woken' <=> \E c \in Coro : w \in Contents(to_wake'[c])
  BY ElemsContents DEF Woken

(* To begin with, nobody is resumed by anybody. *)
LEMMA StackInitInv ==
  ASSUME NEW R, NEW A, Labels(R, A), "run" \in R,
         StackInit, pc \in [Coro -> R \union A]
  PROVE  StackInv(R, A) /\ ListsInv(A) /\ Woken = {}
  <1>1. \A c \in Coro : to_wake[c] = <<>> /\ runner[c] = None
    BY DEF StackInit
  <1>2. Contents(<<>>) = {} /\ Distinct(<<>>) /\ <<>> \in Seq(Coro)
    BY DEF Contents, Distinct
  <1>3. Woken = {}
    BY <1>1, <1>2, WokenContents
  <1>4. StackInv(R, A)
    BY <1>1, <1>2 DEF StackInv, StackInit, Labels
  <1> QED
    BY <1>1, <1>2, <1>3, <1>4 DEF ListsInv

(* A step within user code or between await_ready and await_suspend. *)
LEMMA AtInv ==
  ASSUME NEW R, NEW A, Labels(R, A), StackInv(R, A), ListsInv(A),
         NEW c \in Coro, pc[c] \in R, NEW l \in R, At(c, l)
  PROVE  /\ StackInv(R, A)' /\ ListsInv(A)'
         /\ Woken' = Woken
         /\ \A d \in Coro : pc'[d] = IF d = c THEN l ELSE pc[d]
  <1>1. UNCHANGED <<to_wake, runner, after>> /\ pc' = [pc EXCEPT ![c] = l]
    BY DEF At, stack
  <1>2. Woken' = Woken
    BY <1>1 DEF Woken
  <1>3. \A d \in Coro : pc'[d] = IF d = c THEN l ELSE pc[d]
    BY <1>1 DEF StackInv
  <1>4. StackInv(R, A)'
    BY <1>1, <1>3 DEF StackInv, Labels
  <1>5. ListsInv(A)'
    BY <1>1, <1>2, <1>3 DEF ListsInv, Labels
  <1> QED
    BY <1>2, <1>3, <1>4, <1>5

(* c gives its thread up; the coroutine under it goes on. *)
LEMMA LeaveInv ==
  ASSUME NEW R, NEW A, Labels(R, A), StackInv(R, A), ListsInv(A),
         NEW c \in Coro, pc[c] \in R, NEW next \in R \union A, Leave(c, next)
  PROVE  /\ StackInv(R, A)' /\ ListsInv(A)'
         /\ Woken' = Woken
         /\ pc'[c] = next
         /\ \A d \in Coro \ {c} :
              pc'[d] = pc[d] \/ (pc[d] = "nest" /\ pc'[d] \in {after[d], "wake"})
  <1>1. /\ UNCHANGED <<to_wake, after>> /\ runner' = [runner EXCEPT ![c] = None]
        /\ \A d \in Coro : pc'[d] = IF d = c THEN next
                                    ELSE IF d # runner[c] THEN pc[d]
                                    ELSE IF to_wake[d] = <<>> THEN after[d] ELSE "wake"
    BY DEF Leave
  <1>2. \A d \in Coro : d = runner[c] => pc[d] = "nest" /\ d # c
    BY CoroAssumption DEF StackInv, Labels
  <1>3. Woken' = Woken
    BY <1>1 DEF Woken
  <1>4. \A d \in Coro : runner'[d] = IF d = c THEN None ELSE runner[d]
    BY <1>1 DEF StackInv
  <1>5. StackInv(R, A)'
    <2>1. pc' \in [Coro -> R \union A \union {"wake", "nest"}]
      BY DEF StackInv, Leave
    <2>2. \A d \in Coro : to_wake'[d] # <<>> => pc'[d] \in {"wake", "nest"}
      BY <1>1, <1>2 DEF StackInv, Labels
    <2>3. \A d \in Coro : pc'[d] = "wake" => to_wake'[d] # <<>>
      BY <1>1, <1>2 DEF StackInv, Labels
    <2>4. \A d \in Coro : runner'[d] # None => pc'[runner'[d]] = "nest" /\ pc'[d] \notin A
      <3> SUFFICES ASSUME NEW d \in Coro, d # c, runner[d] # None
                   PROVE  pc'[runner[d]] = "nest" /\ pc'[d] \notin A
        BY <1>4
      <3>1. runner[d] # runner[c] /\ runner[d] # c /\ runner[d] \in Coro
        BY DEF StackInv, Labels
      <3>2. pc'[runner[d]] = "nest"
        BY <1>1, <3>1 DEF StackInv
      <3>3. pc'[d] \notin A
        BY <1>1 DEF StackInv, Labels
      <3> QED
        BY <3>2, <3>3
    <2>5. \A d, e \in Coro : d # e /\ runner'[d] = runner'[e] => runner'[d] = None
      BY <1>4 DEF StackInv
    <2>6. /\ to_wake' \in [Coro -> Seq(Coro)] /\ after' \in [Coro -> R]
          /\ runner' \in [Coro -> Coro \union {None}]
      BY <1>1 DEF StackInv
    <2> QED
      BY <2>1, <2>2, <2>3, <2>4, <2>5, <2>6 DEF StackInv
  <1>6. ListsInv(A)'
    BY <1>1, <1>2, <1>3 DEF ListsInv, Labels
  <1> QED
    BY <1>1, <1>2, <1>3, <1>5, <1>6

(* c takes the handles q off the primitive's lists, to resume them. *)
LEMMA WakeAllInv ==
  ASSUME NEW R, NEW A, Labels(R, A), StackInv(R, A), ListsInv(A),
         NEW c \in Coro, pc[c] \in R, NEW next \in R,
         NEW q \in Seq(Coro), Distinct(q), Contents(q) \intersect Woken = {},
         \A w \in Contents(q) : pc[w] \in A,
         WakeAll(c, q, next)
  PROVE  /\ StackInv(R, A)' /\ ListsInv(A)'
         /\ Woken' = Woken \union Contents(q)
         /\ pc'[c] = IF q = <<>> THEN next ELSE "wake"
         /\ \A d \in Coro \ {c} : pc'[d] = pc[d]
         /\ UNCHANGED runner
  <1>1. /\ UNCHANGED runner /\ after' = [after EXCEPT ![c] = next]
        /\ to_wake' = [to_wake EXCEPT ![c] = q]
        /\ pc' = [pc EXCEPT ![c] = IF q = <<>> THEN next ELSE "wake"]
    BY DEF WakeAll
  <1>2. /\ \A d \in Coro : to_wake'[d] = IF d = c THEN q ELSE to_wake[d]
        /\ \A d \in Coro \ {c} : pc'[d] = pc[d]
        /\ pc'[c] = IF q = <<>> THEN next ELSE "wake"
    BY <1>1 DEF StackInv
  <1>3. to_wake[c] = <<>> /\ Contents(to_wake[c]) = {}
    BY DEF StackInv, Labels, Contents
  <1>4. \A d \in Coro : Contents(to_wake'[d])
                          = IF d = c THEN Contents(q) ELSE Contents(to_wake[d])
    BY <1>2
  <1>5. Woken' = Woken \union Contents(q)
    BY <1>3, <1>4, WokenContents
  <1>6. StackInv(R, A)'
    BY <1>1, <1>2, CoroAssumption DEF StackInv, Labels
  <1>7. ListsInv(A)'
    <2>1. \A d \in Coro : Distinct(to_wake'[d])
      BY <1>2 DEF ListsInv
    <2>2. \A d \in Coro : d # c => Contents(to_wake[d]) \intersect Contents(q) = {}
      BY WokenContents
    <2>3. \A d, e \in Coro : d # e
            => Contents(to_wake'[d]) \intersect Contents(to_wake'[e]) = {}
      BY <1>4, <2>2 DEF ListsInv
    <2>4. \A w \in Contents(q) : w \in Coro
      BY EmptyDeque
    <2>5. \A w \in Woken' : w \in Coro /\ pc'[w] \in A
      BY <1>2, <1>5, <2>4 DEF ListsInv, Labels
    <2> QED
      BY <2>1, <2>3, <2>5 DEF ListsInv
  <1> QED
    BY <1>1, <1>2, <1>5, <1>6, <1>7

(* resume() of the first handle of c's list, which goes on at l. *)
ResumeTo(c, w, l) ==
  /\ pc[c] = "wake" /\ w = Head(to_wake[c])
  /\ pc' = [pc EXCEPT ![c] = "nest", ![w] = l]
  /\ runner' = [runner EXCEPT ![w] = c]
  /\ to_wake' = [to_wake EXCEPT ![c] = Tail(@)]
  /\ UNCHANGED after

(* The stacks and the lists after that step. *)
LEMMA ResumeInv ==
  ASSUME NEW R, NEW A, Labels(R, A), StackInv(R, A), ListsInv(A),
         NEW c \in Coro, NEW w, NEW l \in R, ResumeTo(c, w, l)
  PROVE  /\ pc[c] = "wake" /\ after' = after
         /\ w \in Coro /\ w # c /\ w \in Woken /\ pc[w] \in A
         /\ StackInv(R, A)' /\ ListsInv(A)'
         /\ Woken' = Woken \ {w}
         /\ \A d \in Coro : pc'[d] = IF d = w THEN l
                                     ELSE IF d = c THEN "nest" ELSE pc[d]
  <1> USE DEF ResumeTo
  <1>1. to_wake[c] \in Seq(Coro) /\ to_wake[c] # <<>> /\ Distinct(to_wake[c])
    BY DEF StackInv, ListsInv
  <1>2. /\ w \in Coro /\ w \in Contents(to_wake[c])
        /\ Tail(to_wake[c]) \in Seq(Coro)
        /\ Distinct(Tail(to_wake[c]))
        /\ Contents(Tail(to_wake[c])) = Contents(to_wake[c]) \ {w}
    BY <1>1, PopFrontSets
  <1>3. w \in Woken /\ pc[w] \in A /\ w # c
    <2>1. w \in Woken
      BY <1>2, WokenContents
    <2> QED
      BY <2>1 DEF ListsInv, Labels
  <1>4. /\ \A d \in Coro : pc'[d] = IF d = w THEN l
                                    ELSE IF d = c THEN "nest" ELSE pc[d]
        /\ \A d \in Coro : runner'[d] = IF d = w THEN c ELSE runner[d]
        /\ \A d \in Coro : to_wake'[d] = IF d = c THEN Tail(to_wake[c]) ELSE to_wake[d]
    BY <1>2, <1>3 DEF StackInv
  <1>5. \A d \in Coro : Contents(to_wake'[d])
                = IF d = c THEN Contents(to_wake[c]) \ {w} ELSE Contents(to_wake[d])
    <2>1. to_wake'[c] = Tail(to_wake[c])
      BY <1>4
    <2>2. \A d \in Coro : d # c => to_wake'[d] = to_wake[d]
      BY <1>4
    <2>3. Contents(to_wake'[c]) = Contents(to_wake[c]) \ {w}
      BY <1>2, <2>1
    <2>4. ASSUME NEW d \in Coro, d # c PROVE Contents(to_wake'[d]) = Contents(to_wake[d])
      <3>1. to_wake'[d] = to_wake[d]
        BY <2>2, <2>4
      <3> QED
        BY <3>1
    <2> QED
      BY <2>3, <2>4
  <1>6. \A d \in Coro : d # c => w \notin Contents(to_wake[d])
    BY <1>2 DEF ListsInv
  <1>7. Woken' = Woken \ {w}
    BY <1>5, <1>6, WokenContents
  <1>8. StackInv(R, A)'
    <2>1. /\ pc' \in [Coro -> R \union A \union {"wake", "nest"}]
          /\ to_wake' \in [Coro -> Seq(Coro)]
          /\ runner' \in [Coro -> Coro \union {None}]
          /\ after' \in [Coro -> R]
      BY <1>2 DEF StackInv
    <2>2. to_wake[w] = <<>> /\ runner[w] = None
      BY <1>2, <1>3 DEF StackInv, Labels
    <2>3. \A d \in Coro : to_wake'[d] # <<>> => pc'[d] \in {"wake", "nest"}
      BY <1>3, <1>4, <2>2 DEF StackInv
    <2>4. \A d \in Coro : pc'[d] = "wake" => to_wake'[d] # <<>>
      BY <1>4 DEF StackInv, Labels
    <2>5. \A d \in Coro : runner[d] # c /\ runner[d] # w
      BY <1>3, CoroAssumption DEF StackInv, Labels
    <2>6. \A d \in Coro : runner'[d] # None => pc'[runner'[d]] = "nest" /\ pc'[d] \notin A
      <3> SUFFICES ASSUME NEW d \in Coro, runner'[d] # None
                   PROVE  pc'[runner'[d]] = "nest" /\ pc'[d] \notin A
        OBVIOUS
      <3>1. CASE d = w
        BY <1>3, <1>4, <3>1 DEF Labels
      <3>2. CASE d # w
        <4>1. runner'[d] = runner[d] /\ runner[d] \in Coro
          BY <1>4, <3>2 DEF StackInv
        <4>2. pc[runner[d]] = "nest" /\ pc[d] \notin A
          BY <4>1 DEF StackInv
        <4>3. pc'[runner[d]] = "nest"
          BY <1>4, <2>5, <4>1, <4>2
        <4>4. pc'[d] \notin A
          BY <1>4, <3>2, <4>2 DEF Labels
        <4> QED
          BY <4>1, <4>3, <4>4
      <3> QED
        BY <3>1, <3>2
    <2>7. \A d, e \in Coro : d # e /\ runner'[d] = runner'[e] => runner'[d] = None
      BY <1>4, <2>5 DEF StackInv
    <2> QED
      BY <2>1, <2>3, <2>4, <2>6, <2>7 DEF StackInv
  <1>9. ListsInv(A)'
    <2>1. \A d \in Coro : Distinct(to_wake'[d])
      BY <1>2, <1>4 DEF ListsInv
    <2>2. \A d, e \in Coro : d # e
            => Contents(to_wake'[d]) \intersect Contents(to_wake'[e]) = {}
      BY <1>5 DEF ListsInv
    <2>3. \A v \in Woken' : v \in Coro /\ pc'[v] \in A
      BY <1>4, <1>7 DEF ListsInv, Labels
    <2> QED
      BY <2>1, <2>2, <2>3 DEF ListsInv
  <1> QED
    BY <1>2, <1>3, <1>4, <1>7, <1>8, <1>9

(* c resumes w, which is suspended and in no waker's list, inline: the      *)
(* start of a task, or the resume() of one handle.                          *)
InlineTo(c, w, l, next) ==
  /\ pc' = [d \in Coro |-> IF d = c THEN "nest" ELSE IF d = w THEN l ELSE pc[d]]
  /\ runner' = [runner EXCEPT ![w] = c]
  /\ after' = [after EXCEPT ![c] = next]
  /\ UNCHANGED to_wake

(* The stacks and the lists after that step. *)
LEMMA InlineInv ==
  ASSUME NEW R, NEW A, Labels(R, A), StackInv(R, A), ListsInv(A),
         NEW c \in Coro, pc[c] \in R, NEW w \in Coro, pc[w] \in A, w \notin Woken,
         NEW l \in R, NEW next \in R, InlineTo(c, w, l, next)
  PROVE  StackInv(R, A)' /\ ListsInv(A)' /\ Woken' = Woken
  <1> USE DEF InlineTo
  <1>1. /\ \A d \in Coro : pc'[d] = IF d = c THEN "nest" ELSE IF d = w THEN l ELSE pc[d]
        /\ \A d \in Coro : runner'[d] = IF d = w THEN c ELSE runner[d]
    BY DEF StackInv
  <1>2. Woken' = Woken /\ w # c
    BY DEF Woken, Labels
  <1>3. /\ pc' \in [Coro -> R \union A \union {"wake", "nest"}]
        /\ runner' \in [Coro -> Coro \union {None}]
        /\ after' \in [Coro -> R]
    BY DEF StackInv
  <1>4. to_wake[c] = <<>> /\ to_wake[w] = <<>>
    BY DEF StackInv, Labels
  <1>5. \A d \in Coro : /\ to_wake'[d] # <<>> => pc'[d] \in {"wake", "nest"}
                        /\ pc'[d] = "wake" => to_wake'[d] # <<>>
    BY <1>1, <1>4 DEF StackInv, Labels
  <1>6. \A d \in Coro : runner[d] # c /\ runner[d] # w
    BY CoroAssumption DEF StackInv, Labels
  <1>7. ASSUME NEW d \in Coro, runner'[d] # None
        PROVE  pc'[runner'[d]] = "nest" /\ pc'[d] \notin A
    <2>1. CASE d = w
      BY <1>1, <1>2, <2>1 DEF Labels
    <2>2. CASE d # w
      <3>1. runner'[d] = runner[d] /\ runner[d] \in Coro /\ pc[runner[d]] = "nest"
            /\ pc[d] \notin A
        BY <1>1, <1>7, <2>2 DEF StackInv
      <3>2. pc'[runner[d]] = "nest"
        BY <1>1, <1>6, <3>1
      <3>3. pc'[d] \notin A
        BY <1>1, <2>2, <3>1 DEF Labels
      <3> QED
        BY <3>1, <3>2, <3>3
    <2> QED
      BY <2>1, <2>2
  <1>8. \A d, e \in Coro : d # e /\ runner'[d] = runner'[e] => runner'[d] = None
    BY <1>1, <1>6 DEF StackInv
  <1>9. StackInv(R, A)'
    BY <1>3, <1>5, <1>7, <1>8 DEF StackInv
  <1>10. ListsInv(A)'
    <2>1. \A d \in Woken : d # c /\ d # w /\ d \in Coro /\ pc[d] \in A
      BY DEF ListsInv, Labels
    <2> QED
      BY <1>1, <1>2, <2>1 DEF ListsInv
  <1> QED
    BY <1>2, <1>9, <1>10

(* A waiters list without duplicates, apart from the wakers' lists, and     *)
(* together with them all the suspended coroutines: each is in one place.   *)
LEMMA OnePlace ==
  ASSUME NEW A, ListsInv(A), to_wake \in [Coro -> Seq(Coro)],
         NEW q \in Seq(Coro), Distinct(q), Contents(q) \intersect Woken = {},
         NEW S, Contents(q) \union Woken = S
  PROVE  InOnePlace(q, S)
  <1> DEFINE Places == {<<None, i>> : i \in DOMAIN q}
                         \union UNION {{<<c, i>> : i \in DOMAIN to_wake[c]} : c \in Coro}
             Handle(p) == IF p[1] = None THEN q[p[2]] ELSE to_wake[p[1]][p[2]]
  <1>1. \A p \in Places :
          \/ p[1] = None /\ p[2] \in DOMAIN q /\ p = <<None, p[2]>>
             /\ Handle(p) \in Contents(q)
          \/ /\ p[1] \in Coro /\ p[1] # None /\ p[2] \in DOMAIN to_wake[p[1]]
             /\ p = <<p[1], p[2]>> /\ Handle(p) \in Contents(to_wake[p[1]])
    BY CoroAssumption DEF Contents
  <1>2. \A c \in Coro : Contents(to_wake[c]) \subseteq Woken
    BY WokenContents
  <1>3. ASSUME NEW p \in Places, NEW r \in Places, p # r, Handle(p) = Handle(r)
        PROVE  FALSE
    <2>1. CASE p[1] = None /\ r[1] = None
      BY <1>1, <1>3, <2>1 DEF Distinct
    <2>2. CASE p[1] = None /\ r[1] # None
      BY <1>1, <1>2, <1>3, <2>2
    <2>3. CASE p[1] # None /\ r[1] = None
      BY <1>1, <1>2, <1>3, <2>3
    <2>4. CASE p[1] # None /\ r[1] # None /\ p[1] # r[1]
      BY <1>1, <1>3, <2>4 DEF ListsInv
    <2>5. CASE p[1] # None /\ r[1] = p[1]
      <3>1. p[1] \in Coro /\ p[2] \in DOMAIN to_wake[p[1]] /\ r[2] \in DOMAIN to_wake[p[1]]
        BY <1>1, <2>5
      <3>2. p[2] # r[2]
        BY <1>1, <1>3, <2>5
      <3>3. to_wake[p[1]][p[2]] = to_wake[p[1]][r[2]]
        BY <1>3, <2>5
      <3> QED
        BY <3>1, <3>2, <3>3 DEF ListsInv, Distinct
    <2> QED
      BY <2>1, <2>2, <2>3, <2>4, <2>5
  <1>4. {Handle(p) : p \in Places} = S
    <2>1. \A p \in Places : Handle(p) \in S
      BY <1>1, <1>2
    <2>2. ASSUME NEW x \in Contents(q) PROVE \E p \in Places : Handle(p) = x
      <3>1. PICK i \in DOMAIN q : q[i] = x
        BY DEF Contents
      <3>2. <<None, i>> \in Places /\ Handle(<<None, i>>) = x
        BY <3>1
      <3> QED
        BY <3>2
    <2>3. ASSUME NEW x \in Woken PROVE \E p \in Places : Handle(p) = x
      <3>1. PICK c \in Coro : x \in Contents(to_wake[c])
        BY WokenContents
      <3>2. PICK i \in DOMAIN to_wake[c] : to_wake[c][i] = x
        BY <3>1 DEF Contents
      <3>3. <<c, i>> \in Places /\ Handle(<<c, i>>) = x
        BY <3>2, CoroAssumption
      <3> QED
        BY <3>3
    <2> HIDE DEF Places, Handle
    <2>4. \A x \in S : \E p \in Places : Handle(p) = x
      BY <2>2, <2>3
    <2> QED
      BY <2>1, <2>4
  <1> QED
    BY <1>3, <1>4 DEF InOnePlace

(* A deque without duplicates has as many handles as places. *)
LEMMA DistinctCardinality ==
  ASSUME NEW S, NEW q \in Seq(S), Distinct(q)
  PROVE  IsFiniteSet(Contents(q)) /\ Cardinality(Contents(q)) = Len(q)
  <1>1. Len(q) \in Nat /\ DOMAIN q = 1 .. Len(q)
    OBVIOUS
  <1>2. q \in Bijection(1 .. Len(q), Contents(q))
    BY <1>1 DEF Bijection, Injection, Surjection, IsInjective, Contents, Distinct
  <1>3. ExistsBijection(1 .. Len(q), Contents(q))
    BY <1>2 DEF ExistsBijection
  <1>4. IsFiniteSet(1 .. Len(q)) /\ Cardinality(1 .. Len(q)) = Len(q)
    BY <1>1, FS_Interval
  <1> QED
    BY <1>3, <1>4, FS_Bijection

=============================================================================
