------------------------------ MODULE FramePool ------------------------------
(***************************************************************************)
(* FramePool and PooledPromise (core/frame_pool.hpp): the memory of the    *)
(* coroutine frames.  Every thread has a pool of its own; a frame may be   *)
(* allocated from the pool of one thread and given back to another's.      *)
(***************************************************************************)
EXTENDS Integers, Sequences, FiniteSets

CONSTANTS
  Thread,
  Frame,         (* the coroutines                                          *)
  FrameSize,     (* the bytes that the frame of each needs                  *)
  Block,         (* blocks of the heap                                      *)
  NoBlock,
  kMaxPooledPerBucket

ASSUME PoolAssumption ==
  /\ FrameSize \in [Frame -> Nat \ {0}]
  /\ NoBlock \notin Block /\ kMaxPooledPerBucket \in Nat
  /\ IsFiniteSet(Frame) /\ IsFiniteSet(Block)
  /\ Cardinality(Block) >= Cardinality(Frame)      (* the heap suffices *)

VARIABLES
  buckets_,      (* the free lists of each thread's pool                    *)
  capacity,      (* the heap: the size of each block, 0 when it is not      *)
                 (* allocated                                               *)
  memory         (* the block each frame lives in                           *)

poolVars == <<buckets_, capacity, memory>>

GetBucketSize == <<64, 128, 256, 512, 1024, 2048>>

Bucket == DOMAIN GetBucketSize
Oversized == 0

GetBucket(size) ==
  IF size > 2048 THEN Oversized
  ELSE CHOOSE b \in Bucket : /\ size <= GetBucketSize[b]
                             /\ \A c \in 1 .. (b - 1) : size > GetBucketSize[c]

PoolInit ==
  /\ buckets_ = [t \in Thread |-> [b \in Bucket |-> <<>>]]
  /\ capacity = [m \in Block |-> 0]
  /\ memory = [f \in Frame |-> NoBlock]

(* ::operator new; nothing depends on which block it finds. *)
OperatorNew(f, size) ==
  LET m == CHOOSE m \in Block : capacity[m] = 0 IN
  /\ capacity' = [capacity EXCEPT ![m] = size]
  /\ memory' = [memory EXCEPT ![f] = m]

(* ::operator delete *)
OperatorDelete(f) ==
  /\ capacity' = [capacity EXCEPT ![memory[f]] = 0]
  /\ memory' = [memory EXCEPT ![f] = NoBlock]

(* The frame of f is allocated on thread t. *)
DoAllocate(t, f) ==
  LET b == GetBucket(FrameSize[f])
      pool == buckets_[t][b]
  IN \/ b = Oversized /\ OperatorNew(f, FrameSize[f]) /\ UNCHANGED buckets_
     \/ /\ b # Oversized /\ pool # <<>>
        /\ memory' = [memory EXCEPT ![f] = pool[Len(pool)]]
        /\ buckets_' = [buckets_ EXCEPT ![t][b] = SubSeq(pool, 1, Len(pool) - 1)]
        /\ UNCHANGED capacity
     \/ /\ b # Oversized /\ pool = <<>>
        /\ OperatorNew(f, GetBucketSize[b]) /\ UNCHANGED buckets_

(* The frame of f is destroyed on thread t. *)
DoDeallocate(t, f) ==
  LET b == GetBucket(FrameSize[f])
      pool == buckets_[t][b]
  IN \/ b = Oversized /\ OperatorDelete(f) /\ UNCHANGED buckets_
     \/ /\ b # Oversized /\ Len(pool) < kMaxPooledPerBucket
        /\ buckets_' = [buckets_ EXCEPT ![t][b] = Append(pool, memory[f])]
        /\ memory' = [memory EXCEPT ![f] = NoBlock]
        /\ UNCHANGED capacity
     \/ /\ b # Oversized /\ Len(pool) >= kMaxPooledPerBucket
        /\ OperatorDelete(f) /\ UNCHANGED buckets_

Pooled(t) ==
  {buckets_[t][p[1]][p[2]] : p \in UNION {{b} \X DOMAIN buckets_[t][b] : b \in Bucket}}

(* Clear(), and the end of a thread *)
DoClear(t) ==
  /\ Pooled(t) # {}
  /\ capacity' = [m \in Block |-> IF m \in Pooled(t) THEN 0 ELSE capacity[m]]
  /\ buckets_' = [buckets_ EXCEPT ![t] = [b \in Bucket |-> <<>>]]
  /\ UNCHANGED memory

-----------------------------------------------------------------------------
(* Each allocated block is in one place, a frame or a place of a free list, *)
(* and there it is large enough; nothing else is anywhere.                  *)
BlocksConserved ==
  LET Slots == {s \in Thread \X Bucket \X (1 .. kMaxPooledPerBucket) :
                  s[3] \in DOMAIN buckets_[s[1]][s[2]]}
      InFrame == {f \in Frame : memory[f] # NoBlock}
      Block_(s) == buckets_[s[1]][s[2]][s[3]]
  IN /\ {m \in Block : capacity[m] > 0}
          = {memory[f] : f \in InFrame} \union {Block_(s) : s \in Slots}
     /\ Cardinality({m \in Block : capacity[m] > 0})
          = Cardinality(InFrame) + Cardinality(Slots)
     /\ \A f \in InFrame : capacity[memory[f]] >= FrameSize[f]
     /\ \A s \in Slots : capacity[Block_(s)] = GetBucketSize[s[2]]
     /\ \A t \in Thread, b \in Bucket : Len(buckets_[t][b]) <= kMaxPooledPerBucket

=============================================================================
