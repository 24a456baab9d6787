------------------------------- MODULE MemPool -------------------------------
(***************************************************************************)
(* Memory pools (mempool.c): a list of free blocks, the number of free     *)
(* blocks, the threads that wait for one and the number of these threads.  *)
(***************************************************************************)
EXTENDS Waits

CONSTANTS
  mpList,     \* mp->suspend_thread
  Block,      \* the blocks of the pool
  BlockList,  \* the free list that rt_mp_init builds: all blocks in order
  MpTimes     \* the time arguments of rt_mp_alloc

ASSUME MemPoolAssumption ==
  /\ mpList \in WaitList
  /\ IsFiniteSet(Block)
  /\ BlockList \in Seq(Block)
  /\ Len(BlockList) = Cardinality(Block) /\ Distinct(BlockList)
  /\ MpTimes \subseteq Int

VARIABLES
  mp,         \* the pool
  mpAlive     \* no thread has begun to detach or delete the pool

mpVars == <<mp, mpAlive>>

MpType ==
  /\ mp \in [block_list : Seq(Block), block_free_count : Nat, suspend_thread_count : Int]
  /\ mpAlive \in BOOLEAN

MpPC == {"mp_sched", "mp_wait", "mp_again", "mp_free_sched", "mp_detach", "mp_detach_body"}

MpInit ==
  /\ mp = [block_list |-> BlockList, block_free_count |-> Cardinality(Block),
           suspend_thread_count |-> 0]
  /\ mpAlive = TRUE

MpFirst == mp.block_list[1]

-----------------------------------------------------------------------------
(* rt_mp_alloc *)

(* mutant: the block stays on the free list *)
MpTakeLinked == mp' = [mp EXCEPT !.block_free_count = @ - 1]

MpTake == mp' = [mp EXCEPT !.block_free_count = @ - 1, !.block_list = Tail(@)]

(* rt_thread_suspend, then rt_list_insert_after: the last to wait is first *)
MpSuspended(t) ==
  LET off == rt_thread_suspend([k EXCEPT !.error[t] = "EOK"], t)
  IN  [off EXCEPT !.susp[mpList] = LinkAt(off.susp[mpList], 1, t)]

MpAllocRound(t, time) ==
  \/ /\ mp.block_free_count # 0
     /\ MpTake
     /\ Return(t)
     /\ UNCHANGED <<k, irqoff, fault>>
  \/ /\ mp.block_free_count = 0 /\ time # 0
     /\ WaitFrom(t, MpSuspended(t), time, "mp_sched")
     /\ mp' = [mp EXCEPT !.suspend_thread_count = @ + 1]
  \/ /\ mp.block_free_count = 0 /\ time = 0
     /\ Return(t)
     /\ UNCHANGED <<k, irqoff, fault, mp>>

MpAllocBegin(t, time) ==
  /\ Runs(t, "app") /\ mpAlive
  /\ mp.block_free_count = 0 => time # 0   \* RT_NULL: nothing changes
  /\ MpAllocRound(t, time)
  /\ UNCHANGED mpAlive

MpSchedule(t) ==
  /\ \/ Schedule(t, "mp_sched", "mp_wait")
     \/ Schedule(t, "mp_free_sched", "app")
  /\ UNCHANGED <<rest, mp, mpAlive>>

MpAllocFail(t) == ReturnError(t, "mp_wait") /\ UNCHANGED mpVars

(* time -= rt_tick_get() - before_sleep, with interrupts enabled *)
MpAllocRest(t) ==
  /\ Runs(t, "mp_wait") /\ k.error[t] = "EOK"
  /\ Goto(t, "mp_again")
  /\ UNCHANGED <<k, irqoff, fault, rest, mp, mpAlive>>

MpAllocAgain(t) ==
  /\ Runs(t, "mp_again")
  /\ MpAllocRound(t, rest[t])
  /\ UNCHANGED mpAlive

IsrMpAlloc ==
  /\ Interruptible /\ mpAlive
  /\ mp.block_free_count # 0
  /\ MpTake
  /\ UNCHANGED <<k, pc, irqoff, fault, rest, mpAlive>>

-----------------------------------------------------------------------------
(* rt_mp_free.  The count says that a thread waits; when the list is empty    *)
(* nevertheless its head is taken for a thread.                               *)

MpGive(b) ==
  mp' = [mp EXCEPT !.block_free_count = @ + 1, !.block_list = <<b>> \o @,
                   !.suspend_thread_count = IF @ > 0 THEN @ - 1 ELSE @]

MpResume ==
  LET t == k.susp[mpList][1] IN rt_thread_resume([k EXCEPT !.error[t] = "EOK"], t)

MpFree(t, b) ==
  /\ Runs(t, "app") /\ mpAlive
  /\ MpGive(b)
  /\ IF mp.suspend_thread_count = 0 THEN UNCHANGED <<k, pc, fault>>
     ELSE /\ Goto(t, "mp_free_sched")
          /\ IF k.susp[mpList] # <<>> THEN k' = MpResume /\ UNCHANGED fault
                                      ELSE fault' = TRUE /\ UNCHANGED k
  /\ UNCHANGED <<irqoff, rest, mpAlive>>

IsrMpFree(b) ==
  /\ Interruptible /\ mpAlive
  /\ MpGive(b)
  /\ IF mp.suspend_thread_count = 0 THEN UNCHANGED <<k, fault>>
     ELSE IF k.susp[mpList] # <<>> THEN k' = rt_schedule(MpResume) /\ UNCHANGED fault
                                   ELSE fault' = TRUE /\ UNCHANGED k
  /\ UNCHANGED <<pc, irqoff, rest, mpAlive>>

-----------------------------------------------------------------------------
(* rt_mp_detach, rt_mp_delete *)
MpDetachBegin(t) ==
  /\ Runs(t, "app") /\ mpAlive
  /\ mpAlive' = FALSE
  /\ Goto(t, "mp_detach")
  /\ UNCHANGED <<k, irqoff, fault, rest, mp>>

MpDetach(t) ==
  /\ \/ /\ ResumeAllTest(t, mpList, "mp_detach", "mp_detach_body", "app")
        /\ UNCHANGED mp
     \/ /\ ResumeAllBody(t, mpList, "mp_detach", "mp_detach_body")
        /\ mp' = [mp EXCEPT !.suspend_thread_count = @ - 1]
  /\ UNCHANGED <<rest, mpAlive>>
=============================================================================
