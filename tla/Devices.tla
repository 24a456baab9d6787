------------------------------- MODULE Devices -------------------------------
(***************************************************************************)
(* The objects of the device layer, on the kernel of module Ipc and beside *)
(* its objects: a completion, a data queue, the serial framework that      *)
(* builds on both, a pipe with its ring buffer, a work queue, the soft     *)
(* timers, the system heap and a memory heap object.                       *)
(*                                                                         *)
(* These objects are written for one thread on each side.  The producer    *)
(* has the higher priority, the consumer the lower one; an application     *)
(* that uses "swap" has it the other way round, and with "two" both        *)
(* threads are on both sides.                                              *)
(***************************************************************************)
EXTENDS Ipc, Serial, Pipe, WorkQueue, SoftTimer, Heap, MemHeap

CONSTANTS
  front, back,   \* the two threads, in the order of their priority
  PopTimes       \* the timeouts of rt_data_queue_pop and rt_completion_wait

(* uart, dma: the two ways of a serial device to transmit; chars: the ring    *)
(* buffer by itself; force: forced writes to the pipe, with room for the      *)
(* data; realloc: rt_realloc, not only rt_malloc and rt_free; poll: a push    *)
(* that does not wait; late: see TransferLasts                                *)
DevUses == {"completion", "data", "uart", "dma", "pipe", "force", "chars", "work",
            "soft", "heap", "memheap", "realloc", "poll", "late", "swap", "two", "isr_read",
            "isr_write"}

ASSUME DevicesAssumption ==
  /\ Applications \subseteq SUBSET (Uses \cup DevUses)
  /\ InitPriority[front] < InitPriority[back]
  /\ worker = front /\ timer_thread = front

softVars == <<soft, sfLoop, sfArg>>
mhVars == <<mh, mhCall, mhOwned>>
heapVars == <<heap, moved, owned, mhVars>>
devVars == <<cpFlag, dq, dqArg, rx, length, data, uart, dma, activated, pi, piArg,
             work_list, softVars, heapVars>>
allVars == <<vars, devVars>>

DevPC == PC \cup CpPC \cup DqPC \cup SerialPC \cup PiPC \cup WqPC \cup SoftPC

DevInit == Init /\ CpInit /\ DqInit /\ SerialInit /\ PiInit /\ WqInit /\ SoftInit
           /\ HeapInit /\ MhInit

Producer(t) == "two" \in use \/ t = IF "swap" \in use THEN back ELSE front
Consumer(t) == "two" \in use \/ t = IF "swap" \in use THEN front ELSE back

(* The items in the data queue, in order *)
DqContents ==
  [i \in 1 .. dq.put_index - dq.get_index |-> dq.queue[(dq.get_index + i - 1) % DQ_SIZE]]

(* Bound: with two threads on each side all items are the same, and a write  *)
(* to the pipe is one byte.                                                  *)
Pushed  == IF "two" \in use THEN {CHOOSE d \in Item : TRUE} ELSE Item
Written == IF "two" \in use THEN {<<CHOOSE b \in Byte : TRUE>>} ELSE Writes

(* An application does not write the same buffer again before it was sent. *)
InFlight == {DqContents[i] : i \in 1 .. Len(DqContents)}

(* A transfer takes longer than a writer needs from its push to its test of  *)
(* activated, unless other threads keep it from running ("late").            *)
TransferLasts ==
  "late" \in use \/ \A t \in Thread : pc[t] = "tx_dma" => dma # data[t]

(* The point a call of rt_data_queue_push returns to *)
PushBack == IF "dma" \in use THEN "tx_dma" ELSE "app"
(* ... and one of rt_completion_wait *)
WaitBack == IF "uart" \in use THEN "tx" ELSE "app"

-----------------------------------------------------------------------------
(* A step of one device leaves the others, and the objects of Ipc, alone. *)
serialVars == <<rx, length, data, uart, dma, activated>>
ipcVars == <<mb, mail, mbAlive, mp, mpAlive, mq, mqJob, mqAlive, evSet, evInfo, evAlive,
             use, own>>

OnlyCompletion ==
  UNCHANGED <<ipcVars, dq, dqArg, serialVars, pi, piArg, work_list, softVars, heapVars>>
OnlyData ==
  UNCHANGED <<ipcVars, cpFlag, serialVars, pi, piArg, work_list, softVars, heapVars>>
OnlySerial ==
  UNCHANGED <<ipcVars, pi, piArg, work_list, softVars, heapVars>>
OnlyPipe ==
  UNCHANGED <<ipcVars, cpFlag, dq, dqArg, serialVars, work_list, softVars, heapVars>>
OnlyWork ==
  UNCHANGED <<ipcVars, cpFlag, dq, dqArg, serialVars, pi, piArg, softVars, heapVars>>
OnlySoft ==
  UNCHANGED <<ipcVars, cpFlag, dq, dqArg, serialVars, pi, piArg, work_list, heapVars>>
OnlyHeaps ==
  UNCHANGED <<ipcVars, k, pc, irqoff, fault, rest, cpFlag, dq, dqArg, serialVars, pi, piArg,
              work_list, softVars>>

CompletionCall(t) ==
  /\ "completion" \in use
  /\ \/ Consumer(t) /\ \E time \in PopTimes : CpWait(t, "app", time, "app")
     \/ Producer(t) /\ CpDoneTest(t)
  /\ OnlyCompletion

DataCall(t) ==
  /\ "data" \in use
  /\ \/ Producer(t) /\ \E d \in Pushed : DqPushBegin(t, d, -1, "app")
     \/ Producer(t) /\ "poll" \in use /\ DqPushRefuse(t)
     \/ Consumer(t) /\ \E timeout \in PopTimes : DqPopBegin(t, timeout)
     \/ Consumer(t) /\ "reset" \in use /\ DqResetBegin(t)
  /\ OnlyData

SerialCall(t) ==
  /\ {"uart", "dma"} \cap use # {}
  /\ \/ /\ Producer(t) /\ "uart" \in use
        /\ \E n \in 1 .. MaxWrite : IntTxBegin(t, n)
        /\ UNCHANGED <<cpFlag, dq, dqArg>>
     \/ /\ Producer(t) /\ "dma" \in use
        /\ \E d \in Item \ InFlight : DmaTxBegin(t, d)
        /\ UNCHANGED cpFlag
     \/ Consumer(t) /\ IntRx(t) /\ UNCHANGED <<cpFlag, dq, dqArg>>
  /\ OnlySerial

PipeCall(t) ==
  /\ \/ /\ Producer(t) /\ "pipe" \in use /\ {"isr_write", "force"} \cap use = {}
        /\ \E s \in Written : PiWriteSome(t, "app", s) \/ PiWriteWait(t, "app", s)
     \/ /\ Consumer(t) /\ "pipe" \in use /\ "isr_read" \notin use
        /\ \E n \in Sizes : PiReadSome(t, "app", n) \/ PiReadWait(t, "app", n)
     \/ /\ Producer(t) /\ "force" \in use
        /\ \E s \in Writes, b \in Byte :
             /\ Len(s) <= PiRoom
             /\ PiWriteForce(t, s, [i \in 1 .. RB_SIZE |-> b])
     \/ Consumer(t) /\ "chars" \in use /\ GetChar(t)
  /\ OnlyPipe

WorkCall(t) ==
  /\ "work" \in use
  /\ \E w \in Work : WqDowork(t, w) \/ WqCancel(t, w)
  /\ OnlyWork

SoftCall(t) == "soft" \in use /\ SfCall(t) /\ OnlySoft

HeapCall ==
  /\ "heap" \in use
  /\ \/ \E size \in HpSizes : HpMalloc(size)
     \/ \E a \in DOMAIN owned : HpFree(a)
     \/ /\ "realloc" \in use
        /\ \E a \in DOMAIN owned :
             \/ \E size \in HpSizes \cup {0} : HpReallocShrink(a, size)
             \/ \E size \in HpSizes : HpReallocMove(a, size)
             \/ HpReallocFree(a)
  /\ OnlyHeaps /\ UNCHANGED mhVars

MemHeapCall ==
  /\ "memheap" \in use
  /\ \E c \in MhCaller :
       \/ \E size \in MhSizes : MhAlloc(c, size)
       \/ MhAllocLocked(c) \/ MhReallocTest(c) \/ MhReallocFree(c)
       \/ \E a \in DOMAIN mhOwned :
            \/ MhFree(c, a)
            \/ \E size \in MhSizes : MhReallocGrow(c, a, size) \/ MhReallocShrink(c, a, size)
  /\ OnlyHeaps /\ UNCHANGED <<heap, moved, owned>>

DevCall(t) ==
  \/ CompletionCall(t) \/ DataCall(t) \/ SerialCall(t) \/ PipeCall(t) \/ WorkCall(t)
  \/ SoftCall(t)

-----------------------------------------------------------------------------
CompletionContinue(t) ==
  /\ \/ CpWaitEnd(t, WaitBack) \/ CpDone(t) \/ CpSchedule(t)
     \/ CpWait(t, "tx_busy", -1, WaitBack)
  /\ OnlyCompletion

DataContinue(t) ==
  /\ \/ DqPushAgain(t, PushBack) \/ DqPopAgain(t) \/ DqFail(t) \/ DqSchedule(t, PushBack)
     \/ DqResetResume(t) \/ DqResetExit(t)
  /\ OnlyData

SerialContinue(t) ==
  /\ IntTxPutc(t) \/ DmaTxTest(t) \/ DmaTxStart(t)
  /\ UNCHANGED <<cpFlag, dq, dqArg>>
  /\ OnlySerial

PipeContinue(t) == (PiReadAgain(t) \/ PiWriteAgain(t) \/ PiSchedule(t)) /\ OnlyPipe

(* The work thread is always in its loop. *)
WorkContinue(t) ==
  /\ \/ "work" \in use /\ t = worker /\ (WqTest \/ WqSuspend \/ WqTake)
     \/ WqResume(t) \/ WqSchedule(t)
  /\ OnlyWork

(* So is the timer thread. *)
SoftContinue(t) ==
  /\ SfContinue(t) \/ ("soft" \in use /\ t = timer_thread /\ SfServe)
  /\ OnlySoft

DevContinue(t) ==
  /\ k.current = t
  /\ \/ Continue(t) /\ UNCHANGED devVars
     \/ CompletionContinue(t) \/ DataContinue(t) \/ SerialContinue(t) \/ PipeContinue(t)
     \/ WorkContinue(t) \/ SoftContinue(t)

(* The handlers of the serial device: the UART has sent a character, the DMA  *)
(* controller has finished a transfer                                         *)
TxDone    == IsrTxDone /\ UNCHANGED <<dq, dqArg>> /\ OnlySerial
TxDmaDone == TransferLasts /\ IsrTxDmaDone /\ UNCHANGED cpFlag /\ OnlySerial

DevIsr ==
  \/ "completion" \in use /\ "isr" \in use /\ IsrCpDone /\ OnlyCompletion
  \/ "data" \in use /\ "isr" \in use /\ IsrDqPop /\ OnlyData
  \/ "uart" \in use /\ "isr" \in use /\ OnlySerial /\ UNCHANGED <<cpFlag, dq, dqArg>>
       /\ \E ch \in Char : IsrRx(ch)
  \/ TxDone
  \/ TxDmaDone
  \/ "isr_read" \in use /\ (\E n \in Sizes : IsrPiRead(n)) /\ OnlyPipe
  \/ "isr_write" \in use /\ (\E s \in Written : IsrPiWrite(s)) /\ OnlyPipe
  \/ "chars" \in use /\ (\E ch \in Byte : IsrPutChar(ch)) /\ OnlyPipe

(* Bound: the clock stands still for an application that uses only a heap,   *)
(* whose calls neither know the time nor the state of a thread.              *)
ClockRuns == {"heap", "memheap"} \cap use = {}

DevTick ==
  \/ /\ ClockRuns /\ WaitTick /\ OnlySoft
     /\ IF "soft" \in use THEN SfAge ELSE UNCHANGED softVars
  \/ (WaitTickLeave \/ \E t \in Thread : WaitTimeout(t)) /\ OnlySoft /\ UNCHANGED softVars

DevCrashed == fault /\ UNCHANGED allVars

DevNext ==
  \/ \E t \in Thread : (Call(t) /\ UNCHANGED devVars) \/ DevCall(t) \/ DevContinue(t)
  \/ Isr /\ UNCHANGED devVars
  \/ HeapCall \/ MemHeapCall \/ DevIsr \/ DevTick \/ DevCrashed

(* As for the semaphore: a tick stays pending while interrupts are off, and  *)
(* between two ticks the processor executes at least one section.  The UART  *)
(* and the DMA controller finish what they have begun: their interrupts stay *)
(* pending until they are taken.                                             *)
DevFairness ==
  /\ SF_allVars(DevTick)
  /\ \A t \in Thread \ {idle} : SF_allVars(DevContinue(t))
  /\ SF_allVars(TxDone \/ TxDmaDone)

DevSpec == DevInit /\ [][DevNext]_allVars
DevFairSpec == DevSpec /\ DevFairness

-----------------------------------------------------------------------------
(* Properties *)

DevTypeOK ==
  /\ k \in KernelState
  /\ pc \in [Thread -> DevPC]
  /\ irqoff \in BOOLEAN /\ fault \in BOOLEAN
  /\ rest \in [Thread -> Int]
  /\ cpFlag \in BOOLEAN /\ DqType /\ SerialType /\ PiType
  /\ work_list \in Seq(Work) /\ SoftType
  /\ HeapType /\ MhType

(* No list head is taken for a thread or a work, and no call returns with    *)
(* interrupts disabled: rt_data_queue_pop finds a pusher on its list when    *)
(* waiting_lwm is set, the work thread finds work when it has been resumed.  *)
(* Not so once a data queue was reset or refused a push that did not wait,   *)
(* which leave waiting_lwm set.                                              *)
DevNoFault == {"reset", "poll"} \cap use = {} => ~ fault


(* rt_completion_wait and rt_completion_done: no thread waits for what is    *)
(* done, and a thread that waits for the UART waits for a character that is  *)
(* being sent, although it was found busy in an earlier section.             *)
CpNoLostWakeup ==
  /\ cpFlag => k.susp[cpList] = <<>>
  /\ "uart" \in use /\ k.susp[cpList] # <<>> => uart

(* The data queue is a bounded first-in first-out queue. *)
ItemQueue == INSTANCE BoundedQueue
               WITH queue <- DqContents, Value <- Item, Limit <- DQ_SIZE, Urgent <- {}
DataQueueIsQueue == ItemQueue!Init /\ [][ItemQueue!Next]_DqContents

(* While a thread waits to pop, a woken one is about to take each item; a    *)
(* thread that waits to push has set waiting_lwm, and the queue holds more   *)
(* than the low water mark, so that a later pop resumes it.  Of two waiting  *)
(* pushers only one is resumed.                                              *)
DqNoLostWakeup ==
  "two" \notin use =>
    /\ k.susp[dqPop] # <<>> =>
         Len(DqContents) <= Cardinality(Woken({"dq_pop_sched", "dq_pop_wait"}))
    /\ k.susp[dqPush] # <<>> => dq.waiting_lwm /\ Len(DqContents) > LWM

(* tx_complete is called for data that were written to the hardware: when a  *)
(* transfer ends, the DMADONE event removes and reports the oldest data in   *)
(* the queue, and these are the data of the transfer.                        *)
TxCompleteIsWritten ==
  dma # NoItem => DqContents # <<>> /\ DqContents[1] = dma


(* The characters received and not read, the oldest first *)
RxContents ==
  [i \in 1 .. (rx.put_index - rx.get_index) % BUFSZ |->
     rx.buffer[(rx.get_index + i - 1) % BUFSZ]]

(* The receive ring of a serial device keeps the latest characters, in       *)
(* order: a full one loses its oldest character, never a new one and never   *)
(* all of them.                                                              *)
RxStream == INSTANCE ByteStream
              WITH stream <- RxContents, Byte <- Char, Writes <- {}, Reads <- {1},
                   Capacity <- BUFSZ - 1
SerialRxKeepsLatest == RxStream!Init /\ [][RxStream!Next]_RxContents

(* The bytes in the pipe, and what the ring buffer promises of them *)
PiContents == got(pi, RB_SIZE)

PiStream == INSTANCE ByteStream
              WITH stream <- PiContents, Reads <- Sizes, Capacity <- RB_SIZE
RingIsStream == PiStream!Init /\ [][PiStream!Next]_PiContents

(* Both rings are streams of bounded length, across their ends: none loses,  *)
(* doubles or reorders bytes but as stated.                                  *)
RingsAreStreams == SerialRxKeepsLatest /\ RingIsStream

(* A reader of the pipe waits only while it is empty, a writer only while it *)
(* is full (rt_pipe_read, rt_pipe_write).  Of two that wait only one is      *)
(* resumed, and it need not leave the pipe empty or full.                    *)
PiNoLostWakeup ==
  "two" \notin use =>
    /\ k.susp[piRead] # <<>> => PiData = 0
    /\ k.susp[piWrite] # <<>> => PiRoom = 0

(* The thread no other can keep from running *)
Foremost ==
  CHOOSE t \in Thread : \A u \in Thread \ {t} : InitPriority[t] < InitPriority[u]

(* Calls that wait in rounds end, those of the device layer and those of the *)
(* objects of Ipc, whatever the others and the handlers do with the object:  *)
(* the rounds of a call with a time limit share the limit, and a write to    *)
(* the UART is woken once for every character it finds the UART busy with.   *)
CallsEnd ==
  (rest[Foremost] > 0 \/ length[Foremost] > 0) ~> (pc[Foremost] = "app" \/ fault)


(* The timer thread suspends itself for no time only while there is no soft  *)
(* timer, or a thread that has inserted one is about to resume it.           *)
SoftNoLostWakeup ==
  "soft" \in use /\ k.stat[timer_thread] = "SUSPEND" /\ k.timer[timer_thread] = Off =>
    soft.list = <<>> \/ \E t \in Thread : pc[t] \in {"sf_started", "sf_resume"}


Slowest == CHOOSE x \in SoftTimers : \A y \in SoftTimers : SoftTick[y] <= SoftTick[x]
HandedOver == work_list # <<>> \/ On(soft.list, Slowest)


-----------------------------------------------------------------------------
(* The headers divide the heap without gap or overlap, next and prev agree   *)
(* and no free block is followed by another (rt_malloc, rt_free, rt_realloc, *)
(* plug_holes).  Every free block has room for MIN_SIZE, unless rt_realloc   *)
(* has shrunk a block to less.                                               *)
HeapWellFormed ==
  \A a \in DOMAIN heap.mem \ {heap_end} :
    LET n == heap.mem[a].next
    IN  /\ n \in DOMAIN heap.mem /\ a < n
        /\ \A b \in DOMAIN heap.mem : b <= a \/ n <= b
        /\ n # heap_end => heap.mem[n].prev = a
        /\ ~ heap.mem[a].used => heap.mem[n].used
        /\ "realloc" \notin use => room(heap, a) >= MIN_SIZE

(* The used blocks are those of the callers, each with room for what was     *)
(* asked for, and used_mem is what they take, also while rt_realloc has both *)
(* the old and the new block.                                                *)
HeapAccounted ==
  /\ {a \in DOMAIN heap.mem : heap.mem[a].used} = DOMAIN owned \cup {heap_end}
  /\ \A a \in DOMAIN owned : room(heap, a) >= owned[a]
  /\ heap.used_mem = MapThenSumSet(LAMBDA a : heap.mem[a].next - a, DOMAIN owned)

(* lfree is the lowest free block, so that no memory is kept from rt_malloc. *)
(* Not so after rt_realloc, which makes free blocks and does not lower it;   *)
(* lfree is then still a free block.                                         *)
HeapLowestFree ==
  /\ heap.lfree # heap_end => ~ heap.mem[heap.lfree].used
  /\ "realloc" \notin use => heap.lfree = next_free(heap, 0)

(* The blocks of a memory heap object form a ring without gap or overlap, no *)
(* free one is followed by another, and the free list holds exactly the free *)
(* ones, although it is changed in five places.  Each caller's block has     *)
(* room for what was asked for, a block that is being replaced included.     *)
MhWellFormed ==
  /\ \A a \in DOMAIN mh.mem :
       LET n == mh.mem[a].next
       IN  /\ n \in DOMAIN mh.mem /\ mh.mem[n].prev = a
           /\ ~ mh.mem[a].used => mh.mem[n].used
           /\ IF a = tailer THEN n = 0
              ELSE /\ MEMITEM_SIZE(mh, a) >= MINIALLOC
                   /\ \A b \in DOMAIN mh.mem : b <= a \/ n <= b
  /\ IsInjective(mh.free_list)
  /\ ToSet(mh.free_list) = {a \in DOMAIN mh.mem : ~ mh.mem[a].used}
  /\ ToSet(mh.free_list) \cup DOMAIN mhOwned = DOMAIN mh.mem \ {tailer}
  /\ \A a \in DOMAIN mhOwned : mh.mem[a].used /\ MEMITEM_SIZE(mh, a) >= mhOwned[a]

(* available_size, which rt_memheap_alloc reads without the lock, is the room *)
(* in the free blocks, through splits and merges; max_used_size never lags.  *)
MhAccounted ==
  /\ mh.available_size =
       MapThenSumSet(LAMBDA a : MEMITEM_SIZE(mh, a), ToSet(mh.free_list))
  /\ mh.max_used_size >= POOL_SIZE - mh.available_size

(* Both heaps are consistent after every sequence of calls. *)
HeapConsistent ==
  HeapWellFormed /\ HeapAccounted /\ HeapLowestFree /\ MhWellFormed /\ MhAccounted
=============================================================================
