------------------------------- MODULE Serial -------------------------------
(***************************************************************************)
(* The serial device framework (serial.c) on a UART: received characters   *)
(* go to a ring that the interrupt handler fills; a write either hands     *)
(* characters to the UART one by one and waits on a completion when it is  *)
(* busy, or queues whole buffers for DMA transfers in a data queue.        *)
(***************************************************************************)
EXTENDS Completion, DataQueue

CONSTANTS
  Char,       \* the characters received
  BUFSZ,      \* serial->config.bufsz
  MaxWrite    \* bound: how many characters a write hands to the UART

ASSUME SerialAssumption == BUFSZ \in Nat \ {0, 1} /\ MaxWrite \in Nat \ {0}

VARIABLES
  rx,         \* the ring of struct rt_serial_rx_fifo
  length,     \* per thread: characters left of the write in progress
  uart,       \* the UART is sending a character: putc returns -1
  data,       \* per thread: the data of its write by DMA
  dma,        \* the data of the DMA transfer in progress, or NoItem
  activated   \* tx_dma->activated

SerialType ==
  /\ rx \in [buffer : [0 .. BUFSZ - 1 -> Char], put_index : 0 .. BUFSZ - 1,
             get_index : 0 .. BUFSZ - 1]
  /\ length \in [Thread -> 0 .. MaxWrite]
  /\ uart \in BOOLEAN /\ activated \in BOOLEAN
  /\ dma \in Item \cup {NoItem}
  /\ data \in [Thread -> Item \cup {NoItem}]

SerialPC == {"tx", "tx_busy", "tx_dma", "tx_dma_start"}

(* rt_serial_open with RT_DEVICE_FLAG_INT_RX *)
SerialInit ==
  /\ rx \in [buffer : {[i \in 0 .. BUFSZ - 1 |-> CHOOSE c \in Char : TRUE]},
             put_index : {0}, get_index : {0}]
  /\ length = [t \in Thread |-> 0]
  /\ data = [t \in Thread |-> NoItem]
  /\ uart = FALSE /\ activated = FALSE /\ dma = NoItem

-----------------------------------------------------------------------------
(* Reception in interrupt mode: RT_SERIAL_EVENT_RX_IND of rt_hw_serial_isr,  *)
(* one character; a full ring loses its oldest one.                          *)

Step(i) == IF i + 1 >= BUFSZ THEN 0 ELSE i + 1

received(ch) ==
  LET put == Step(rx.put_index)
  IN  [buffer    |-> [rx.buffer EXCEPT ![rx.put_index] = ch],
       put_index |-> put,
       get_index |-> IF put = rx.get_index THEN Step(rx.get_index) ELSE rx.get_index]

IsrRx(ch) ==
  /\ Interruptible
  /\ rx' = received(ch)
  /\ UNCHANGED <<k, pc, irqoff, fault, rest, length, data, uart, dma, activated>>

(* _serial_int_rx: one character of a read *)
IntRx(t) ==
  /\ Runs(t, "app")
  /\ rx.get_index # rx.put_index
  /\ rx' = [rx EXCEPT !.get_index = Step(@)]
  /\ UNCHANGED <<k, pc, irqoff, fault, rest, length, data, uart, dma, activated>>

-----------------------------------------------------------------------------
(* Transmission in interrupt mode: _serial_int_tx.  The UART takes the       *)
(* character, or putc says that it is busy and the thread waits for the      *)
(* completion in a later section; then it tries again.                       *)

IntTxBegin(t, n) ==
  /\ Runs(t, "app")
  /\ length' = [length EXCEPT ![t] = n]
  /\ Goto(t, "tx")
  /\ UNCHANGED <<k, irqoff, fault, rest, rx, data, uart, dma, activated>>

IntTxPutc(t) ==
  /\ Runs(t, "tx")
  /\ IF uart THEN Goto(t, "tx_busy") /\ UNCHANGED length
     ELSE /\ length' = [length EXCEPT ![t] = @ - 1]
          /\ Goto(t, IF length[t] = 1 THEN "app" ELSE "tx")
  /\ uart' = TRUE
  /\ UNCHANGED <<k, irqoff, fault, rest, rx, data, dma, activated>>

(* RT_SERIAL_EVENT_TX_DONE: the UART has sent its character *)
IsrTxDone ==
  /\ uart /\ uart' = FALSE
  /\ IsrCpDone
  /\ UNCHANGED <<rx, length, data, dma, activated>>

-----------------------------------------------------------------------------
(* Transmission by DMA: _serial_dma_tx.  The data are queued first; then,    *)
(* unless a transfer is active, the thread starts one with its own data.     *)

DmaTxBegin(t, d) ==
  /\ DqPushBegin(t, d, -1, "tx_dma")
  /\ data' = [data EXCEPT ![t] = d]
  /\ UNCHANGED <<rx, length, uart, dma, activated>>

DmaTxTest(t) ==
  /\ Runs(t, "tx_dma")
  /\ activated' = TRUE
  /\ Goto(t, IF activated THEN "app" ELSE "tx_dma_start")
  /\ data' = IF activated THEN [data EXCEPT ![t] = NoItem] ELSE data
  /\ UNCHANGED <<k, irqoff, fault, rest, rx, length, uart, dma>>

(* serial->ops->dma_transmit *)
DmaTxStart(t) ==
  /\ Runs(t, "tx_dma_start")
  /\ dma' = data[t]
  /\ data' = [data EXCEPT ![t] = NoItem]
  /\ Goto(t, "app")
  /\ UNCHANGED <<k, irqoff, fault, rest, rx, length, uart, activated>>

(* The data at get_index *)
DqHead(q) == q.queue[q.get_index % DQ_SIZE]

(* rt_data_queue_pop with no time to wait *)
IsrPop ==
  IF DqEmpty THEN Interruptible /\ UNCHANGED <<k, pc, irqoff, fault, rest, dq, dqArg>>
  ELSE IsrDqPop


(* RT_SERIAL_EVENT_TX_DMADONE: rt_data_queue_pop removes the data that were  *)
(* sent, rt_data_queue_peak yields the next ones to send.                    *)
IsrTxDmaDone ==
  /\ dma # NoItem
  /\ IsrPop
  /\ activated' = (dq'.get_index # dq'.put_index)
  /\ dma' = IF activated' THEN DqHead(dq') ELSE NoItem
  /\ UNCHANGED <<rx, length, data, uart>>
=============================================================================
