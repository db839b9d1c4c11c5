------------------------------ MODULE Console ------------------------------
(* Console input and output (console.c, uart.c): the interrupt handler edits lines in a ring that    *)
(* readers consume, and writers fill a ring that the UART empties. cons.lock is held over the loop   *)
(* of consoleread(), of which each turn is a step; what uart_tx_lock protects is one step. A reader  *)
(* that finds nothing tests killed and sleeps in one step: that is so on one CPU.                    *)
EXTENDS Integers

CONSTANTS Proc, Char, newline, eof,   \* '\n' and control-D
          INPUT_BUF_SIZE, UintSize,   \* r, w and e are uint: they wrap at UintSize
          UART_TX_BUF_SIZE,
          None

VARIABLES r, w, e, buf,               \* cons
          lock,                       \* the process that holds cons.lock
          pc, n, target, killed,      \* of each process
          txr, txw, txbuf,            \* the transmit ring
          idle                        \* LSR_TX_IDLE: the UART takes a byte

input  == <<r, w, e, buf>>
output == <<txr, txw, txbuf, idle>>
consoleVars   == <<input, lock, pc, n, target, killed, output>>

At(i) == i % INPUT_BUF_SIZE
Dist(a, b) == (b - a) % UintSize

ConsoleInit ==
  /\ r = 0 /\ w = 0 /\ e = 0 /\ buf \in [0..INPUT_BUF_SIZE - 1 -> Char]
  /\ lock = None
  /\ pc = [p \in Proc |-> "user"] /\ n = [p \in Proc |-> 0] /\ target = n
  /\ killed = [p \in Proc |-> FALSE]
  /\ txr = 0 /\ txw = 0 /\ txbuf \in [0..UART_TX_BUF_SIZE - 1 -> Char] /\ idle = TRUE

Goto(p, s) == pc' = [pc EXCEPT ![p] = s]

\* wakeup() of the processes in state s, which go on in state t.
Woken(f, s, t) == [p \in Proc |-> IF f[p] = s THEN t ELSE f[p]]

----------------------------------------------------------------------------
(* consoleread() *)

Read(p, k) ==
  /\ pc[p] = "user" /\ ~killed[p]
  /\ n' = [n EXCEPT ![p] = k] /\ target' = [target EXCEPT ![p] = k]
  /\ Goto(p, "acquire")
  /\ UNCHANGED <<input, lock, killed, output>>

\* acquire(&cons.lock), at the start or at the end of sleep().
Acquire(p) ==
  /\ pc[p] = "acquire" /\ lock = None
  /\ lock' = p
  /\ Goto(p, "loop")
  /\ UNCHANGED <<input, n, target, killed, output>>

InRead(p) == pc[p] = "loop" /\ lock = p

ReadReturns(p) == Goto(p, "user") /\ lock' = None

\* Nothing is there to read: give up if killed, sleep otherwise.
NoInput(p) ==
  /\ InRead(p) /\ n[p] > 0 /\ r = w
  /\ Goto(p, IF killed[p] THEN "user" ELSE "sleep")
  /\ lock' = None
  /\ UNCHANGED <<input, n, target, killed, output>>

\* End of file is left for the next read if this one has bytes to return.
EndOfFile(p) ==
  /\ InRead(p) /\ n[p] > 0 /\ r # w /\ buf[At(r)] = eof
  /\ r' = IF n[p] < target[p] THEN r ELSE (r + 1) % UintSize
  /\ ReadReturns(p)
  /\ UNCHANGED <<w, e, buf, n, target, killed, output>>

\* A byte; a newline, or copyout() that fails, ends the read.
TakeByte(p) ==
  /\ InRead(p) /\ n[p] > 0 /\ r # w /\ buf[At(r)] # eof
  /\ r' = (r + 1) % UintSize
  /\ \/ /\ n' = [n EXCEPT ![p] = @ - 1]
        /\ IF buf[At(r)] = newline THEN ReadReturns(p) ELSE UNCHANGED <<pc, lock>>
     \/ ReadReturns(p) /\ UNCHANGED n
  /\ UNCHANGED <<w, e, buf, target, killed, output>>

ReadDone(p) ==
  /\ InRead(p) /\ n[p] = 0
  /\ ReadReturns(p)
  /\ UNCHANGED <<input, n, target, killed, output>>

\* kill(): the victim runs if it was asleep.
Kill(p) ==
  /\ killed' = [killed EXCEPT ![p] = TRUE]
  /\ Goto(p, CASE pc[p] = "sleep" -> "acquire" [] pc[p] = "full" -> "put" [] OTHER -> pc[p])
  /\ UNCHANGED <<input, lock, n, target, output>>

----------------------------------------------------------------------------
(* consoleintr() *)

Before(a) == (a - 1) % UintSize

\* consputc(): uartputc_sync() spins until the UART is idle. Several bytes wait for it in between.
Echo == idle /\ idle' = FALSE /\ UNCHANGED <<txr, txw, txbuf>>

\* Backspace
Erase ==
  /\ lock = None /\ e # w
  /\ e' = Before(e) /\ Echo
  /\ UNCHANGED <<r, w, buf, lock, pc, n, target, killed>>

\* Control-U erases back to w, or to a newline.
KillLine ==
  /\ lock = None
  /\ \E k \in 0..Dist(w, e) :
       /\ e' = (e - k) % UintSize
       /\ \A i \in 1..k : buf[At((e - i) % UintSize)] # newline
       /\ k = Dist(w, e) \/ buf[At((e - k - 1) % UintSize)] = newline
       /\ IF k > 0 THEN Echo ELSE UNCHANGED output
  /\ UNCHANGED <<r, w, buf, lock, pc, n, target, killed>>

\* Any other character, if there is room. (A carriage return has become a newline.)
Type(c) ==
  /\ lock = None /\ Dist(r, e) < INPUT_BUF_SIZE /\ Echo
  /\ buf' = [buf EXCEPT ![At(e)] = c]
  /\ e' = (e + 1) % UintSize
  /\ IF c \in {newline, eof} \/ Dist(r, e') = INPUT_BUF_SIZE
       THEN w' = e' /\ pc' = Woken(pc, "sleep", "acquire")
       ELSE UNCHANGED <<w, pc>>
  /\ UNCHANGED <<r, lock, n, target, killed>>

----------------------------------------------------------------------------
(* consolewrite(), uartputc(), uartstart() *)

TxFull == txw = txr + UART_TX_BUF_SIZE

\* uartstart() with the ring up to x: while the UART is idle it gets a byte; it is busy after one.
Start(x, f) == IF txr # x /\ idle
               THEN txr' = txr + 1 /\ idle' = FALSE /\ pc' = Woken(f, "full", "put")
               ELSE pc' = f /\ UNCHANGED <<txr, idle>>

Write(p) ==
  /\ pc[p] = "user" /\ ~killed[p]
  /\ Goto(p, "put")
  /\ UNCHANGED <<input, lock, n, target, killed, output>>

PutSleep(p) ==
  /\ pc[p] = "put" /\ TxFull
  /\ Goto(p, "full")
  /\ UNCHANGED <<input, lock, n, target, killed, output>>

\* uartputc() of one byte; consolewrite() goes on or returns.
Put(p, c) ==
  /\ pc[p] = "put" /\ ~TxFull
  /\ txbuf' = [txbuf EXCEPT ![txw % UART_TX_BUF_SIZE] = c]
  /\ txw' = txw + 1
  /\ \E s \in {"put", "user"} : Start(txw + 1, [pc EXCEPT ![p] = s])
  /\ UNCHANGED <<input, lock, n, target, killed>>

\* The end of uartintr(), with the interrupt that says that the byte is out.
TxReady ==
  /\ pc' = pc /\ ~idle
  /\ idle' = TRUE
  /\ UNCHANGED <<input, lock, n, target, killed, txr, txw, txbuf>>

TxIntr ==
  /\ Start(txw, pc)
  /\ UNCHANGED <<input, lock, n, target, killed, txw, txbuf>>

ConsoleNext ==
  \/ Erase \/ KillLine \/ TxReady \/ TxIntr
  \/ \E c \in Char : Type(c)
  \/ \E p \in Proc :
       \/ Acquire(p) \/ NoInput(p) \/ EndOfFile(p) \/ TakeByte(p) \/ ReadDone(p)
       \/ Kill(p) \/ Write(p) \/ PutSleep(p)
       \/ \E k \in Nat : Read(p, k)
       \/ \E c \in Char : Put(p, c)

ConsoleSpec == ConsoleInit /\ [][ConsoleNext]_consoleVars

----------------------------------------------------------------------------
(* Properties *)

\* The console never gets stuck: the bytes typed and not yet read fit the ring, and when it is full
\* they can all be read, so a reader makes room even though no line has ended (console.c:159, 168-171).
NeverStuck == /\ Dist(r, e) <= INPUT_BUF_SIZE
              /\ Dist(r, e) = INPUT_BUF_SIZE => w = e

\* A reader sleeps only while no complete line is there, a writer only while the transmit ring is
\* full: whoever changes that wakes them (console.c:91-96, 171-172, uart.c:95-98, 150-153).
SleepersJustified ==
  \A p \in Proc : /\ pc[p] = "sleep" => r = w
                  /\ pc[p] = "full" => TxFull

\* Bytes that wait in the transmit ring leave it in order and are not overwritten (uart.c:95-100).
BytesKept ==
  \A i \in txr..txw - 1 :
    \/ i < txr'
    \/ i < txw' /\ txbuf'[i % UART_TX_BUF_SIZE] = txbuf[i % UART_TX_BUF_SIZE]
BytesNeverChange == [][BytesKept]_consoleVars

\* What readers may read is never edited or overwritten by later typing, also when the indices wrap
\* (console.c:145, 153, 159).
LinesKept ==
  \A i \in 0..Dist(r, w) - 1 :
    \/ i < Dist(r, r')
    \/ /\ i < Dist(r, w')
       /\ buf'[At((r + i) % UintSize)] = buf[At((r + i) % UintSize)]
LinesNeverChange == [][LinesKept]_consoleVars
=============================================================================
