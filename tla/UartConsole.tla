----------------------------- MODULE UartConsole -----------------------------
(***************************************************************************)
(* Input and output: the interrupt handler and the rings of                *)
(* src/drivers/uart/uart_async.c, the console task of                      *)
(* src/scheduler/console_task.c, and the terminal and command tasks of     *)
(* src/terminal/terminal.c as far as they read bytes and print.            *)
(*                                                                         *)
(* A handler runs in several steps and USART6_IRQHandler runs between any  *)
(* two of them, but where the code disables it.  The console (priority 3)  *)
(* runs before the terminal (1) and the terminal before the commands (0).  *)
(* Printed characters are numbered in the order in which the console       *)
(* accepts them, so that order and loss can be seen at the wire.           *)
(***************************************************************************)
EXTENDS ShellInput, FiniteSets

CONSTANTS
  Inputs,      \* the sequences of bytes that are received: characters, "CR", "LF",
               \* "ESC", "BS", and "NOISE" for a byte with a framing error
  RxCap,       \* UART_RX_BUF_SIZE - 1: 127
  TxCap,       \* UART_TX_BUF_SIZE - 1: 255
  Slots,       \* CONSOLE_MSG_SLOTS: 64
  ConsoleQ,    \* the capacity of the queue of AO_CONSOLE: 8
  TerminalQ,   \* the capacity of the queue of AO_TERMINAL: 8
  Mailbox,     \* CMD_MAILBOX_CAP
  OutputLen,   \* the length of the message a command prints
  MaxPrograms, \* the programs and SD requests that ask for a prompt when they end
               \* and that can be there at one time: the owner of stdin and the one
               \* request of the SD task, 2
  MaxResumes   \* bound: resumes

\* The queue of the terminal has a place for the prompt of each program, for the
\* prompt of a resume and for one event of the interrupt
ASSUME UartAssumption ==
  /\ {RxCap, TxCap, Slots, ConsoleQ, TerminalQ, Mailbox, OutputLen} \subseteq Nat \ {0}
  /\ MaxPrograms \in Nat /\ MaxResumes \in Nat /\ MaxPrograms + 1 < TerminalQ
  /\ \A i \in Inputs : i \in Seq(STRING)

RebootLine == <<"r">>      \* the line that holds the reboot command
None == "none"

VARIABLES
  run,       \* the handler that runs and how far it is; "boot" before sched_run
  hw,        \* USART6: rdr; the numbers of the characters in the transmit data
             \* register and the shift register (0: none); TXEIE, TCIE, TC
  rx,        \* the receive ring
  pending,   \* rx_event_pending
  early,     \* the ring has bytes that came before AO_TERMINAL was registered
             \* and for which there has been no event (a history variable)
  tx,        \* the transmit ring
  busy,      \* tx_status = DRV_IN_PROGRESS
  con,       \* the console: its messages as intervals of numbers, wake_posted,
             \* its event queue, and the last number given to a character
  termq,     \* the queue of AO_TERMINAL
  shell,
  cmds,      \* the lines in the mailbox of AO_CMD
  sent,      \* the number of the last character on the wire
  read,      \* the bytes that the terminal has read (a history variable)
  lines,     \* the lines that were submitted and not empty (a history variable)
  input,     \* the bytes that have yet to arrive
  progs,     \* the programs and SD requests that run and will ask for a prompt
  resumes    \* the resumes so far

io == <<hw, rx, pending, early, tx, busy, sent, input>>
tasks == <<con, termq, shell, cmds, read, lines, progs, resumes>>
vars == <<run, io, tasks>>

-----------------------------------------------------------------------------
(* The console *)

ConsoleReset == [slots |-> <<>>, wake |-> FALSE, q |-> <<>>, next |-> 0]

console_kick(c) ==
  IF c.wake \/ Len(c.q) >= ConsoleQ THEN c
  ELSE [c EXCEPT !.wake = TRUE, !.q = Append(@, "KICK")]

\* console_enqueue: a message of len characters, dropped when all slots are used
console_enqueue(c, len) ==
  IF Len(c.slots) >= Slots THEN c
  ELSE console_kick([c EXCEPT !.slots = Append(@, [off |-> c.next + 1, end |-> c.next + len]),
                              !.next = @ + len])

\* Several messages one after the other
Printed(c, out) == FoldLeft(console_enqueue, c, out)

\* A step of a task leaves the rings and the hardware alone
TaskStep == UNCHANGED io

\* sched_run dispatches to AO_CONSOLE; KICK and TX_READY are handled alike
ConsoleDispatch ==
  /\ run = "idle" /\ con.q # <<>>
  /\ run' = "console" /\ con' = [con EXCEPT !.q = Tail(@)]
  /\ TaskStep /\ UNCHANGED <<termq, shell, cmds, read, lines, progs, resumes>>

\* The messages without the first character of the oldest one
Advanced(slots) ==
  IF Head(slots).off = Head(slots).end THEN Tail(slots) ELSE [slots EXCEPT ![1].off = @ + 1]

\* uart_async_putc for the next character of the oldest message
ConsolePut ==
  /\ run = "console" /\ con.slots # <<>> /\ Len(tx) < TxCap
  /\ tx' = Append(tx, Head(con.slots).off)
  /\ con' = [con EXCEPT !.slots = Advanced(@)]
  /\ busy' = TRUE /\ hw' = [hw EXCEPT !.txeie = TRUE]
  /\ UNCHANGED <<run, rx, pending, early, sent, input>>
  /\ UNCHANGED <<termq, shell, cmds, read, lines, progs, resumes>>

\* Mutant: the character that did not fit is not tried again
ConsoleSeesFullSkips ==
  /\ run = "console" /\ con.slots # <<>> /\ Len(tx) = TxCap
  /\ run' = "console_full"
  /\ con' = [con EXCEPT !.slots = Advanced(@)]
  /\ TaskStep /\ UNCHANGED <<termq, shell, cmds, read, lines, progs, resumes>>

\* uart_async_putc finds the ring full; the interrupt may drain it before
\* console_task_dispatch goes on
ConsoleSeesFull ==
  /\ run = "console" /\ con.slots # <<>> /\ Len(tx) = TxCap
  /\ run' = "console_full"
  /\ TaskStep /\ UNCHANGED tasks

\* console_task_dispatch returns: the ring was full, or all has been handed on
ConsoleReturns ==
  /\ run = "console_full" \/ (run = "console" /\ con.slots = <<>>)
  /\ run' = "idle" /\ con' = [con EXCEPT !.wake = FALSE]
  /\ TaskStep /\ UNCHANGED <<termq, shell, cmds, read, lines, progs, resumes>>

-----------------------------------------------------------------------------
(* The interrupt *)

RxBound == run # "boot"                        \* g_uart_sched # 0
Registered == run \notin {"boot", "bound"}     \* AO_TERMINAL is in the table

\* The transmit data register is written: the shift register takes it if free
WriteTdr(h, n) ==
  IF h.shift = 0 THEN [h EXCEPT !.shift = n, !.tc = FALSE] ELSE [h EXCEPT !.tdr = n, !.tc = FALSE]

RxIrq == hw.rdr # None
TxeIrq == hw.tdr = 0 /\ hw.txeie
TcIrq == hw.tc /\ hw.tcie

\* Mutant: the last character is not followed by a transmit complete interrupt
TxeHandlerSilent(h) ==
  IF tx = <<>> THEN [h EXCEPT !.txeie = FALSE] ELSE WriteTdr(h, Head(tx))

\* The TXE branch: the next character, or from TXE to TC
TxeHandler(h) ==
  IF tx = <<>> THEN [h EXCEPT !.txeie = FALSE, !.tcie = TRUE] ELSE WriteTdr(h, Head(tx))

\* The TC branch: TC is cleared even when the TXE branch has written TDR
TcHandler(h) == [h EXCEPT !.tc = FALSE, !.tcie = FALSE]

\* The ring has room, and the interrupt posts an event
RxRoom == Len(rx) < RxCap
RxPost == RxRoom /\ RxBound /\ ~pending /\ Registered /\ Len(termq) < TerminalQ

\* The receive branch of USART6_IRQHandler; noise is discarded
RxHandler ==
  IF RxIrq /\ hw.rdr # "NOISE" /\ RxRoom
  THEN /\ rx' = Append(rx, hw.rdr)
       /\ pending' = (pending \/ RxPost)
       /\ termq' = IF RxPost THEN Append(termq, "RX_READY") ELSE termq
       /\ early' = (~RxPost /\ ~pending /\ (early \/ ~Registered))
  ELSE UNCHANGED <<rx, pending, early, termq>>

USART6_IRQHandler ==
  /\ RxIrq \/ TxeIrq \/ TcIrq
  /\ RxHandler
  /\ LET clear == [hw EXCEPT !.rdr = None]
         txe == IF TxeIrq THEN TxeHandler(clear) ELSE clear
     IN  hw' = IF TcIrq THEN TcHandler(txe) ELSE txe
  /\ tx' = IF TxeIrq /\ tx # <<>> THEN Tail(tx) ELSE tx
  /\ busy' = (busy /\ ~TcIrq)
  /\ con' = IF TcIrq /\ Len(con.q) < ConsoleQ /\ run # "boot"
            THEN [con EXCEPT !.q = Append(@, "TX_READY")] ELSE con
  /\ UNCHANGED <<run, sent, input, shell, cmds, read, lines, progs, resumes>>

\* A byte arrives; it is lost when the last one has not been read yet
Receive ==
  /\ run # "reset" /\ input # <<>> /\ input' = Tail(input)
  /\ hw' = [hw EXCEPT !.rdr = IF @ = None THEN Head(input) ELSE @]
  /\ UNCHANGED <<run, rx, pending, early, tx, busy, sent, tasks>>

\* A character leaves the shift register
Transmit ==
  /\ hw.shift # 0 /\ sent' = hw.shift
  /\ hw' = [hw EXCEPT !.shift = hw.tdr, !.tdr = 0, !.tc = hw.tdr = 0]
  /\ UNCHANGED <<run, rx, pending, early, tx, busy, input, tasks>>

-----------------------------------------------------------------------------
(* The terminal and the commands *)

TerminalDispatch ==
  /\ run = "idle" /\ con.q = <<>> /\ termq # <<>>
  /\ termq' = Tail(termq)
  /\ IF Head(termq) = "RX_READY"
     THEN run' = "terminal" /\ UNCHANGED con
     ELSE /\ con' = Printed(con, <<PromptLen>> \o
                               (IF shell.line = <<>> THEN <<>> ELSE <<Len(shell.line)>>))
          /\ UNCHANGED run
  /\ TaskStep /\ UNCHANGED <<shell, cmds, read, lines, progs, resumes>>

\* term_enqueue_dispatch: what it prints, and the mailbox after it.  A line
\* without a character that is not blank gets a new prompt.
Dispatched(line) ==
  IF line = <<>> THEN [out |-> <<PromptLen>>, cmds |-> cmds]
  ELSE IF Len(cmds) >= Mailbox THEN [out |-> <<1>>, cmds |-> cmds]
  ELSE [out |-> <<>>, cmds |-> Append(cmds, line)]

\* The loop of terminal_task_dispatch reads a byte: shell_tick
TerminalByte ==
  /\ run = "terminal" /\ rx # <<>>
  /\ LET t == shell_tick(shell, Head(rx))
         d == IF t.submit THEN Dispatched(shell.line) ELSE [out |-> <<>>, cmds |-> cmds]
     IN  /\ shell' = t.sh
         /\ con' = Printed(con, t.out \o d.out)
         /\ cmds' = d.cmds
         /\ lines' = IF t.submit /\ shell.line # <<>> THEN Append(lines, shell.line) ELSE lines
  /\ rx' = Tail(rx) /\ read' = Append(read, Head(rx))
  /\ early' = (early /\ Tail(rx) # <<>>)
  /\ UNCHANGED <<run, hw, pending, tx, busy, sent, input, termq, progs, resumes>>

\* uart_rx_available returns 0
TerminalSeesEmpty ==
  /\ run = "terminal" /\ rx = <<>> /\ run' = "finish"
  /\ UNCHANGED <<io, tasks>>

\* Mutant: the pending flag is cleared without another look at the ring
RxEventFinishBlind ==
  /\ run = "finish"
  /\ pending' = FALSE /\ run' = "idle" /\ shell' = shell_rx_idle(shell)
  /\ UNCHANGED <<hw, rx, early, tx, busy, sent, input>>
  /\ UNCHANGED <<con, termq, cmds, read, lines, progs, resumes>>

\* Mutant: the pending flag stays set
RxEventFinishKeeps ==
  /\ run = "finish"
  /\ IF rx # <<>> THEN run' = "terminal" /\ UNCHANGED shell
     ELSE run' = "idle" /\ shell' = shell_rx_idle(shell)
  /\ UNCHANGED <<io, con, termq, cmds, read, lines, progs, resumes>>

\* uart_async_rx_event_finish, and the end of terminal_task_dispatch
RxEventFinish ==
  /\ run = "finish"
  /\ IF rx # <<>> THEN run' = "terminal" /\ UNCHANGED <<pending, shell>>
     ELSE pending' = FALSE /\ run' = "idle" /\ shell' = shell_rx_idle(shell)
  /\ UNCHANGED <<hw, rx, early, tx, busy, sent, input>>
  /\ UNCHANGED <<con, termq, cmds, read, lines, progs, resumes>>

\* cmd_task_dispatch: the command prints, and starts a program or an SD request
\* or a new prompt follows; reboot does not return
Command ==
  /\ run = "idle" /\ con.q = <<>> /\ termq = <<>> /\ cmds # <<>>
  /\ cmds' = Tail(cmds)
  /\ \/ /\ Head(cmds) = RebootLine
        /\ run' = "reboot" /\ UNCHANGED <<con, progs>>
     \/ /\ Head(cmds) # RebootLine
        /\ con' = Printed(con, <<OutputLen, PromptLen>>) /\ UNCHANGED <<run, progs>>
     \/ /\ Head(cmds) # RebootLine /\ progs < MaxPrograms
        /\ con' = Printed(con, <<OutputLen>>) /\ progs' = progs + 1 /\ UNCHANGED run
  /\ TaskStep /\ UNCHANGED <<termq, shell, read, lines, resumes>>

uart_tx_done == tx = <<>> /\ ~busy

\* The reboot command after its wait for uart_tx_done and uart_flush_tx
Reboot ==
  /\ run = "reboot" /\ uart_tx_done /\ hw.shift = 0
  /\ run' = "reset"
  /\ TaskStep /\ UNCHANGED tasks

\* A program that stops, or sd_task when a request is done, asks for a prompt
TaskStops ==
  /\ run = "idle" /\ con.q = <<>>
  /\ progs > 0 /\ progs' = progs - 1
  /\ con' = Printed(con, <<1>>)
  /\ termq' = IF Len(termq) < TerminalQ THEN Append(termq, "REPRINT_PROMPT") ELSE termq
  /\ UNCHANGED <<run, io, shell, cmds, read, lines, resumes>>

-----------------------------------------------------------------------------
(* Boots *)

QuietUart == [rdr |-> None, tdr |-> 0, shift |-> 0, txeie |-> FALSE, tcie |-> FALSE, tc |-> TRUE]

\* After uart_async_init
Init ==
  /\ run = "boot" /\ hw = QuietUart
  /\ rx = <<>> /\ pending = FALSE /\ early = FALSE /\ tx = <<>> /\ busy = FALSE
  /\ con = ConsoleReset /\ termq = <<>> /\ shell = ShellInit /\ cmds = <<>>
  /\ sent = 0 /\ read = <<>> /\ lines = <<>>
  /\ input \in Inputs /\ progs = 0 /\ resumes = 0

\* console_task_register, and terminal_task_register up to
\* uart_async_bind_scheduler: the first prompt
BindUart ==
  /\ run = "boot" /\ run' = "bound"
  /\ con' = Printed(ConsoleReset, <<PromptLen>>) /\ pending' = FALSE
  /\ UNCHANGED <<hw, rx, early, tx, busy, sent, input>>
  /\ UNCHANGED <<termq, shell, cmds, read, lines, progs, resumes>>

\* terminal_task_register to its end, and sched_run
RegisterTerminal ==
  /\ run = "bound" /\ run' = "idle"
  /\ UNCHANGED <<io, tasks>>

\* A snapshot is taken, the power fails and the image is resumed:
\* rewind_resume_entry with uart_async_resume_after_restore,
\* console_reset_after_restore and the flush of all queues
Resume ==
  /\ run = "idle" /\ resumes < MaxResumes /\ resumes' = resumes + 1
  /\ hw' = QuietUart
  /\ rx' = <<>> /\ pending' = FALSE /\ early' = FALSE /\ tx' = <<>> /\ busy' = FALSE
  /\ con' = ConsoleReset /\ sent' = 0
  /\ termq' = <<"REPRINT_PROMPT">> /\ cmds' = <<>>
  /\ UNCHANGED <<run, shell, input, read, lines, progs>>

Next ==
  \/ USART6_IRQHandler \/ Transmit \/ Receive
  \/ ConsoleDispatch \/ ConsolePut \/ ConsoleSeesFull \/ ConsoleReturns
  \/ TerminalDispatch \/ TerminalByte \/ TerminalSeesEmpty \/ RxEventFinish
  \/ Command \/ Reboot \/ TaskStops
  \/ BindUart \/ RegisterTerminal \/ Resume

\* The hardware transmits, interrupts are taken, and the handlers and the
\* scheduler go on; nobody has to type and no program has to stop.
Fairness ==
  /\ WF_vars(USART6_IRQHandler) /\ WF_vars(Transmit)
  /\ WF_vars(\/ ConsoleDispatch \/ ConsolePut \/ ConsoleSeesFull \/ ConsoleReturns
             \/ TerminalDispatch \/ TerminalByte \/ TerminalSeesEmpty \/ RxEventFinish
             \/ Command \/ Reboot \/ BindUart \/ RegisterTerminal)

Spec == Init /\ [][Next]_vars /\ Fairness

-----------------------------------------------------------------------------
(* Properties *)

Waiting == {"terminal", "finish"}
Bytes == UNION {Range(i) : i \in Inputs}

\* Type invariant
TypeOK ==
  /\ run \in {"boot", "bound", "idle", "console", "console_full", "reboot", "reset"} \cup Waiting
  /\ hw \in [rdr : Bytes \cup {None}, tdr : Nat, shift : Nat,
             txeie : BOOLEAN, tcie : BOOLEAN, tc : BOOLEAN]
  /\ Len(rx) <= RxCap /\ Len(tx) <= TxCap /\ Len(con.slots) <= Slots
  /\ Len(con.q) <= ConsoleQ /\ Len(termq) <= TerminalQ /\ Len(cmds) <= Mailbox
  /\ {pending, early, busy, con.wake} \subseteq BOOLEAN
  /\ Len(shell.line) <= LineMax /\ Len(shell.hist) <= HistMax

\* The characters in the transmitter, in the ring and in the console's messages,
\* the next one on the wire first
held(n) == IF n = 0 THEN <<>> ELSE <<n>>
chars(m) == [i \in 1 .. m.end - m.off + 1 |-> m.off + i - 1]
Texts(slots) == FoldLeft(LAMBDA s, m : s \o chars(m), <<>>, slots)
Pipe == held(hw.shift) \o held(hw.tdr) \o tx \o Texts(con.slots)

\* What the console accepted goes to the wire in order, each character once,
\* whatever the interrupt does between two steps of the console.
OutputInOrder ==
  /\ sent + Len(Pipe) = con.next
  /\ \A i \in 1 .. Len(Pipe) : Pipe[i] = sent + i

\* A received byte has an event on its way or a handler that will see it, but
\* for bytes that came before the terminal was registered: a post to the queue
\* of the terminal never fails, and clearing the flag never races with the
\* interrupt.
RxWakesTerminal ==
  /\ pending => run \in Waiting \/ \E i \in 1 .. Len(termq) : termq[i] = "RX_READY"
  /\ rx # <<>> /\ Registered /\ ~early => pending

\* Rings and queues within their bounds, and an event for every received byte.
ReceiveSound == TypeOK /\ RxWakesTerminal

\* The lines of the bytes bs, without the empty ones: CR and LF end a line
NextByte(a, b) ==
  CASE b \in {"CR", "LF"} ->
         [line |-> <<>>, all |-> IF a.line = <<>> THEN a.all ELSE Append(a.all, a.line)]
    [] b = "BS" -> [a EXCEPT !.line = IF @ = <<>> THEN @ ELSE Front(@)]
    [] OTHER -> [a EXCEPT !.line = IF Len(@) < LineMax THEN Append(@, b) ELSE @]

LinesOf(bs) == FoldLeft(NextByte, [line |-> <<>>, all |-> <<>>], bs)

\* However the bytes of CR LF, CR CR LF or LF are spread over events and idle
\* times, the commands are the lines that were typed, and the line that is
\* being edited is the rest.
LinesAsTyped ==
  (\A i \in 1 .. Len(read) : read[i] # "ESC") =>
    lines = LinesOf(read).all /\ shell.line = LinesOf(read).line

\* Messages in the console are sent, unless the system is rebooted.
ConsoleDrains == con.slots # <<>> ~> con.slots = <<>> \/ run \in {"reboot", "reset"}

\* A byte with an event is read, unless the system is rebooted.
InputIsRead == pending ~> ~pending \/ run \in {"reboot", "reset"}

\* The reboot command gets past its wait for uart_tx_done.
RebootHappens == run = "reboot" ~> run = "reset"
=============================================================================
