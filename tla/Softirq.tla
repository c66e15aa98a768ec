------------------------------ MODULE Softirq ------------------------------
(***************************************************************************)
(* Software interrupts (asm/irq.cc) and the three ways into the kernel     *)
(* that run them: the tails of asm/irqS.S and asm/trapS.S call rettouser   *)
(* (asm/trap.cc) only when the interrupted code was user code, and         *)
(* rettouser is prempt(); dosoftirq(); checksignal().                      *)
(*                                                                         *)
(* There is one processor.  An interrupt comes through an interrupt gate,  *)
(* so its handler and its tail start with IF clear; a system call comes    *)
(* through a trap gate, with IF set.  requestmask is an ordinary variable  *)
(* that interrupt handlers set bits of while dosoftirq clears bits of it:  *)
(* the clearing is a data race, and a build may do it on the processor's   *)
(* memory operand or on the value the loop's test left in a register.      *)
(***************************************************************************)
EXTENDS Naturals, FiniteSets

CONSTANTS
    N,          \* nsoftirq: the slots of softirqvec in use are 1..N
    Net         \* the slots whose handler is netsoftisr, which ends with sti()

VARIABLES
    ctx,            \* what the processor executes, see SoftTypeOK
    intr,           \* IF: interrupts are enabled
    requestmask,    \* the slots with a request not yet taken
    doingmask,      \* the slots whose handler has started and not returned
    s,              \* dosoftirq's cursor; N + 1 when the loop is over
    mask,           \* the value of requestmask the loop's test has read
    racy            \* the build may clear requestmask from a stale register

softvars == <<ctx, intr, requestmask, doingmask, s, mask, racy>>

Slot == 1..N

\* user     user code
\* kernel   a system call, or a task's kernel code after a switch
\* rettouser the tail of a trap or an interrupt, before dosoftirq
\* test     dosoftirq at the loop's condition
\* take     dosoftirq after the test of slot s succeeded
\* handler  the handler of slot s
SoftTypeOK ==
    /\ ctx \in {"user", "kernel", "rettouser", "test", "take", "handler"}
    /\ intr \in BOOLEAN
    /\ requestmask \subseteq Slot
    /\ doingmask \subseteq Slot
    /\ s \in 1..(N + 1)
    /\ mask \subseteq Slot
    /\ racy \in BOOLEAN
    /\ ctx = "user" => intr

SoftInit ==
    /\ ctx = "user"
    /\ intr = TRUE
    /\ requestmask = {}
    /\ doingmask = {}
    /\ s = N + 1
    /\ mask = {}
    /\ racy \in BOOLEAN

(***************************************************************************)
(* Interrupts.                                                             *)
(***************************************************************************)
\* softirq_t::request
Request(r) == requestmask' = requestmask \cup r

\* The tail of an interrupt: rettouser only when user code was interrupted.
ReturnTail ==
    IF ctx = "user" THEN ctx' = "rettouser" /\ intr' = FALSE
                    ELSE UNCHANGED <<ctx, intr>>

\* A hardware interrupt whose handler requests the slots r (the clock, the
\* keyboard and the network card request one, the disk none).
Irq(r) ==
    /\ intr
    /\ Request(r)
    /\ ReturnTail
    /\ UNCHANGED <<doingmask, s, mask, racy>>

(***************************************************************************)
(* System calls and task switches.                                         *)
(***************************************************************************)
Syscall ==
    /\ ctx = "user"
    /\ ctx' = "kernel"
    /\ UNCHANGED <<intr, requestmask, doingmask, s, mask, racy>>

SyscallReturn ==
    /\ ctx = "kernel"
    /\ ctx' = "rettouser"
    /\ UNCHANGED <<intr, requestmask, doingmask, s, mask, racy>>

\* prempt() with needresched set: sched() switches, and the task that goes on
\* was itself in sched(), either in a system call or in its own prempt().
Prempt ==
    /\ ctx = "rettouser"
    /\ ctx' \in {"kernel", "rettouser"}
    /\ intr' = TRUE
    /\ UNCHANGED <<requestmask, doingmask, s, mask, racy>>

(***************************************************************************)
(* dosoftirq.                                                              *)
(***************************************************************************)
\* Nothing requested: return at once, and checksignal, to user code.
DosoftirqNone ==
    /\ ctx = "rettouser"
    /\ requestmask = {}
    /\ ctx' = "user"
    /\ intr' = TRUE
    /\ UNCHANGED <<requestmask, doingmask, s, mask, racy>>

Dosoftirq ==
    /\ ctx = "rettouser"
    /\ requestmask # {}
    /\ ctx' = "test"
    /\ s' = 1
    /\ UNCHANGED <<intr, requestmask, doingmask, mask, racy>>

\* The loop's `continue': no request, or the handler is running already.
Skips(slot) == slot \notin requestmask \/ slot \in doingmask

Skip ==
    /\ ctx = "test"
    /\ s \in Slot
    /\ Skips(s)
    /\ s' = s + 1
    /\ UNCHANGED <<ctx, intr, requestmask, doingmask, mask, racy>>

Test ==
    /\ ctx = "test"
    /\ s \in Slot
    /\ ~Skips(s)
    /\ ctx' = "take"
    /\ mask' = requestmask
    /\ UNCHANGED <<intr, requestmask, doingmask, s, racy>>

\* The clearing done by storing zero.
ClearedAll(slot) == {{}}

\* requestmask &= ~mask
Cleared(slot) ==
    {requestmask \ {slot}} \cup (IF racy THEN {mask \ {slot}} ELSE {})

Take ==
    /\ ctx = "take"
    /\ requestmask' \in Cleared(s)
    /\ doingmask' = doingmask \cup {s}
    /\ ctx' = "handler"
    /\ UNCHANGED <<intr, s, mask, racy>>

\* netsoftisr's sti() after the first look at its backlog.
HandlerSti ==
    /\ ctx = "handler"
    /\ s \in Net
    /\ ~intr
    /\ intr' = TRUE
    /\ UNCHANGED <<ctx, requestmask, doingmask, s, mask, racy>>

\* The doing bit is left set.
HandlerReturnKeep ==
    /\ ctx = "handler"
    /\ s' = s + 1
    /\ intr' = (intr \/ s \in Net)
    /\ ctx' = "test"
    /\ UNCHANGED <<requestmask, doingmask, mask, racy>>

\* The handler returns.  netsoftisr leaves interrupts enabled.
HandlerReturn ==
    /\ ctx = "handler"
    /\ doingmask' = doingmask \ {s}
    /\ s' = s + 1
    /\ intr' = (intr \/ s \in Net)
    /\ ctx' = "test"
    /\ UNCHANGED <<requestmask, mask, racy>>

\* The loop is over: checksignal, and iret to user code.
DosoftirqEnd ==
    /\ ctx = "test"
    /\ s = N + 1
    /\ ctx' = "user"
    /\ intr' = TRUE
    /\ UNCHANGED <<requestmask, doingmask, s, mask, racy>>

SoftNext ==
    \/ \E r \in {{}} \cup {{i} : i \in Slot} : Irq(r)
    \/ Syscall \/ SyscallReturn \/ Prempt
    \/ DosoftirqNone \/ Dosoftirq \/ Skip \/ Test \/ Take
    \/ HandlerSti \/ HandlerReturn \/ DosoftirqEnd

SoftSpec == SoftInit /\ [][SoftNext]_softvars

\* A system call ends or its task sleeps, the loop and the handlers run to
\* their end, a task is not switched away from for ever, and the clock ticks.
SoftFairness ==
    /\ WF_softvars(\E r \in {{}} \cup {{i} : i \in Slot} : Irq(r) /\ ctx = "user")
    /\ WF_softvars(SyscallReturn)
    /\ SF_softvars(DosoftirqNone) /\ SF_softvars(Dosoftirq)
    /\ WF_softvars(Skip) /\ WF_softvars(Test) /\ WF_softvars(Take)
    /\ WF_softvars(HandlerReturn) /\ WF_softvars(DosoftirqEnd)

SoftFairSpec == SoftSpec /\ SoftFairness

(***************************************************************************)
(* Properties.                                                             *)
(***************************************************************************)
\* dosoftirq's note 3: a handler is atomic with respect to the others and is
\* never entered again before it has returned, whatever interrupts arrive
\* while it runs: the doing bit of the slot under the cursor is the only one.
OneHandler == doingmask = IF ctx = "handler" THEN {s} ELSE {}

\* A request made by an interrupt handler at any point, also behind the
\* cursor of a dosoftirq that is under way, is served, provided the build
\* clears requestmask in memory.
RequestServed ==
    \A i \in Slot : (~racy /\ i \in requestmask) ~> (ctx = "handler" /\ s = i)
=============================================================================
