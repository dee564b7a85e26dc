------------------------------- MODULE Rng200 -------------------------------
(* The RNG200 random number generator (hw/misc/bcm2838_rng200.c of patch      *)
(* 0002): a FIFO that an entropy backend fills asynchronously, a limit on the *)
(* bits generated, and the interrupt.  Bytes are counted, not named.          *)
(*                                                                            *)
(* The backend answers requests in their order; it keeps those made before a  *)
(* reset.  The guest sets the thresholds while the generator is off, as       *)
(* Linux's iproc-rng200 does.                                                 *)
EXTENDS Integers, Sequences

CONSTANTS Cap,         \* rng_fifo_cap, in bytes
          Mod,         \* the registers count modulo this
          Thresholds,  \* values of TOTAL_BIT_COUNT_THRESHOLD
          MaxPending,  \* bound on requests at the backend
          MaxGiven     \* where the history variable stops counting

WarmUp == 17           \* RNG_WARM_UP_PERIOD_ELAPSED

ASSUME RngAssumption ==
    /\ Cap \in Nat /\ Cap >= 4 /\ Mod \in Nat /\ WarmUp + 8 * Cap < Mod
    /\ Thresholds \subseteq 0 .. Mod - 1 /\ MaxGiven \in Nat \ {0}

VARIABLES short,    \* 1: the backend may deliver less than was asked for
          used,     \* bytes in the FIFO
          rbg,      \* RNG_CTRL.RBG_ENABLE
          bits,     \* RNG_TOTAL_BIT_COUNT
          thld,     \* RNG_TOTAL_BIT_COUNT_THRESHOLD
          fthld,    \* RNG_FIFO_COUNT.THRESHOLD
          words,    \* RNG_FIFO_COUNT.COUNT, in words
          status,   \* RNG_INT_STATUS
          enable,   \* RNG_INT_ENABLE
          line,     \* the interrupt output
          pending,  \* the sizes of the requests at the backend
          given     \* bytes taken since the generator was last enabled

rng_regs == <<rbg, bits, thld, fthld, words, status, enable>>
rng_vars == <<short, used, rng_regs, line, pending, given>>

Irqs == {"total", "startup"}
FifoThresholds == {0, 2}

RngTypeOK ==
    /\ short \in 0 .. 1 /\ used \in 0 .. Cap /\ rbg \in 0 .. 1
    /\ bits \in 0 .. Mod - 1 /\ thld \in Thresholds \cup {0}
    /\ fthld \in FifoThresholds /\ words \in 0 .. Cap \div 4
    /\ status \subseteq Irqs /\ enable \subseteq Irqs /\ line \in 0 .. 1
    /\ pending \in Seq(0 .. Cap) /\ given \in 0 .. MaxGiven

RngInit ==
    /\ short \in 0 .. 1
    /\ used = 0 /\ rbg = 0 /\ bits = 0 /\ thld = 0 /\ fthld = 0 /\ words = 0
    /\ status = {"startup"} /\ enable = {} /\ line = 0 /\ pending = <<>> /\ given = 0

\* The smaller of two sizes
MIN(a, b) == IF a <= b THEN a ELSE b

\* bcm2838_rng200_update_irq
update_irq(en, st) == IF en \cap st # {} THEN 1 ELSE 0

\* bcm2838_rng200_fill_fifo, with u bytes in the FIFO
fill_fifo(u) == Append(pending, Cap - u)
-----------------------------------------------------------------------------
Taken(n) == MIN(n, Cap - used)

\* The whole delivery is refused if it would reach the threshold.
Fits(num) == (bits + 8 * num) % Mod < thld

Announce(st) == update_irq(enable, st)

\* bcm2838_rng200_update_fifo: the backend delivers n bytes for its oldest request.
update_fifo ==
    /\ pending # <<>>
    /\ \E n \in IF short = 1 THEN 0 .. Head(pending) ELSE {Head(pending)} :
          LET num == Taken(n)
              u == IF Fits(num) THEN used + num ELSE used
              st == IF Fits(num) /\ u > fthld THEN status \cup {"total"} ELSE status
          IN  /\ used' = u /\ status' = st /\ words' = u \div 4
              /\ bits' = IF Fits(num) THEN (bits + 8 * num) % Mod ELSE bits
              /\ given' = IF Fits(num) THEN MIN(MaxGiven, given + num) ELSE given
              /\ line' = Announce(st)
    /\ pending' = Tail(pending)
    /\ UNCHANGED <<rbg, thld, fthld, enable>>

M_ReadRequest_None(u) == pending
ReadRequest(u) == fill_fifo(u)

ReadCount(u) == u \div 4

\* bcm2838_rng200_read_fifo_data: up to four bytes, and more are asked for.
read_fifo_data ==
    /\ Len(pending) < MaxPending
    /\ LET u == used - MIN(used, 4)
       IN  used' = u /\ words' = ReadCount(u) /\ pending' = ReadRequest(u)
    /\ UNCHANGED <<rbg, bits, thld, fthld, status, enable, line, given>>

\* bcm2838_rng200_enable_rbg
enable_rbg == bits' = WarmUp /\ given' = 0 /\ pending' = fill_fifo(used)

\* bcm2838_rng200_ctrl_write
ctrl_write(v) ==
    /\ rbg' = v
    /\ IF rbg = 0 /\ v = 1 THEN Len(pending) < MaxPending /\ enable_rbg
       ELSE UNCHANGED <<bits, given, pending>>
    /\ UNCHANGED <<used, thld, fthld, words, status, enable, line>>

\* bcm2838_rng200_rng_reset, by RNG_SOFT_RESET or the machine's reset
rng_reset ==
    /\ used' = 0 /\ rbg' = 0 /\ bits' = 0 /\ thld' = 0 /\ fthld' = 0 /\ words' = 0
    /\ status' = {"startup"} /\ enable' = {}
    /\ UNCHANGED <<line, pending, given>>

IntStatusWrite(v) ==
    /\ status' = status \ v /\ line' = update_irq(enable, status')
    /\ UNCHANGED <<used, rbg, bits, thld, fthld, words, enable, pending, given>>

IntEnableWrite(v) ==
    /\ enable' = v /\ line' = update_irq(v, status)
    /\ UNCHANGED <<used, rbg, bits, thld, fthld, words, status, pending, given>>

\* A write of RNG_FIFO_COUNT puts its COUNT field, zero here, in place as well.
FifoCountWrite(t) ==
    /\ rbg = 0
    /\ fthld' = t /\ words' = 0
    /\ UNCHANGED <<used, rbg, bits, thld, status, enable, line, pending, given>>

ThresholdWrite(v) ==
    /\ rbg = 0
    /\ thld' = v /\ bits' = (v + 1) % Mod
    /\ UNCHANGED <<used, rbg, fthld, words, status, enable, line, pending, given>>

RngNext ==
    /\ \/ update_fifo
       \/ read_fifo_data
       \/ \E v \in 0 .. 1 : ctrl_write(v)
       \/ rng_reset
       \/ \E v \in SUBSET Irqs : IntStatusWrite(v) \/ IntEnableWrite(v)
       \/ \E t \in FifoThresholds : FifoCountWrite(t)
       \/ \E v \in Thresholds : ThresholdWrite(v)
    /\ UNCHANGED short

RngSpec == RngInit /\ [][RngNext]_rng_vars
-----------------------------------------------------------------------------
(* A generator that is on never hands out as many bits as the threshold says, *)
(* whatever was asked for before it was enabled or reset (update_fifo); the   *)
(* thresholds so close to 2^32 that the count wraps first are left out.       *)
BudgetKept ==
    rbg = 1 /\ given > 0 /\ thld < Mod - 8 * Cap => WarmUp + 8 * given < thld

(* COUNT never promises words that the FIFO does not hold, and with nothing   *)
(* under way it says how many there are (read_fifo_data and update_fifo).     *)
CountHonest ==
    /\ 4 * words <= used
    /\ rbg = 1 /\ pending = <<>> => used < 4 * (words + 1)

(* While the budget allows a full FIFO, a guest that finds no word to read    *)
(* has a request under way that will bring some, if the backend answers in    *)
(* full: polling COUNT is enough.                                             *)
NeverDry ==
    short = 0 /\ rbg = 1 /\ words = 0 /\ bits + 8 * Cap < thld => pending # <<>>

(* An enabled interrupt that is pending is on the line, whichever of the      *)
(* delivery, the two registers and the resets came last.                      *)
InterruptShown == enable \cap status # {} => line = 1

(* The random number generator keeps to its bit budget, COUNT promises no     *)
(* word the FIFO does not hold, a guest that polls COUNT has a request under  *)
(* way, and no enabled interrupt is hidden, whatever order reads, resets,     *)
(* register writes and deliveries come in.                                    *)
RngServes ==
    RngTypeOK /\ BudgetKept /\ CountHonest /\ NeverDry /\ InterruptShown
=============================================================================
