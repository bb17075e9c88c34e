---------------------------- MODULE FlashTiming ----------------------------
(***************************************************************************)
(* The time stamps of the emulated flash (ssd_io_manager.c): when each     *)
(* channel, each chip and each block's NVRAM segment is next available,    *)
(* and the latencies computed from them, for the requests of the host and  *)
(* for the garbage collections that run inside them.                       *)
(*                                                                         *)
(* Time.  A stamp is the time left until it is reached, 0 when it has      *)
(* passed: every function of the code takes the later of the stamp and the *)
(* clock, so that a stamp that has passed and the clock are the same to    *)
(* it, and what it returns is the time left until the stamp it sets.  All  *)
(* calls are made by one thread, each reads the clock itself, and time     *)
(* passes between any two of them.                                         *)
(***************************************************************************)
EXTENDS Integers

CONSTANTS
  FLASH_NB, CHANNEL_NB, BLOCK_NB,
  REG_WRITE_DELAY, CELL_PROGRAM_DELAY, REG_READ_DELAY, CELL_READ_DELAY,
  BLOCK_ERASE_DELAY,
  NvramTimes,   \* how long the accesses to a block's NVRAM segments take
  Slots,        \* room for the operations in flight (a bound)
  Free,
  MaxBacklog    \* no operation is issued while a stamp is further away (a bound)

ASSUME TimingAssumption ==
  /\ FLASH_NB \in Nat \ {0} /\ CHANNEL_NB \in Nat \ {0} /\ BLOCK_NB \in Nat \ {0}
  /\ REG_WRITE_DELAY \in Nat /\ CELL_PROGRAM_DELAY \in Nat \ {0}
  /\ REG_READ_DELAY \in Nat /\ CELL_READ_DELAY \in Nat \ {0}
  /\ BLOCK_ERASE_DELAY \in Nat \ {0}
  /\ NvramTimes \subseteq Nat /\ MaxBacklog \in Nat

Flash   == 0 .. FLASH_NB - 1
Channel == 0 .. CHANNEL_NB - 1
Block   == 0 .. BLOCK_NB - 1

\* What the flash does for one call: the transfer on the channel, and the time
\* the chip is taken.
Job == [op : {"read", "write", "partial", "erase"}, flash : Flash,
        x0 : Nat, x1 : Nat, c0 : Nat, c1 : Nat]

ASSUME FreeAssumption == Free \notin Job

VARIABLES
  chnl,    \* chnl_next_avail_time
  chip,    \* chip_next_avail_time
  nvram,   \* nvram_next_avail_time
  gc,      \* where the thread is, and the locals of SB_GARBAGE_COLLECTION
  jobs     \* history: the calls whose work is not over

vars == <<chnl, chip, nvram, gc, jobs>>

Pcs == {"idle", "check", "block", "copy", "program", "erase"}

TypeOK ==
  /\ chnl \in [Channel -> Nat] /\ chip \in [Flash -> Nat] /\ nvram \in [Block -> Nat]
  /\ gc \in [pc : Pcs, flash : Nat, blocking_time : Nat, oob : Nat]
  /\ jobs \in [Slots -> Job \cup {Free}]

\* SSD_IO_INIT
Init ==
  /\ chnl = [c \in Channel |-> 0] /\ chip = [f \in Flash |-> 0]
  /\ nvram = [b \in Block |-> 0]
  /\ gc = [pc |-> "idle", flash |-> 0, blocking_time |-> 0, oob |-> 0]
  /\ jobs = [s \in Slots |-> Free]

----------------------------------------------------------------------------
(* The operations of the flash *)

Later(a, b) == IF a < b THEN b ELSE a
Ch(f) == f % CHANNEL_NB

SSD_PAGE_WRITE_early(f) ==
  LET x1 == chnl[Ch(f)] + REG_WRITE_DELAY IN
  [op |-> "write", flash |-> f, x0 |-> chnl[Ch(f)], x1 |-> x1,
   c0 |-> x1, c1 |-> x1 + CELL_PROGRAM_DELAY]

\* The data are transferred when the channel is available, and programmed when
\* the chip is.
SSD_PAGE_WRITE(f) ==
  LET x1 == chnl[Ch(f)] + REG_WRITE_DELAY
      c0 == Later(x1, chip[f]) IN
  [op |-> "write", flash |-> f, x0 |-> chnl[Ch(f)], x1 |-> x1,
   c0 |-> c0, c1 |-> c0 + CELL_PROGRAM_DELAY]

\* A page of which the host writes a part: what SSD_PAGE_WRITE does, to the chip
\* of the old page.  The chip of the new one is not taken.
SSD_PAGE_PARTIAL_WRITE(old, new) == [SSD_PAGE_WRITE(old) EXCEPT !.op = "partial"]

\* The cells are read when the chip is available; it is then taken until the
\* data have been transferred.
SSD_PAGE_READ(f) ==
  LET x0 == Later(chip[f] + CELL_READ_DELAY, chnl[Ch(f)])
      x1 == x0 + REG_READ_DELAY IN
  [op |-> "read", flash |-> f, x0 |-> x0, x1 |-> x1, c0 |-> chip[f], c1 |-> x1]

\* The chip erases a block; the channel has to be available but is not taken.
SSD_BLOCK_ERASE(f) ==
  LET c0 == Later(chnl[Ch(f)], chip[f]) IN
  [op |-> "erase", flash |-> f, x0 |-> chnl[Ch(f)], x1 |-> chnl[Ch(f)],
   c0 |-> c0, c1 |-> c0 + BLOCK_ERASE_DELAY]

\* Every function ends by setting the stamps to the end of its work.
Stamp(j, s) ==
  /\ jobs[s] = Free
  /\ jobs' = [jobs EXCEPT ![s] = j]
  /\ chnl' = [chnl EXCEPT ![Ch(j.flash)] = j.x1]
  /\ chip' = [chip EXCEPT ![j.flash] = j.c1]

NvramAfter(b, need_time) == [nvram EXCEPT ![b] = @ + need_time]

\* The bound on what is in flight.
Room ==
  /\ \A c \in Channel : chnl[c] <= MaxBacklog
  /\ \A f \in Flash : chip[f] <= MaxBacklog
  /\ \A b \in Block : nvram[b] <= MaxBacklog

----------------------------------------------------------------------------
(* Requests of the host *)

\* A page of _FTL_READ.
ReadPage(f, s) ==
  /\ gc.pc = "idle" /\ Room
  /\ Stamp(SSD_PAGE_READ(f), s)
  /\ UNCHANGED <<nvram, gc>>

\* A page of _FTL_WRITE, whole or, where there was an old one, in part.
WritePage(old, new, partial, s) ==
  /\ gc.pc \in {"idle", "check"} /\ Room
  /\ Stamp(IF partial THEN SSD_PAGE_PARTIAL_WRITE(old, new) ELSE SSD_PAGE_WRITE(new), s)
  /\ gc' = [gc EXCEPT !.pc = "check"]
  /\ UNCHANGED nvram

\* UPDATE_NVRAM_TS, for a page that is remapped and for NVRAM_OOB_GC.
RemapPage(b, need_time) ==
  /\ gc.pc \in {"idle", "check"} /\ Room
  /\ nvram' = NvramAfter(b, need_time)
  /\ UNCHANGED <<chnl, chip, gc, jobs>>

\* GC_CHECK has nothing to collect, or nothing more.
GcDone ==
  /\ gc.pc = "check"
  /\ gc' = [gc EXCEPT !.pc = "idle"]
  /\ UNCHANGED <<chnl, chip, nvram, jobs>>

----------------------------------------------------------------------------
(* SB_GARBAGE_COLLECTION *)

\* The victim's entries are read from the NVRAM; need_time is 0 when there are
\* none.
GcStart(b, need_time) ==
  /\ gc.pc = "check" /\ Room
  /\ nvram' = IF need_time = 0 THEN nvram ELSE NvramAfter(b, need_time)
  /\ gc' = [pc |-> "block", flash |-> 0,
            blocking_time |-> IF need_time = 0 THEN 0 ELSE nvram'[b],
            oob |-> IF need_time = 0 THEN 0 ELSE nvram'[b]]
  /\ UNCHANGED <<chnl, chip, jobs>>

UPDATE_FLASH_TS_idle(need_time) ==
  [f \in Flash |-> IF chip[f] = 0 THEN need_time ELSE chip[f]]

\* Every chip is pushed back.
UPDATE_FLASH_TS(need_time) == [f \in Flash |-> chip[f] + need_time]

GcBlock ==
  /\ gc.pc = "block"
  /\ chip' = IF gc.blocking_time > 0 THEN UPDATE_FLASH_TS(gc.blocking_time) ELSE chip
  /\ gc' = [gc EXCEPT !.pc = "copy"]
  /\ UNCHANGED <<chnl, nvram, jobs>>

\* The flashes of the victim are copied from in turn ...
GcReadPage(f, s) ==
  /\ gc.pc = "copy" /\ f >= gc.flash /\ Room
  /\ Stamp(SSD_PAGE_READ(f), s)
  /\ gc' = [gc EXCEPT !.pc = "program", !.flash = f]
  /\ UNCHANGED nvram

\* ... to a page anywhere; the sharers it keeps in the NVRAM are written.
GcWritePage(f, b, need_time, s) ==
  /\ gc.pc = "program"
  /\ Stamp(SSD_PAGE_WRITE(f), s)
  /\ nvram' = NvramAfter(b, need_time)
  /\ gc' = [gc EXCEPT !.pc = "copy"]

GcCopied ==
  /\ gc.pc = "copy"
  /\ gc' = [gc EXCEPT !.pc = "erase", !.flash = 0]
  /\ UNCHANGED <<chnl, chip, nvram, jobs>>

GcErase(s) ==
  /\ gc.pc = "erase"
  /\ Stamp(SSD_BLOCK_ERASE(gc.flash), s)
  /\ gc' = IF gc.flash = FLASH_NB - 1 THEN [gc EXCEPT !.pc = "check", !.flash = 0]
                                      ELSE [gc EXCEPT !.flash = @ + 1]
  /\ UNCHANGED nvram

----------------------------------------------------------------------------

LessNegative(t) == t - 1
Less(t) == IF t = 0 THEN 0 ELSE t - 1

\* The clock.
Tick ==
  /\ chnl' = [c \in Channel |-> Less(chnl[c])]
  /\ chip' = [f \in Flash |-> Less(chip[f])]
  /\ nvram' = [b \in Block |-> Less(nvram[b])]
  /\ gc' = [gc EXCEPT !.oob = Less(@)]
  /\ jobs' = [s \in Slots |->
                IF jobs[s] = Free THEN Free
                ELSE IF jobs[s].c1 <= 1 THEN Free
                ELSE [op |-> jobs[s].op, flash |-> jobs[s].flash,
                      x0 |-> Less(jobs[s].x0), x1 |-> Less(jobs[s].x1),
                      c0 |-> Less(jobs[s].c0), c1 |-> Less(jobs[s].c1)]]

Collect ==
  \/ \E b \in Block, d \in NvramTimes \cup {0} : GcStart(b, d)
  \/ GcBlock
  \/ \E f \in Flash, s \in Slots : GcReadPage(f, s)
  \/ \E f \in Flash, b \in Block, d \in NvramTimes \cup {0}, s \in Slots : GcWritePage(f, b, d, s)
  \/ GcCopied
  \/ \E s \in Slots : GcErase(s)
  \/ GcDone

Next ==
  \/ \E f \in Flash, s \in Slots : ReadPage(f, s)
  \/ \E old, new \in Flash, partial \in BOOLEAN, s \in Slots : WritePage(old, new, partial, s)
  \/ \E b \in Block, d \in NvramTimes : RemapPage(b, d)
  \/ Collect
  \/ Tick

Spec == Init /\ [][Next]_vars

----------------------------------------------------------------------------
(* Properties *)

\* A chip does one thing at a time, and keeps the data it has read until the
\* channel has taken them; a channel makes one transfer at a time.  The stamps of
\* reads, writes, erases and collections never let two calls overlap.
NoOverlap ==
  \A s, t \in Slots :
    LET i == jobs[s]  j == jobs[t] IN
    s # t /\ i # Free /\ j # Free =>
      /\ i.flash = j.flash => i.c1 <= j.c0 \/ j.c1 <= i.c0
      /\ Ch(i.flash) = Ch(j.flash) => i.x1 <= j.x0 \/ j.x1 <= i.x0

\* A collection first reads the victim's entries from the NVRAM: no chip starts
\* to read, program or erase for it before that is over.
CollectionAfterOob ==
  [][gc.pc \in {"copy", "program", "erase"} =>
       \A s \in Slots : jobs[s] = Free /\ jobs'[s] # Free => jobs'[s].c0 >= gc.oob]_vars
=============================================================================
