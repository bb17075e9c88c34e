------------------------- MODULE FlashTimingProofs -------------------------
(***************************************************************************)
(* The chips and channels are never taken twice at a time, and a           *)
(* collection waits for the NVRAM, on every device and for all delays.     *)
(***************************************************************************)
EXTENDS FlashTiming, TLAPS

\* The stamps are not before the end of any call in flight, and no chip is
\* available to a collection before the NVRAM has been read.
TimingInv ==
  /\ TypeOK
  /\ \A s \in Slots : jobs[s] # Free =>
       /\ jobs[s].c1 <= chip[jobs[s].flash]
       /\ jobs[s].x1 <= chnl[Ch(jobs[s].flash)]
  /\ NoOverlap
  /\ gc.oob <= gc.blocking_time
  /\ gc.pc \in {"copy", "program", "erase"} => \A f \in Flash : chip[f] >= gc.oob
  /\ gc.pc = "erase" => gc.flash \in Flash

\* Every chip has a channel.
LEMMA ChannelOf ==
  ASSUME NEW f \in Flash
  PROVE  Ch(f) \in Channel
BY TimingAssumption DEF Ch, Flash, Channel

\* A job of a call: it starts when its chip and its channel are available, or
\* later, and its times are in order.
Booked(j) ==
  /\ j \in Job
  /\ j.x0 >= chnl[Ch(j.flash)] /\ j.x1 >= j.x0
  /\ j.c0 >= chip[j.flash] /\ j.c1 >= j.c0

\* The four functions book what the chip and the channel have free.
LEMMA FunctionsBook ==
  ASSUME TypeOK, NEW f \in Flash, NEW g \in Flash
  PROVE  /\ Booked(SSD_PAGE_READ(f)) /\ Booked(SSD_PAGE_WRITE(f))
         /\ Booked(SSD_PAGE_PARTIAL_WRITE(f, g)) /\ Booked(SSD_BLOCK_ERASE(f))
<1>1. chip[f] \in Nat /\ chnl[Ch(f)] \in Nat
  BY ChannelOf DEF TypeOK
<1>2. Booked(SSD_PAGE_READ(f))
  BY <1>1, TimingAssumption DEF Booked, Job, SSD_PAGE_READ, Later
<1>3. Booked(SSD_PAGE_WRITE(f))
  BY <1>1, TimingAssumption DEF Booked, Job, SSD_PAGE_WRITE, Later
<1>4. Booked(SSD_PAGE_PARTIAL_WRITE(f, g))
  BY <1>1, TimingAssumption DEF Booked, Job, SSD_PAGE_PARTIAL_WRITE, SSD_PAGE_WRITE, Later
<1>5. Booked(SSD_BLOCK_ERASE(f))
  BY <1>1, TimingAssumption DEF Booked, Job, SSD_BLOCK_ERASE, Later
<1>6. QED
  BY <1>2, <1>3, <1>4, <1>5

\* The part of the invariant that is about the jobs.
JobsInv ==
  /\ chnl \in [Channel -> Nat] /\ chip \in [Flash -> Nat] /\ jobs \in [Slots -> Job \cup {Free}]
  /\ \A s \in Slots : jobs[s] # Free =>
       /\ jobs[s].c1 <= chip[jobs[s].flash]
       /\ jobs[s].x1 <= chnl[Ch(jobs[s].flash)]
  /\ NoOverlap

\* Stamping a job keeps the invariant and delays chips only.
LEMMA StampKeeps ==
  ASSUME JobsInv, NEW j, Booked(j), NEW s \in Slots, Stamp(j, s)
  PROVE  /\ JobsInv'
         /\ \A f \in Flash : chip'[f] >= chip[f]
         /\ \A t \in Slots : jobs[t] = Free /\ jobs'[t] # Free => jobs'[t].c0 >= chip[j.flash]
<1> USE DEF Stamp
<1>1. j \in Job /\ j # Free /\ j.flash \in Flash /\ Ch(j.flash) \in Channel
      /\ j.x0 \in Nat /\ j.x1 \in Nat /\ j.c0 \in Nat /\ j.c1 \in Nat
  BY ChannelOf, FreeAssumption DEF Booked, Job
<1>2. /\ chnl' \in [Channel -> Nat] /\ chip' \in [Flash -> Nat]
      /\ jobs' \in [Slots -> Job \cup {Free}]
  BY <1>1 DEF JobsInv
<1>3. /\ \A f \in Flash : chip'[f] = IF f = j.flash THEN j.c1 ELSE chip[f]
      /\ \A c \in Channel : chnl'[c] = IF c = Ch(j.flash) THEN j.x1 ELSE chnl[c]
      /\ \A t \in Slots : jobs'[t] = IF t = s THEN j ELSE jobs[t]
  BY DEF JobsInv
<1>4. j.c1 >= chip[j.flash] /\ j.x1 >= chnl[Ch(j.flash)]
  BY <1>1 DEF Booked, JobsInv
<1>5. \A f \in Flash : chip'[f] >= chip[f]
  BY <1>1, <1>2, <1>3, <1>4 DEF JobsInv
<1>6. \A c \in Channel : chnl'[c] >= chnl[c]
  BY <1>1, <1>2, <1>3, <1>4 DEF JobsInv
<1>7. ASSUME NEW t \in Slots, jobs'[t] # Free
      PROVE  jobs'[t].c1 <= chip'[jobs'[t].flash] /\ jobs'[t].x1 <= chnl'[Ch(jobs'[t].flash)]
  <2>1. CASE t = s
    BY <2>1, <1>1, <1>3
  <2>2. CASE t # s
    <3>1. jobs'[t] = jobs[t] /\ jobs[t] \in Job
      BY <2>2, <1>3, <1>7 DEF JobsInv
    <3>2. jobs[t].flash \in Flash /\ Ch(jobs[t].flash) \in Channel
          /\ jobs[t].c1 \in Nat /\ jobs[t].x1 \in Nat
      BY <3>1, ChannelOf DEF Job
    <3>3. jobs[t].c1 <= chip[jobs[t].flash] /\ jobs[t].x1 <= chnl[Ch(jobs[t].flash)]
      BY <3>1, <1>7 DEF JobsInv
    <3>4. chip'[jobs[t].flash] \in Nat /\ chip[jobs[t].flash] \in Nat
          /\ chnl'[Ch(jobs[t].flash)] \in Nat /\ chnl[Ch(jobs[t].flash)] \in Nat
      BY <3>2, <1>2 DEF JobsInv
    <3>5. chip'[jobs[t].flash] >= chip[jobs[t].flash]
          /\ chnl'[Ch(jobs[t].flash)] >= chnl[Ch(jobs[t].flash)]
      BY <3>2, <1>5, <1>6
    <3>6. QED
      BY <3>1, <3>2, <3>3, <3>4, <3>5
  <2>3. QED
    BY <2>1, <2>2
<1>8. ASSUME NEW t \in Slots, t # s, jobs[t] # Free
      PROVE  /\ jobs[t].flash = j.flash => jobs[t].c1 <= j.c0
             /\ Ch(jobs[t].flash) = Ch(j.flash) => jobs[t].x1 <= j.x0
  <2>1. jobs[t] \in Job /\ jobs[t].flash \in Flash /\ jobs[t].c1 \in Nat /\ jobs[t].x1 \in Nat
    BY <1>8 DEF JobsInv, Job
  <2>2. jobs[t].c1 <= chip[jobs[t].flash] /\ jobs[t].x1 <= chnl[Ch(jobs[t].flash)]
    BY <1>8 DEF JobsInv
  <2>3. chip[j.flash] \in Nat /\ chnl[Ch(j.flash)] \in Nat
    BY <1>1 DEF JobsInv
  <2>4. j.c0 >= chip[j.flash] /\ j.x0 >= chnl[Ch(j.flash)]
    BY DEF Booked
  <2>5. QED
    BY <1>1, <2>1, <2>2, <2>3, <2>4
<1>9. NoOverlap'
  <2> SUFFICES ASSUME NEW a \in Slots, NEW b \in Slots, a # b, jobs'[a] # Free, jobs'[b] # Free
               PROVE  /\ jobs'[a].flash = jobs'[b].flash =>
                           jobs'[a].c1 <= jobs'[b].c0 \/ jobs'[b].c1 <= jobs'[a].c0
                      /\ Ch(jobs'[a].flash) = Ch(jobs'[b].flash) =>
                           jobs'[a].x1 <= jobs'[b].x0 \/ jobs'[b].x1 <= jobs'[a].x0
    BY DEF NoOverlap, Ch
  <2>1. CASE a = s
    BY <2>1, <1>3, <1>8
  <2>2. CASE b = s
    BY <2>2, <1>3, <1>8
  <2>3. CASE a # s /\ b # s
    BY <2>3, <1>3 DEF JobsInv, NoOverlap
  <2>4. QED
    BY <2>1, <2>2, <2>3
<1>10. \A t \in Slots : jobs[t] = Free /\ jobs'[t] # Free => jobs'[t].c0 >= chip[j.flash]
  BY <1>3 DEF Booked
<1>11. JobsInv'
  BY <1>2, <1>7, <1>9 DEF JobsInv
<1>12. QED
  BY <1>5, <1>10, <1>11

\* Time lets the jobs, the stamps and the waiting of a collection go down
\* together.
LEMMA TickKeeps ==
  ASSUME TimingInv, Tick
  PROVE  TimingInv'
<1> USE DEF Tick
<1>1. \A t \in Nat : Less(t) \in Nat
  BY DEF Less
<1>2. \A t, u \in Nat : t <= u => Less(t) <= Less(u)
  BY DEF Less
<1>3. ASSUME NEW s \in Slots, jobs'[s] # Free
      PROVE  /\ jobs[s] # Free /\ jobs[s] \in Job /\ jobs'[s] \in Job
             /\ jobs'[s].flash = jobs[s].flash /\ jobs[s].flash \in Flash
             /\ jobs'[s].x0 = Less(jobs[s].x0) /\ jobs'[s].x1 = Less(jobs[s].x1)
             /\ jobs'[s].c0 = Less(jobs[s].c0) /\ jobs'[s].c1 = Less(jobs[s].c1)
             /\ jobs[s].x0 \in Nat /\ jobs[s].x1 \in Nat
             /\ jobs[s].c0 \in Nat /\ jobs[s].c1 \in Nat
  <2>1. jobs[s] # Free /\ jobs[s] \in Job
    BY <1>3 DEF TimingInv, TypeOK
  <2>2. jobs'[s] = [op |-> jobs[s].op, flash |-> jobs[s].flash,
                    x0 |-> Less(jobs[s].x0), x1 |-> Less(jobs[s].x1),
                    c0 |-> Less(jobs[s].c0), c1 |-> Less(jobs[s].c1)]
    BY <1>3, <2>1
  <2>3. QED
    BY <2>1, <2>2, <1>1 DEF Job
<1>4. TypeOK'
  <2>1. chnl' \in [Channel -> Nat] /\ chip' \in [Flash -> Nat] /\ nvram' \in [Block -> Nat]
    BY <1>1 DEF TimingInv, TypeOK
  <2>2. gc' \in [pc : Pcs, flash : Nat, blocking_time : Nat, oob : Nat]
    BY <1>1 DEF TimingInv, TypeOK
  <2>3. jobs' \in [Slots -> Job \cup {Free}]
    BY <1>3
  <2>4. QED
    BY <2>1, <2>2, <2>3 DEF TypeOK
<1>5. \A s \in Slots : jobs'[s] # Free =>
        jobs'[s].c1 <= chip'[jobs'[s].flash] /\ jobs'[s].x1 <= chnl'[Ch(jobs'[s].flash)]
  <2> SUFFICES ASSUME NEW s \in Slots, jobs'[s] # Free
               PROVE  jobs'[s].c1 <= chip'[jobs'[s].flash] /\ jobs'[s].x1 <= chnl'[Ch(jobs'[s].flash)]
    OBVIOUS
  <2>1. jobs[s].c1 <= chip[jobs[s].flash] /\ jobs[s].x1 <= chnl[Ch(jobs[s].flash)]
    BY <1>3 DEF TimingInv
  <2>2. chip[jobs[s].flash] \in Nat /\ chnl[Ch(jobs[s].flash)] \in Nat
    BY <1>3, ChannelOf DEF TimingInv, TypeOK
  <2>3. chip'[jobs[s].flash] = Less(chip[jobs[s].flash])
        /\ chnl'[Ch(jobs[s].flash)] = Less(chnl[Ch(jobs[s].flash)])
    BY <1>3, ChannelOf
  <2>4. QED
    BY <1>2, <1>3, <2>1, <2>2, <2>3
<1>6. NoOverlap'
  <2> SUFFICES ASSUME NEW a \in Slots, NEW b \in Slots, a # b, jobs'[a] # Free, jobs'[b] # Free
               PROVE  /\ jobs'[a].flash = jobs'[b].flash =>
                           jobs'[a].c1 <= jobs'[b].c0 \/ jobs'[b].c1 <= jobs'[a].c0
                      /\ Ch(jobs'[a].flash) = Ch(jobs'[b].flash) =>
                           jobs'[a].x1 <= jobs'[b].x0 \/ jobs'[b].x1 <= jobs'[a].x0
    BY DEF NoOverlap, Ch
  <2>1. /\ jobs[a].flash = jobs[b].flash =>
             jobs[a].c1 <= jobs[b].c0 \/ jobs[b].c1 <= jobs[a].c0
        /\ Ch(jobs[a].flash) = Ch(jobs[b].flash) =>
             jobs[a].x1 <= jobs[b].x0 \/ jobs[b].x1 <= jobs[a].x0
    BY <1>3 DEF TimingInv, NoOverlap
  <2>2. QED
    BY <1>2, <1>3, <2>1
<1>7. gc'.pc = gc.pc /\ gc'.flash = gc.flash /\ gc'.blocking_time = gc.blocking_time
      /\ gc'.oob = Less(gc.oob) /\ gc.oob \in Nat /\ gc.blocking_time \in Nat
  BY DEF TimingInv, TypeOK
<1>8. gc'.oob <= gc'.blocking_time
  BY <1>7 DEF TimingInv, Less
<1>9. gc'.pc \in {"copy", "program", "erase"} => \A f \in Flash : chip'[f] >= gc'.oob
  BY <1>2, <1>7 DEF TimingInv, TypeOK
<1>10. gc'.pc = "erase" => gc'.flash \in Flash
  BY <1>7 DEF TimingInv
<1>11. QED
  BY <1>4, <1>5, <1>6, <1>8, <1>9, <1>10 DEF TimingInv

\* A step that stamps a job of one of the functions.
LEMMA CallKeeps ==
  ASSUME TimingInv, NEW j, Booked(j), NEW s \in Slots, Stamp(j, s),
         gc' \in [pc : Pcs, flash : Nat, blocking_time : Nat, oob : Nat],
         gc'.oob = gc.oob, gc'.blocking_time = gc.blocking_time,
         gc'.pc \in {"copy", "program", "erase"} => gc.pc \in {"copy", "program", "erase"},
         gc'.pc = "erase" => gc'.flash \in Flash,
         nvram' \in [Block -> Nat]
  PROVE  TimingInv'
<1>1. JobsInv
  BY DEF TimingInv, TypeOK, JobsInv
<1>2. JobsInv' /\ \A f \in Flash : chip'[f] >= chip[f]
  BY <1>1, StampKeeps
<1>3. \A f \in Flash : chip[f] \in Nat /\ chip'[f] \in Nat
  BY <1>1, <1>2 DEF JobsInv
<1>4. gc.oob \in Nat
  BY DEF TimingInv, TypeOK
<1>5. gc'.pc \in {"copy", "program", "erase"} => \A f \in Flash : chip'[f] >= gc'.oob
  BY <1>2, <1>3, <1>4 DEF TimingInv
<1>6. gc'.oob <= gc'.blocking_time
  BY DEF TimingInv
<1>7. TypeOK'
  BY <1>2 DEF JobsInv, TypeOK
<1>8. QED
  BY <1>2, <1>5, <1>6, <1>7 DEF JobsInv, TimingInv

\* Writes to the NVRAM move its stamps on.
LEMMA NvramType ==
  ASSUME TypeOK, NEW b \in Block, NEW d \in Nat
  PROVE  NvramAfter(b, d) \in [Block -> Nat] /\ NvramAfter(b, d)[b] \in Nat
BY DEF TypeOK, NvramAfter

\* The invariant holds initially.
LEMMA TimingInit ==
  ASSUME Init
  PROVE  TimingInv
BY DEF Init, TimingInv, TypeOK, NoOverlap, Pcs

\* Every step keeps the invariant.
LEMMA TimingStep ==
  ASSUME TimingInv, [Next]_vars
  PROVE  TimingInv'
<1> USE TimingAssumption
<1>0. TypeOK /\ gc \in [pc : Pcs, flash : Nat, blocking_time : Nat, oob : Nat]
      /\ nvram \in [Block -> Nat] /\ NvramTimes \cup {0} \subseteq Nat
  BY DEF TimingInv, TypeOK
<1>1. ASSUME NEW f \in Flash, NEW s \in Slots, ReadPage(f, s)
      PROVE  TimingInv'
  BY <1>0, <1>1, FunctionsBook, CallKeeps DEF ReadPage, TimingInv
<1>2. ASSUME NEW old \in Flash, NEW new \in Flash, NEW partial \in BOOLEAN, NEW s \in Slots,
             WritePage(old, new, partial, s)
      PROVE  TimingInv'
  <2>1. gc' \in [pc : Pcs, flash : Nat, blocking_time : Nat, oob : Nat] /\ gc'.pc = "check"
        /\ gc'.oob = gc.oob /\ gc'.blocking_time = gc.blocking_time /\ nvram' = nvram
    BY <1>0, <1>2 DEF WritePage, Pcs
  <2>2. CASE partial
    <3>1. Stamp(SSD_PAGE_PARTIAL_WRITE(old, new), s) /\ Booked(SSD_PAGE_PARTIAL_WRITE(old, new))
      BY <1>0, <1>2, <2>2, FunctionsBook DEF WritePage
    <3>2. QED
      BY <1>0, <2>1, <3>1, CallKeeps
  <2>3. CASE ~partial
    <3>1. Stamp(SSD_PAGE_WRITE(new), s) /\ Booked(SSD_PAGE_WRITE(new))
      BY <1>0, <1>2, <2>3, FunctionsBook DEF WritePage
    <3>2. QED
      BY <1>0, <2>1, <3>1, CallKeeps
  <2>4. QED
    BY <2>2, <2>3
<1>3. ASSUME NEW b \in Block, NEW d \in NvramTimes, RemapPage(b, d)
      PROVE  TimingInv'
  BY <1>0, <1>3, NvramType DEF RemapPage, TimingInv, TypeOK, NoOverlap, Ch
<1>4. ASSUME NEW b \in Block, NEW d \in NvramTimes \cup {0}, GcStart(b, d)
      PROVE  TimingInv'
  <2>1. nvram' \in [Block -> Nat] /\ nvram'[b] \in Nat
    BY <1>0, <1>4, NvramType DEF GcStart
  <2>2. gc' \in [pc : Pcs, flash : Nat, blocking_time : Nat, oob : Nat]
        /\ gc'.pc = "block" /\ gc'.oob = gc'.blocking_time /\ gc'.oob \in Nat
    BY <1>4, <2>1 DEF GcStart, Pcs
  <2>3. UNCHANGED <<chnl, chip, jobs>>
    BY <1>4 DEF GcStart
  <2>4. QED
    BY <1>0, <2>1, <2>2, <2>3 DEF TimingInv, TypeOK, NoOverlap, Ch
<1>5. CASE GcBlock
  <2>1. chip' \in [Flash -> Nat] /\ (\A f \in Flash : chip'[f] = chip[f] + gc.blocking_time)
        /\ (\A f \in Flash : chip[f] \in Nat)
    BY <1>0, <1>5 DEF GcBlock, UPDATE_FLASH_TS, TypeOK
  <2>2. gc' \in [pc : Pcs, flash : Nat, blocking_time : Nat, oob : Nat]
        /\ gc'.pc = "copy" /\ gc'.oob = gc.oob /\ gc'.blocking_time = gc.blocking_time
        /\ gc.oob \in Nat /\ gc.blocking_time \in Nat
    BY <1>0, <1>5 DEF GcBlock, Pcs
  <2>3. UNCHANGED <<chnl, nvram, jobs>>
    BY <1>5 DEF GcBlock
  <2>4. TypeOK'
    BY <1>0, <2>1, <2>2, <2>3 DEF TypeOK
  <2>5. \A f \in Flash : chip'[f] >= gc'.oob
    BY <2>1, <2>2 DEF TimingInv
  <2>6. \A s \in Slots : jobs'[s] # Free =>
          jobs'[s].c1 <= chip'[jobs'[s].flash] /\ jobs'[s].x1 <= chnl'[Ch(jobs'[s].flash)]
    <3> SUFFICES ASSUME NEW s \in Slots, jobs[s] # Free
                 PROVE  jobs[s].c1 <= chip'[jobs[s].flash] /\ jobs[s].x1 <= chnl[Ch(jobs[s].flash)]
      BY <2>3
    <3>1. jobs[s].flash \in Flash /\ jobs[s].c1 \in Nat /\ jobs[s].c1 <= chip[jobs[s].flash]
      BY DEF TimingInv, TypeOK, Job
    <3>2. QED
      BY <2>1, <2>2, <3>1 DEF TimingInv
  <2>7. NoOverlap'
    BY <2>3 DEF TimingInv, NoOverlap, Ch
  <2>8. QED
    BY <2>2, <2>4, <2>5, <2>6, <2>7 DEF TimingInv
<1>6. ASSUME NEW f \in Flash, NEW s \in Slots, GcReadPage(f, s)
      PROVE  TimingInv'
  <2>1. gc' \in [pc : Pcs, flash : Nat, blocking_time : Nat, oob : Nat] /\ gc'.pc = "program"
        /\ gc'.oob = gc.oob /\ gc'.blocking_time = gc.blocking_time /\ nvram' = nvram
        /\ gc.pc = "copy" /\ Stamp(SSD_PAGE_READ(f), s)
    <3>1. f \in Nat
      BY DEF Flash
    <3>2. QED
      BY <1>0, <1>6, <3>1 DEF GcReadPage, Pcs
  <2>2. QED
    BY <1>0, <2>1, FunctionsBook, CallKeeps
<1>7. ASSUME NEW f \in Flash, NEW b \in Block, NEW d \in NvramTimes \cup {0}, NEW s \in Slots,
             GcWritePage(f, b, d, s)
      PROVE  TimingInv'
  <2>1. gc' \in [pc : Pcs, flash : Nat, blocking_time : Nat, oob : Nat] /\ gc'.pc = "copy"
        /\ gc'.oob = gc.oob /\ gc'.blocking_time = gc.blocking_time
        /\ gc.pc = "program" /\ Stamp(SSD_PAGE_WRITE(f), s)
    BY <1>0, <1>7 DEF GcWritePage, Pcs
  <2>2. nvram' \in [Block -> Nat]
    BY <1>0, <1>7, NvramType DEF GcWritePage
  <2>3. QED
    BY <1>0, <2>1, <2>2, FunctionsBook, CallKeeps
<1>8. CASE GcCopied
  <2>1. gc' \in [pc : Pcs, flash : Nat, blocking_time : Nat, oob : Nat] /\ gc'.pc = "erase"
        /\ gc'.oob = gc.oob /\ gc'.blocking_time = gc.blocking_time /\ gc'.flash = 0
        /\ gc.pc = "copy" /\ UNCHANGED <<chnl, chip, nvram, jobs>>
    BY <1>0, <1>8 DEF GcCopied, Pcs
  <2>2. 0 \in Flash
    BY DEF Flash
  <2>3. QED
    BY <2>1, <2>2 DEF TimingInv, TypeOK, NoOverlap, Ch
<1>9. ASSUME NEW s \in Slots, GcErase(s)
      PROVE  TimingInv'
  <2>1. gc.pc = "erase" /\ gc.flash \in Flash /\ nvram' = nvram
    BY <1>9 DEF GcErase, TimingInv
  <2>2. Stamp(SSD_BLOCK_ERASE(gc.flash), s) /\ Booked(SSD_BLOCK_ERASE(gc.flash))
    BY <1>0, <1>9, <2>1, FunctionsBook DEF GcErase
  <2>3. gc' \in [pc : Pcs, flash : Nat, blocking_time : Nat, oob : Nat]
        /\ gc'.oob = gc.oob /\ gc'.blocking_time = gc.blocking_time
        /\ gc'.pc \in {"check", "erase"} /\ gc'.flash \in Flash
    <3>1. 0 \in Flash /\ Flash \subseteq Nat
          /\ (gc.flash # FLASH_NB - 1 => gc.flash + 1 \in Flash)
      BY <2>1 DEF Flash
    <3>2. CASE gc.flash = FLASH_NB - 1
      BY <1>0, <1>9, <2>1, <3>1, <3>2 DEF GcErase, Pcs
    <3>3. CASE gc.flash # FLASH_NB - 1
      BY <1>0, <1>9, <2>1, <3>1, <3>3 DEF GcErase, Pcs
    <3>4. QED
      BY <3>2, <3>3
  <2>4. QED
    BY <1>0, <2>1, <2>2, <2>3, CallKeeps
<1>10. CASE GcDone
  BY <1>0, <1>10 DEF GcDone, TimingInv, TypeOK, NoOverlap, Ch, Pcs
<1>11. CASE Tick
  BY <1>11, TickKeeps
<1>12. CASE UNCHANGED vars
  BY <1>12 DEF vars, TimingInv, TypeOK, NoOverlap, Ch
<1>13. QED
  BY <1>1, <1>2, <1>3, <1>4, <1>5, <1>6, <1>7, <1>8, <1>9, <1>10, <1>11, <1>12 DEF Next, Collect

\* A new job of a collection starts when its chip is available, and the chips
\* are available only when the NVRAM has been read.
LEMMA CollectionStep ==
  ASSUME TimingInv, [Next]_vars, gc.pc \in {"copy", "program", "erase"},
         NEW t \in Slots, jobs[t] = Free, jobs'[t] # Free
  PROVE  jobs'[t].c0 >= gc.oob
<1>0. TypeOK /\ JobsInv /\ gc.oob \in Nat
  BY DEF TimingInv, TypeOK, JobsInv
<1>1. ASSUME NEW j, Booked(j), NEW s \in Slots, Stamp(j, s)
      PROVE  jobs'[t].c0 >= gc.oob
  <2>1. jobs'[t].c0 >= chip[j.flash]
    BY <1>0, <1>1, StampKeeps
  <2>2. j.flash \in Flash /\ j.c0 \in Nat /\ jobs'[t] = j
    BY <1>0, <1>1 DEF Booked, Job, Stamp, JobsInv
  <2>3. chip[j.flash] >= gc.oob /\ chip[j.flash] \in Nat
    BY <1>0, <2>2 DEF TimingInv, TypeOK
  <2>4. QED
    BY <1>0, <2>1, <2>2, <2>3
<1>2. ASSUME NEW f \in Flash, NEW s \in Slots, GcReadPage(f, s)
      PROVE  jobs'[t].c0 >= gc.oob
  BY <1>0, <1>1, <1>2, FunctionsBook DEF GcReadPage
<1>3. ASSUME NEW f \in Flash, NEW b \in Block, NEW d, NEW s \in Slots, GcWritePage(f, b, d, s)
      PROVE  jobs'[t].c0 >= gc.oob
  BY <1>0, <1>1, <1>3, FunctionsBook DEF GcWritePage
<1>4. ASSUME NEW s \in Slots, GcErase(s)
      PROVE  jobs'[t].c0 >= gc.oob
  <2>1. gc.flash \in Flash
    BY <1>4 DEF GcErase, TimingInv
  <2>2. QED
    BY <1>0, <1>1, <1>4, <2>1, FunctionsBook DEF GcErase
<1>5. CASE Tick
  BY <1>5 DEF Tick
<1>6. CASE GcCopied
  BY <1>6 DEF GcCopied
<1>7. CASE UNCHANGED vars
  BY <1>7 DEF vars
<1>8. QED
  BY <1>2, <1>3, <1>4, <1>5, <1>6, <1>7
     DEF Next, Collect, ReadPage, WritePage, RemapPage, GcStart, GcBlock, GcDone

\* The invariant holds always.
LEMMA TimingInvariant == Spec => []TimingInv
<1>1. Init => TimingInv
  BY TimingInit
<1>2. TimingInv /\ [Next]_vars => TimingInv'
  BY TimingStep
<1>3. QED
  BY <1>1, <1>2, PTL DEF Spec

\* Whatever the delays and the mix of reads, writes, erases and collections, the
\* time stamps of ssd_io_manager.c never let two operations take a chip or a
\* channel at the same time.
THEOREM ExclusiveTheorem == Spec => []NoOverlap
<1>1. TimingInv => NoOverlap
  BY DEF TimingInv
<1>2. QED
  BY <1>1, TimingInvariant, PTL

\* UPDATE_FLASH_TS pushes every chip back far enough: whatever it is doing, none
\* works for a collection before the NVRAM of the victim has been read.
THEOREM CollectionTheorem == Spec => CollectionAfterOob
<1>1. TimingInv /\ [Next]_vars =>
        [gc.pc \in {"copy", "program", "erase"} =>
           \A s \in Slots : jobs[s] = Free /\ jobs'[s] # Free => jobs'[s].c0 >= gc.oob]_vars
  BY CollectionStep
<1>2. QED
  BY <1>1, TimingInvariant, PTL DEF Spec, CollectionAfterOob
=============================================================================
