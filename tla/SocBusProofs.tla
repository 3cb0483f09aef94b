---------------------------- MODULE SocBusProofs ---------------------------
(***************************************************************************)
(* Theorems about SocBus, for both wrappers, every size of the RAM and of  *)
(* a line, every delay and time-out and every set of accesses.             *)
(*                                                                         *)
(* The answers of three slaves are ored together and steered by two muxes, *)
(* one of them a cycle late, behind a decoder of latches.  What keeps      *)
(* them apart is that a request which is on the bus in one cycle leaves    *)
(* the bus on the same side in the next (SideIsKept), acknowledged or not. *)
(*                                                                         *)
(* That the execution memory is a memory needs a second invariant, MInv:   *)
(* what the RAM holds and what the programs have written, and which write  *)
(* is in the RAM already but not in the history yet.                       *)
(***************************************************************************)
EXTENDS SocBus, TLAPS

\* The words of an address play no part: any integer will do.
SomeAccess == [valid : BOOLEAN, we : BOOLEAN, adr : [side : Side, w : Int], dat : Values]

\* The registers that requests and answers pass through have their types.
BusTypes ==
  /\ req \in [Masters -> SomeAccess] /\ beat \in Int
  /\ grant \in Masters /\ sel_r \in Side
  /\ held_c \in SomeAccess /\ held_m \in SomeAccess
  /\ ready \in BOOLEAN /\ ack_m \in BOOLEAN /\ ack_o \in BOOLEAN

\* A latched request was on the bus a cycle ago, so the bus is still on its
\* side.
LatchesFollow ==
  /\ held_c.valid => shared.adr.side = "c"
  /\ held_m.valid => shared.adr.side = "m"

\* An answer given now was asked for a cycle ago.
AnswersFollow ==
  /\ ready => shared.adr.side = "c" /\ sel_r = "c"
  /\ ack_m => shared.adr.side = "m" /\ sel_r = "m"
  /\ ack_o => shared.adr.side = "o" /\ sel_r = "o"

Counts == count \in 0 .. Timeout /\ delayed_count \in 0 .. Delay

IInv == BusTypes /\ LatchesFollow /\ AnswersFollow /\ Counts /\ MemoryIsInTime

-----------------------------------------------------------------------------
\* An access of the data bus or the debug bridge is an access.
LEMMA AccessTyped ==
  ASSUME NEW m \in {"dbus", "dbg"}, NEW a \in Accesses[m]
  PROVE  a \in SomeAccess
<1>1. a \in Access
  BY BusAssumption
<1>2. QED
  BY <1>1, BusAssumption DEF Access, Address, SomeAccess

\* The idle request is one.
LEMMA NoAccessTyped == NoAccess \in SomeAccess
  BY BusAssumption DEF NoAccess, SomeAccess, At, Side

\* An idle master still shows an address of the same side.
LEMMA IdleTyped ==
  ASSUME NEW a \in SomeAccess
  PROVE  Idle(a) \in SomeAccess /\ Idle(a).adr.side = a.adr.side
  BY NoAccessTyped DEF Idle, NoAccess, SomeAccess

\* What a single-access master shows next is well formed, and on the same
\* side as long as it has a request.
LEMMA SingleStep ==
  ASSUME BusTypes, NEW m \in {"dbus", "dbg"}, NEW r \in SingleNext(m)
  PROVE  r \in SomeAccess /\ (req[m].valid => r.adr.side = req[m].adr.side)
<1>1. req[m] \in SomeAccess
  BY DEF BusTypes, Masters
<1>2. CASE req[m].valid
  <2>1. r = req[m] \/ r = Idle(req[m])
    BY <1>2 DEF SingleNext, Abandons
  <2>2. QED
    BY <1>1, <2>1, IdleTyped
<1>3. CASE ~req[m].valid
  <2>1. r \in Accesses[m] \/ \E a \in Accesses[m] : r = Idle(a)
    BY <1>3 DEF SingleNext
  <2>2. r \in SomeAccess
    BY <2>1, AccessTyped, IdleTyped
  <2>3. QED
    BY <1>3, <2>2
<1>4. QED
  BY <1>2, <1>3

\* Another word of the same side is an address of that side.
LEMMA Readdressed ==
  ASSUME NEW q \in SomeAccess, NEW w \in Int
  PROVE  LET a == [q EXCEPT !.adr = At(q.adr.side, w)]
             b == [q EXCEPT !.valid = FALSE, !.adr = At(q.adr.side, w)] IN
         /\ a \in SomeAccess /\ a.adr.side = q.adr.side
         /\ b \in SomeAccess /\ b.adr.side = q.adr.side
<1>1. q.adr.side \in Side /\ At(q.adr.side, w) \in [side : Side, w : Int]
  BY DEF SomeAccess, At
<1>2. At(q.adr.side, w).side = q.adr.side
  BY DEF At
<1>3. QED
  BY <1>1, <1>2 DEF SomeAccess

\* The same of the instruction bus, which stays on the side of its line.
LEMMA FetchStep ==
  ASSUME BusTypes, NEW r \in FetchNext
  PROVE  /\ r \in SomeAccess
         /\ req["ibus"].valid => r.adr.side = req["ibus"].adr.side
<1>1. req["ibus"] \in SomeAccess /\ beat \in Int
  BY DEF BusTypes, Masters
<1>2. CASE ~req["ibus"].valid
  <2>1. r = req["ibus"] \/ \E side \in {"c", "o"}, w \in 0 .. Words - 1 : r = Line(side, w)
    BY <1>2 DEF FetchNext
  <2>2. ASSUME NEW side \in {"c", "o"}, NEW w \in 0 .. Words - 1
        PROVE  Line(side, w) \in SomeAccess
    BY BusAssumption DEF Line, At, SomeAccess, Side
  <2>3. QED
    BY <1>1, <1>2, <2>1, <2>2
<1>3. CASE req["ibus"].valid
  <2>1. \/ r = req["ibus"]
        \/ r = [req["ibus"] EXCEPT !.valid = FALSE, !.adr = At(@.side, @.w - beat)]
        \/ r = [req["ibus"] EXCEPT !.adr = At(@.side, @.w + 1)]
    BY <1>3 DEF FetchNext
  <2>2. req["ibus"].adr.w - beat \in Int /\ req["ibus"].adr.w + 1 \in Int
    BY <1>1 DEF SomeAccess
  <2>3. CASE r = req["ibus"]
    BY <1>1, <2>3
  <2>4. CASE r = [req["ibus"] EXCEPT !.valid = FALSE, !.adr = At(@.side, @.w - beat)]
    BY <1>1, <2>2, <2>4, Readdressed, Zenon
  <2>5. CASE r = [req["ibus"] EXCEPT !.adr = At(@.side, @.w + 1)]
    BY <1>1, <2>2, <2>5, Readdressed, Zenon
  <2>6. QED
    BY <2>1, <2>3, <2>4, <2>5
<1>4. QED
  BY <1>2, <1>3

\* While the bus carries a request its holder keeps the grant, and the next
\* cycle's address is on the same side.
LEMMA SideIsKept ==
  ASSUME BusTypes, Next, shared.valid
  PROVE  shared'.adr.side = shared.adr.side
<1>1. grant' = grant
  BY DEF Next, ArbiterClock, shared
<1>2. PICK i \in FetchNext, d \in SingleNext("dbus"), g \in SingleNext("dbg") :
        req' = [ibus |-> i, dbus |-> d, dbg |-> g]
  BY DEF Next, MastersClock
<1>3. grant \in Masters
  BY DEF BusTypes
<1>4. CASE grant = "ibus"
  BY <1>1, <1>2, <1>4, FetchStep DEF shared
<1>5. CASE grant = "dbus"
  BY <1>1, <1>2, <1>5, SingleStep DEF shared
<1>6. CASE grant = "dbg"
  BY <1>1, <1>2, <1>6, SingleStep DEF shared
<1>7. QED
  BY <1>3, <1>4, <1>5, <1>6 DEF Masters

\* The request on the bus, and what the decoder makes of it, are well formed.
LEMMA DecoderTyped ==
  ASSUME BusTypes
  PROVE  /\ shared \in SomeAccess /\ wbs \in SomeAccess
         /\ wbs_c \in SomeAccess /\ wbs_m \in SomeAccess
         /\ wbs.adr = shared.adr
         /\ wbs.valid <=> shared.valid /\ shared.adr.side \in {"c", "m"}
<1>1. shared \in SomeAccess
  BY DEF BusTypes, shared
<1>2. Mprj(shared.adr.side) \in BOOLEAN
  BY DEF Mprj
<1>3. /\ wbs \in SomeAccess /\ wbs.adr = shared.adr
      /\ wbs.valid <=> shared.valid /\ Mprj(shared.adr.side)
  BY <1>1, <1>2 DEF wbs, SomeAccess
<1>4. [wbs EXCEPT !.valid = FALSE] \in SomeAccess
  BY <1>3 DEF SomeAccess
<1>5. Unselected(held_c) \in SomeAccess /\ Unselected(held_m) \in SomeAccess
  BY <1>4 DEF Unselected, BusTypes
<1>6. QED
  BY <1>1, <1>3, <1>5 DEF wbs_c, wbs_m, Mprj

\* A side sees a request only while that request is on the bus.
LEMMA DecoderIsTrue ==
  ASSUME BusTypes, LatchesFollow
  PROVE  /\ wbs_c.valid => shared.valid /\ shared.adr.side = "c"
         /\ wbs_m.valid => shared.valid /\ shared.adr.side = "m"
<1>0. /\ Unselected(held_c).valid => held_c.valid
      /\ Unselected(held_m).valid => held_m.valid
  <2>1. ~[wbs EXCEPT !.valid = FALSE].valid
    BY DecoderTyped DEF SomeAccess
  <2>2. QED
    BY <2>1 DEF Unselected
<1>1. wbs_c.valid => shared.valid /\ shared.adr.side = "c"
  BY <1>0, DecoderTyped DEF wbs_c, LatchesFollow
<1>2. wbs_m.valid => shared.valid /\ shared.adr.side = "m"
  <2>1. CASE shared.adr.side = "c"
    BY <1>0, <2>1 DEF wbs_m, LatchesFollow
  <2>2. CASE shared.adr.side # "c"
    BY <2>2, DecoderTyped DEF wbs_m
  <2>3. QED
    BY <2>1, <2>2
<1>3. QED
  BY <1>1, <1>2

\* The types are kept by an edge.
LEMMA TypesStep ==
  ASSUME BusTypes, Next
  PROVE  BusTypes'
<1>1. req' \in [Masters -> SomeAccess]
  <2>1. PICK i \in FetchNext, d \in SingleNext("dbus"), g \in SingleNext("dbg") :
          req' = [ibus |-> i, dbus |-> d, dbg |-> g]
    BY DEF Next, MastersClock
  <2>2. i \in SomeAccess /\ d \in SomeAccess /\ g \in SomeAccess
    BY FetchStep, SingleStep
  <2>3. QED
    BY <2>1, <2>2 DEF Masters
<1>2. beat' \in Int
  BY BusAssumption DEF Next, MastersClock, BusTypes
<1>3. grant' \in Masters
  BY DEF Next, ArbiterClock, After, BusTypes, Masters
<1>4. sel_r' \in Side
  BY DecoderTyped DEF Next, SomeAccess
<1>5. held_c' \in SomeAccess /\ held_m' \in SomeAccess
  BY DecoderTyped, NoAccessTyped DEF Next, DecoderClock
<1>6. ready' \in BOOLEAN
  BY DecoderTyped DEF Next, ReadyClock, SomeAccess
<1>7. ack_m' \in BOOLEAN /\ ack_o' \in BOOLEAN
  BY DEF Next, OthersClock
<1>8. QED
  BY <1>1, <1>2, <1>3, <1>4, <1>5, <1>6, <1>7 DEF BusTypes

\* After an edge the latches hold nothing, or what is still addressed.
LEMMA LatchesStep ==
  ASSUME BusTypes, LatchesFollow, Next
  PROVE  LatchesFollow'
<1>1. (held_c'.valid => wbs_c.valid) /\ (held_m'.valid => wbs_m.valid)
  BY DEF Next, DecoderClock, NoAccess
<1>2. held_c'.valid => shared'.adr.side = "c"
  BY <1>1, DecoderIsTrue, SideIsKept
<1>3. held_m'.valid => shared'.adr.side = "m"
  BY <1>1, DecoderIsTrue, SideIsKept
<1>4. QED
  BY <1>2, <1>3 DEF LatchesFollow

\* After an edge an answer belongs to the side still addressed.
LEMMA AnswersStep ==
  ASSUME BusTypes, LatchesFollow, Next
  PROVE  AnswersFollow'
<1>1. sel_r' = shared.adr.side
  BY DEF Next
<1>2. ready' => shared'.adr.side = "c" /\ sel_r' = "c"
  <2>1. ready' => wbs_c.valid
    BY DEF Next, ReadyClock
  <2>2. QED
    BY <1>1, <2>1, DecoderIsTrue, SideIsKept
<1>3. ack_m' => shared'.adr.side = "m" /\ sel_r' = "m"
  <2>1. ack_m' => wbs_m.valid
    BY DEF Next, OthersClock
  <2>2. QED
    BY <1>1, <2>1, DecoderIsTrue, SideIsKept
<1>4. ack_o' => shared'.adr.side = "o" /\ sel_r' = "o"
  <2>1. ack_o' => shared.valid /\ ~Mprj(shared.adr.side)
    BY DEF Next, OthersClock
  <2>2. shared.adr.side \in Side
    BY DecoderTyped DEF SomeAccess
  <2>3. QED
    BY <1>1, <2>1, <2>2, SideIsKept DEF Mprj, Side
<1>5. QED
  BY <1>2, <1>3, <1>4 DEF AnswersFollow

\* The delay of either memory is within that of lab 4, and stays what it is.
LEMMA DelayTyped ==
  /\ Delay \in Nat /\ Timeout \in Nat /\ Timeout > Delay + 1
  /\ Next => Delay' = Delay
<1>1. Delay = DELAYS \/ Delay = 0
  BY DEF Delay
<1>2. Next => Delay' = Delay
  BY DEF Next, Delay
<1>3. QED
  BY <1>1, <1>2, BusAssumption

\* The counters of the time-out and of the memory stay in their ranges.
LEMMA CountsStep ==
  ASSUME BusTypes, Counts, Next
  PROVE  Counts'
<1>1. count' \in 0 .. Timeout
  <2>1. CASE shared.valid /\ ~shared_ack
    <3>1. count # 0
      BY <2>1 DEF shared_ack, done
    <3>2. count' = count - 1
      BY <2>1 DEF Next, TimeoutClock
    <3>3. QED
      BY <3>1, <3>2, BusAssumption DEF Counts
  <2>2. CASE ~(shared.valid /\ ~shared_ack)
    BY <2>2, BusAssumption DEF Next, TimeoutClock
  <2>3. QED
    BY <2>1, <2>2
<1>2. delayed_count' \in 0 .. Delay
  BY DelayTyped DEF Next, ReadyClock, Counts
<1>3. QED
  BY <1>1, <1>2, DelayTyped DEF Counts

\* In a cycle without an answer the bus and the memory both get one closer;
\* in any other cycle the bus winds its counter up again.
LEMMA InTimeStep ==
  ASSUME BusTypes, Counts, MemoryIsInTime, Next
  PROVE  MemoryIsInTime'
<1>1. SUFFICES ASSUME shared'.valid, shared'.adr.side = "c"
               PROVE  count' > (IF ready' THEN 0 ELSE Delay - delayed_count' + 1)
  BY DelayTyped DEF MemoryIsInTime
<1>2. Counts'
  BY CountsStep
<1>3. CASE shared.valid /\ ~shared_ack
  <2>1. shared.adr.side = "c"
    BY <1>1, <1>3, SideIsKept
  <2>2. ~ready /\ count' = count - 1
    BY <1>3, <2>1 DEF shared_ack, wbs_ack_o, Answering, Next, TimeoutClock
  <2>3. wbs_c.valid = TRUE
    BY <1>3, <2>1, DecoderTyped DEF wbs_c, SomeAccess
  <2>4. count > Delay - delayed_count + 1
    BY <1>3, <2>1, <2>2 DEF MemoryIsInTime
  <2>5. CASE delayed_count = Delay
    <3>1. ready'
      BY <2>2, <2>3, <2>5 DEF Next, ReadyClock
    <3>2. QED
      BY <2>2, <2>4, <2>5, <3>1, DelayTyped DEF Counts
  <2>6. CASE delayed_count # Delay
    <3>1. ~ready' /\ delayed_count' = delayed_count + 1
      BY <2>2, <2>3, <2>6 DEF Next, ReadyClock
    <3>2. QED
      BY <2>2, <2>4, <3>1, DelayTyped DEF Counts
  <2>7. QED
    BY <2>5, <2>6
<1>4. CASE ~(shared.valid /\ ~shared_ack)
  <2>1. count' = Timeout
    BY <1>4 DEF Next, TimeoutClock
  <2>2. delayed_count' \in 0 .. Delay
    BY <1>2, DelayTyped DEF Counts
  <2>3. Timeout > 0 /\ Timeout > Delay - delayed_count' + 1
    <3>1. Delay \in Nat /\ Timeout \in Nat /\ Timeout > Delay + 1
      BY DelayTyped
    <3>2. ASSUME NEW d \in 0 .. Delay PROVE Timeout > 0 /\ Timeout > Delay - d + 1
      BY <3>1
    <3>3. QED
      BY <2>2, <3>2
  <2>4. QED
    BY <2>1, <2>3
<1>5. QED
  BY <1>3, <1>4

\* IInv is an inductive invariant of the bus.
THEOREM Invariance == Spec => []IInv
<1>1. Init => IInv
  <2>1. SUFFICES ASSUME Init PROVE IInv
    OBVIOUS
  <2>2. BusTypes
    <3>1. req \in [Masters -> SomeAccess] /\ held_c \in SomeAccess /\ held_m \in SomeAccess
      BY <2>1, NoAccessTyped DEF Init
    <3>2. beat \in Int /\ grant \in Masters /\ sel_r \in Side
      BY <2>1 DEF Init, Masters, Side
    <3>3. ready \in BOOLEAN /\ ack_m \in BOOLEAN /\ ack_o \in BOOLEAN
      BY <2>1 DEF Init
    <3>4. QED
      BY <3>1, <3>2, <3>3 DEF BusTypes
  <2>3. ~NoAccess.valid
    BY DEF NoAccess
  <2>4. LatchesFollow /\ AnswersFollow
    BY <2>1, <2>3 DEF Init, LatchesFollow, AnswersFollow
  <2>5. Counts /\ MemoryIsInTime
    BY <2>1, <2>3, DelayTyped DEF Init, Counts, MemoryIsInTime, shared
  <2>6. QED
    BY <2>2, <2>4, <2>5 DEF IInv
<1>2. IInv /\ [Next]_vars => IInv'
  <2> SUFFICES ASSUME IInv, [Next]_vars PROVE IInv'
    OBVIOUS
  <2>1. CASE Next
    BY <2>1, TypesStep, LatchesStep, AnswersStep, CountsStep, InTimeStep DEF IInv
  <2>2. CASE UNCHANGED vars
    <3>1. (BusTypes /\ LatchesFollow /\ AnswersFollow)'
      BY <2>2 DEF vars, busVars, memVars, IInv, BusTypes, LatchesFollow, AnswersFollow, shared
    <3>2. (Counts /\ MemoryIsInTime)'
      BY <2>2 DEF vars, busVars, memVars, IInv, Counts, MemoryIsInTime, shared, Delay
    <3>3. QED
      BY <3>1, <3>2 DEF IInv
  <2>3. QED
    BY <2>1, <2>2
<1>3. QED
  BY <1>1, <1>2, PTL DEF Spec

\* The latches of the decoder (user_project_wrapper.v:157) never show a slave
\* a request that is not on the bus.
THEOREM DecoderHasNoGhosts == Spec => []NoGhostRequest
<1>1. IInv => NoGhostRequest
  <2>1. SUFFICES ASSUME IInv PROVE NoGhostRequest
    OBVIOUS
  <2>2. BusTypes /\ LatchesFollow
    BY <2>1 DEF IInv
  <2>3. shared.valid /\ shared.adr.side \in {"c", "m"} => wbs = shared
    <3>1. shared \in SomeAccess
      BY <2>2, DecoderTyped
    <3>2. QED
      BY <3>1 DEF wbs, Mprj, SomeAccess
  <2>4. wbs_c.valid => shared.valid /\ wbs_c = shared
    BY <2>2, <2>3, DecoderIsTrue DEF wbs_c
  <2>5. wbs_m.valid => shared.valid /\ wbs_m = shared
    BY <2>2, <2>3, DecoderIsTrue DEF wbs_m
  <2>6. QED
    BY <2>4, <2>5 DEF NoGhostRequest
<1>2. QED
  BY <1>1, Invariance, PTL

\* The acknowledgements that mgmt_core.v:4895 ors together, and the data that
\* its registered select steers, are those of the slave addressed.
THEOREM AnswersReachTheirMaster == Spec => []AnswersAreOwn
<1>1. IInv => AnswersAreOwn
  <2>1. SUFFICES ASSUME IInv, shared.valid, shared_ack, ~done
                 PROVE  /\ shared_dat_r.from = shared.adr.side
                        /\ shared.adr.side = "c" <=> ready
                        /\ shared.adr.side = "m" <=> ack_m
                        /\ shared.adr.side = "o" <=> ack_o
    BY DEF AnswersAreOwn
  <2>2. BusTypes /\ AnswersFollow
    BY <2>1 DEF IInv
  <2>3. shared.adr.side \in Side /\ ready \in BOOLEAN /\ ack_m \in BOOLEAN /\ ack_o \in BOOLEAN
    BY <2>2, DecoderTyped DEF SomeAccess, BusTypes
  <2>4. wbs_ack_o \/ ack_o
    BY <2>1 DEF shared_ack
  <2>5. CASE shared.adr.side = "c"
    BY <2>1, <2>2, <2>3, <2>4, <2>5 DEF wbs_ack_o, Answering, AnswersFollow, shared_dat_r, Mprj
  <2>6. CASE shared.adr.side = "m"
    BY <2>1, <2>2, <2>3, <2>4, <2>6 DEF wbs_ack_o, Answering, AnswersFollow, shared_dat_r, Mprj
  <2>7. CASE shared.adr.side = "o"
    BY <2>1, <2>2, <2>3, <2>4, <2>7 DEF wbs_ack_o, Answering, AnswersFollow, shared_dat_r, Mprj
  <2>8. QED
    BY <2>3, <2>5, <2>6, <2>7 DEF Side
<1>2. QED
  BY <1>1, Invariance, PTL

\* The counter of the execution memory (user_proj_example.counter.v:97) always
\* gets there before that of the bus (mgmt_core.v:7172).
THEOREM MemoryAnswersInTime == Spec => []MemoryIsInTime
<1>1. IInv => MemoryIsInTime
  BY DEF IInv
<1>2. QED
  BY <1>1, Invariance, PTL
-----------------------------------------------------------------------------
(* The execution memory is a memory. *)

\* Every request names a word that is used, and the instruction bus is at word
\* beat of a line that begins at a multiple of LineLen.
Addressed ==
  /\ \A m \in Masters : req[m].adr.w \in 0 .. Words - 1
  /\ beat \in 0 .. LineLen - 1 /\ (~req["ibus"].valid => beat = 0)
  /\ req["ibus"].adr.w - beat \in {v \in 0 .. Words - 1 : v % LineLen = 0}

\* The access on the bus, when it writes word w of the execution memory.
Writing(w) == shared.valid /\ shared.we /\ shared.adr = At("c", w)

\* The RAM holds what was last written to each word; only the word that is
\* being written may be ahead, for it is written in every cycle of the access
\* and counts when the access ends.
RamHolds ==
  /\ ram \in [0 .. RamSize - 1 -> Values]
  /\ golden \in [0 .. Words - 1 -> Values]
  /\ \A w \in 0 .. Words - 1 : ram[w] = golden[w] \/ (Writing(w) /\ ram[w] = shared.dat)

\* A read is answered with the word it still addresses.
AnswerIsRead ==
  ready /\ shared.valid /\ ~shared.we => Do0 = ram[shared.adr.w]

MInv == Addressed /\ RamHolds /\ AnswerIsRead

\* A line that begins below Words ends below it.
LEMMA LineFits ==
  ASSUME NEW v \in 0 .. Words - 1, v % LineLen = 0
  PROVE  v + LineLen <= Words
<1>1. Words \in Nat \ {0} /\ LineLen \in Nat \ {0} /\ Words % LineLen = 0
  BY BusAssumption
<1>2. v = LineLen * (v \div LineLen) /\ Words = LineLen * (Words \div LineLen)
  BY <1>1
<1>3. v \div LineLen \in Int /\ Words \div LineLen \in Int
  BY <1>1
<1>4. v \div LineLen < Words \div LineLen
  <2>1. ASSUME v \div LineLen >= Words \div LineLen PROVE FALSE
    <3>1. LineLen * (v \div LineLen) >= LineLen * (Words \div LineLen)
      BY <1>1, <1>3, <2>1
    <3>2. QED
      BY <1>1, <1>2, <3>1
  <2>2. QED
    BY <2>1, <1>3
<1>5. v \div LineLen + 1 <= Words \div LineLen
  BY <1>3, <1>4
<1>6. LineLen * (v \div LineLen + 1) <= LineLen * (Words \div LineLen)
  BY <1>1, <1>3, <1>5
<1>7. LineLen * (v \div LineLen + 1) = LineLen * (v \div LineLen) + LineLen
  BY <1>1, <1>3
<1>8. QED
  BY <1>1, <1>2, <1>6, <1>7

\* Below the size of the RAM an address is its own remainder.
LEMMA RamAddress ==
  ASSUME NEW w \in 0 .. Words - 1
  PROVE  w % RamSize = w /\ w \in 0 .. RamSize - 1
<1>1. Words \in Nat /\ RamSize \in Nat \ {0} /\ Words <= RamSize
  BY BusAssumption, FitAssumption
<1>2. w \in Nat /\ w < RamSize
  BY <1>1
<1>3. QED
  BY <1>1, <1>2

\* The accesses of the data bus and the debug bridge name words that are used.
LEMMA SingleAddressed ==
  ASSUME Addressed, BusTypes, NEW m \in {"dbus", "dbg"}, NEW r \in SingleNext(m)
  PROVE  r.adr.w \in 0 .. Words - 1 /\ r.dat \in Values
<1>1. req[m] \in SomeAccess /\ req[m].adr.w \in 0 .. Words - 1
  BY DEF BusTypes, Masters, Addressed
<1>2. ASSUME NEW a \in Accesses[m] PROVE a.adr.w \in 0 .. Words - 1 /\ a \in SomeAccess
  BY BusAssumption, AccessTyped DEF Access, Address
<1>3. ASSUME NEW a \in SomeAccess PROVE Idle(a).adr = a.adr
  BY <1>3, NoAccessTyped DEF Idle, NoAccess, SomeAccess
<1>4. r \in {req[m], Idle(req[m])} \/ r \in Accesses[m] \/ \E a \in Accesses[m] : r = Idle(a)
  BY DEF SingleNext, Abandons
<1>5. r.adr.w \in 0 .. Words - 1
  BY <1>1, <1>2, <1>3, <1>4
<1>6. r \in SomeAccess
  BY SingleStep
<1>7. QED
  BY <1>5, <1>6 DEF SomeAccess

\* The instruction bus goes through its line word by word and is back at its
\* beginning when it ends.
LEMMA FetchAddressed ==
  ASSUME Addressed, BusTypes, NEW r \in FetchNext,
         beat' = IF req["ibus"].valid /\ Acked("ibus") THEN (beat + 1) % LineLen ELSE beat
  PROVE  /\ r.adr.w \in 0 .. Words - 1
         /\ beat' \in 0 .. LineLen - 1 /\ (~r.valid => beat' = 0)
         /\ r.adr.w - beat' \in {v \in 0 .. Words - 1 : v % LineLen = 0}
<1> DEFINE q == req["ibus"]
           Starts == {v \in 0 .. Words - 1 : v % LineLen = 0}
<1>1. q \in SomeAccess /\ q.adr.w \in 0 .. Words - 1 /\ q.adr.w - beat \in Starts
  BY DEF BusTypes, Masters, Addressed
<1>2. beat \in 0 .. LineLen - 1 /\ (~q.valid => beat = 0)
  BY DEF Addressed
<1>3. Words \in Nat \ {0} /\ LineLen \in Nat \ {0}
  BY BusAssumption
<1>4. q.adr.w - beat + LineLen <= Words
  BY <1>1, LineFits
<1>5. q.adr = At(q.adr.side, q.adr.w)
  BY <1>1 DEF SomeAccess, At
<1>6. CASE ~q.valid
  <2>1. beat' = 0
    BY <1>2, <1>6
  <2>2. r = q \/ \E side \in {"c", "o"}, w \in Starts : r = Line(side, w)
    BY <1>6 DEF FetchNext
  <2>3. r.adr.w \in Starts
    BY <1>1, <1>2, <1>6, <2>2 DEF Line, At
  <2>4. r.adr.w \in 0 .. Words - 1 /\ r.adr.w - beat' = r.adr.w
    BY <1>3, <2>1, <2>3
  <2>5. beat' \in 0 .. LineLen - 1
    BY <1>3, <2>1
  <2>6. QED
    BY <2>1, <2>3, <2>4, <2>5
<1>7. CASE q.valid /\ ~Acked("ibus")
  BY <1>1, <1>2, <1>7 DEF FetchNext
<1>8. CASE q.valid /\ Acked("ibus") /\ beat = LineLen - 1
  <2>1. beat' = 0
    <3>1. beat' = (beat + 1) % LineLen
      BY <1>8
    <3>2. beat + 1 = LineLen
      BY <1>3, <1>8
    <3>3. LineLen % LineLen = 0
      BY <1>3
    <3>4. QED
      BY <3>1, <3>2, <3>3
  <2>2. r = [q EXCEPT !.valid = FALSE, !.adr = At(q.adr.side, q.adr.w - beat)]
    BY <1>8 DEF FetchNext
  <2>3. r.adr.w = q.adr.w - beat
    BY <1>1, <2>2 DEF SomeAccess, At
  <2>4. QED
    BY <1>1, <1>3, <2>1, <2>3
<1>9. CASE q.valid /\ Acked("ibus") /\ beat # LineLen - 1
  <2>1. beat' = beat + 1
    <3>1. beat' = (beat + 1) % LineLen
      BY <1>9
    <3>2. beat + 1 \in 0 .. LineLen - 1
      BY <1>2, <1>3, <1>9
    <3>3. QED
      BY <1>3, <3>1, <3>2
  <2>2. r = [q EXCEPT !.adr = At(q.adr.side, q.adr.w + 1)]
    BY <1>9 DEF FetchNext
  <2>3. r.adr.w = q.adr.w + 1 /\ r.valid
    BY <1>1, <1>9, <2>2 DEF SomeAccess, At
  <2>4. q.adr.w + 1 \in 0 .. Words - 1
    BY <1>1, <1>2, <1>3, <1>4, <1>9
  <2>5. QED
    BY <1>1, <1>2, <1>3, <1>9, <2>1, <2>3, <2>4
<1>10. QED
  BY <1>6, <1>7, <1>8, <1>9

\* The addresses stay in range over an edge.
LEMMA AddressedStep ==
  ASSUME Addressed, BusTypes, Next
  PROVE  Addressed'
<1>1. PICK i \in FetchNext, d \in SingleNext("dbus"), g \in SingleNext("dbg") :
        req' = [ibus |-> i, dbus |-> d, dbg |-> g]
  BY DEF Next, MastersClock
<1>2. beat' = IF req["ibus"].valid /\ Acked("ibus") THEN (beat + 1) % LineLen ELSE beat
  BY DEF Next, MastersClock
<1>3. /\ i.adr.w \in 0 .. Words - 1
      /\ beat' \in 0 .. LineLen - 1 /\ (~i.valid => beat' = 0)
      /\ i.adr.w - beat' \in {v \in 0 .. Words - 1 : v % LineLen = 0}
  BY <1>2, FetchAddressed
<1>4. d.adr.w \in 0 .. Words - 1 /\ g.adr.w \in 0 .. Words - 1
  BY SingleAddressed
<1>5. QED
  BY <1>1, <1>3, <1>4 DEF Addressed, Masters

\* What the memory sees of an access to it.
LEMMA MemoryPort ==
  ASSUME IInv, Addressed
  PROVE  /\ wbs_c.valid => shared.valid /\ wbs_c = shared /\ shared.adr.side = "c"
         /\ shared.valid /\ shared.adr.side = "c" => wbs_c = shared
         /\ shared.adr.w \in 0 .. Words - 1 /\ shared.dat \in Values
<1>1. BusTypes /\ LatchesFollow
  BY DEF IInv
<1>2. shared \in SomeAccess
  BY <1>1, DecoderTyped
<1>3. shared.valid /\ shared.adr.side = "c" => wbs_c = shared
  BY <1>2 DEF wbs_c, wbs, Mprj, SomeAccess
<1>4. wbs_c.valid => shared.valid /\ shared.adr.side = "c"
  BY <1>1, DecoderIsTrue
<1>5. shared.adr.w \in 0 .. Words - 1
  BY <1>1 DEF Addressed, BusTypes, shared
<1>6. QED
  BY <1>2, <1>3, <1>4, <1>5 DEF SomeAccess

\* A request that has no answer yet stays as it is, or is taken back.
LEMMA HeldOrEnded ==
  ASSUME BusTypes, Next, shared.valid, ~shared_ack
  PROVE  grant' = grant /\ (req'[grant] = shared \/ ~req'[grant].valid)
<1>1. grant' = grant
  BY DEF Next, ArbiterClock, shared
<1>2. PICK i \in FetchNext, d \in SingleNext("dbus"), g \in SingleNext("dbg") :
        req' = [ibus |-> i, dbus |-> d, dbg |-> g]
  BY DEF Next, MastersClock
<1>3. ~Acked("ibus") /\ ~Acked("dbus") /\ ~Acked("dbg")
  BY DEF Acked
<1>4. grant \in Masters /\ req[grant] \in SomeAccess
  BY DEF BusTypes
<1>5. ~Idle(req[grant]).valid
  BY <1>4, NoAccessTyped DEF Idle, NoAccess
<1>6. CASE grant = "ibus"
  <2>1. req["ibus"].valid
    BY <1>6 DEF shared
  <2>2. FetchNext = {req["ibus"]}
    BY <1>3, <2>1 DEF FetchNext
  <2>3. i = req["ibus"] /\ req'[grant] = i
    BY <1>2, <1>6, <2>2
  <2>4. QED
    BY <1>1, <1>6, <2>3 DEF shared
<1>7. ASSUME NEW m \in {"dbus", "dbg"}, NEW r \in SingleNext(m), grant = m
      PROVE  r = shared \/ ~r.valid
  <2>1. req[m].valid /\ ~Acked(m)
    BY <1>3, <1>7 DEF shared
  <2>2. r \in {req[m], Idle(req[m])}
    BY <2>1 DEF SingleNext, Abandons
  <2>3. req[m] = shared /\ ~Idle(req[m]).valid
    BY <1>5, <1>7 DEF shared
  <2>4. QED
    BY <2>2, <2>3
<1>8. CASE grant = "dbus"
  <2>1. req'[grant] = d
    BY <1>2, <1>8
  <2>2. d = shared \/ ~d.valid
    BY <1>7, <1>8
  <2>3. QED
    BY <1>1, <2>1, <2>2
<1>9. CASE grant = "dbg"
  <2>1. req'[grant] = g
    BY <1>2, <1>9
  <2>2. g = shared \/ ~g.valid
    BY <1>7, <1>9
  <2>3. QED
    BY <1>1, <2>1, <2>2
<1>10. QED
  BY <1>1, <1>4, <1>6, <1>8, <1>9 DEF Masters

\* An access to the execution memory is answered by its ready alone.
LEMMA OnlyReadyAnswers ==
  ASSUME IInv, shared.valid, shared.adr.side = "c"
  PROVE  ~done /\ (shared_ack <=> ready)
<1>1. ~ack_o
  BY DEF IInv, AnswersFollow
<1>2. count > 0
  BY DelayTyped DEF IInv, Counts, MemoryIsInTime
<1>3. QED
  BY <1>1, <1>2 DEF IInv, BusTypes, shared_ack, wbs_ack_o, Answering, done

\* A write reaches its word in its first cycle and no other word ever; it is
\* counted when it ends.
LEMMA RamHoldsStep ==
  ASSUME IInv, MInv, Next
  PROVE  RamHolds'
<1> DEFINE a == shared.adr.w
           Writes == shared.valid /\ shared.we /\ shared.adr.side = "c"
           Ends == shared_ack \/ ~req'[grant].valid
<1>1. /\ Words \in Nat \ {0} /\ RamSize \in Nat \ {0} /\ Words <= RamSize
      /\ ram \in [0 .. RamSize - 1 -> Values] /\ golden \in [0 .. Words - 1 -> Values]
  BY BusAssumption, FitAssumption DEF MInv, RamHolds
<1>2. a \in 0 .. Words - 1 /\ shared.dat \in Values /\ shared \in SomeAccess /\ a \in 0 .. RamSize - 1
  BY MemoryPort, RamAddress, DecoderTyped DEF MInv, IInv
<1>3. ram' = IF Writes THEN [ram EXCEPT ![a] = shared.dat] ELSE ram
  <2>1. ram' = IF wbs_c.valid /\ wbs_c.we THEN [ram EXCEPT ![A0] = wbs_c.dat] ELSE ram
    BY DEF Next, RamClock
  <2>2. wbs_c.valid /\ wbs_c.we <=> Writes
    BY MemoryPort DEF MInv
  <2>3. Writes => wbs_c = shared /\ A0 = a
    BY MemoryPort, <1>2, RamAddress DEF MInv, A0
  <2>4. QED
    BY <2>1, <2>2, <2>3
<1>4. golden' = IF Writes /\ Ends THEN [golden EXCEPT ![a] = shared.dat] ELSE golden
  BY DEF Next, History
<1>5. ram' \in [0 .. RamSize - 1 -> Values] /\ golden' \in [0 .. Words - 1 -> Values]
  BY <1>1, <1>2, <1>3, <1>4
<1>6. ASSUME NEW w \in 0 .. Words - 1
      PROVE  ram'[w] = golden'[w] \/ (Writing(w)' /\ ram'[w] = shared'.dat)
  <2>1. w \in 0 .. RamSize - 1
    BY <1>1
  <2>2. CASE Writes /\ w = a /\ Ends
    BY <1>1, <1>2, <1>3, <1>4, <2>1, <2>2
  <2>3. CASE Writes /\ w = a /\ ~Ends
    <3>1. shared' = shared
      BY <2>3, HeldOrEnded DEF IInv, shared
    <3>2. shared.adr = At("c", w)
      BY <1>2, <2>3 DEF At, SomeAccess
    <3>3. ram'[w] = shared.dat
      BY <1>1, <1>3, <2>1, <2>3
    <3>4. QED
      BY <3>1, <3>2, <3>3, <2>3 DEF Writing
  <2>4. CASE ~(Writes /\ w = a)
    <3>1. ~Writing(w)
      BY <1>2, <2>4 DEF Writing, At
    <3>2. ram[w] = golden[w]
      BY <3>1 DEF MInv, RamHolds
    <3>3. ram'[w] = ram[w] /\ golden'[w] = golden[w]
      BY <1>1, <1>3, <1>4, <2>1, <2>4
    <3>4. QED
      BY <3>2, <3>3
  <2>5. QED
    BY <2>2, <2>3, <2>4
<1>7. QED
  BY <1>5, <1>6 DEF RamHolds

\* The edge that raises ready has read the word, and the access is still the
\* same one.
LEMMA AnswerIsReadStep ==
  ASSUME IInv, MInv, Next
  PROVE  AnswerIsRead'
<1>1. SUFFICES ASSUME ready', shared'.valid, ~shared'.we
               PROVE  Do0' = ram'[shared'.adr.w]
  BY DEF AnswerIsRead
<1>2. wbs_c.valid /\ ~ready
  BY <1>1 DEF Next, ReadyClock
<1>3. shared.valid /\ wbs_c = shared /\ shared.adr.side = "c" /\ shared.adr.w \in 0 .. Words - 1
  BY <1>2, MemoryPort DEF MInv
<1>4. ~shared_ack
  BY <1>2, <1>3, OnlyReadyAnswers
<1>5. shared' = shared
  BY <1>1, <1>3, <1>4, HeldOrEnded DEF IInv, shared
<1>6. A0 = shared.adr.w
  BY <1>3, RamAddress DEF A0
<1>7. Do0' = ram[shared.adr.w] /\ ram' = ram
  BY <1>1, <1>2, <1>3, <1>5, <1>6 DEF Next, RamClock
<1>8. QED
  BY <1>5, <1>7

\* MInv holds in every reachable state.
THEOREM MemoryInvariance == Spec => []MInv
<1>1. Init => MInv
  <2> SUFFICES ASSUME Init PROVE MInv
    OBVIOUS
  <2>1. Words \in Nat \ {0} /\ LineLen \in Nat \ {0} /\ 0 \in Values /\ RamSize \in Nat \ {0}
    BY BusAssumption
  <2>2. /\ \A m \in Masters : req[m] = NoAccess
        /\ beat = 0 /\ ~ready /\ shared = NoAccess
        /\ ram = [a \in 0 .. RamSize - 1 |-> 0] /\ golden = [w \in 0 .. Words - 1 |-> 0]
    BY DEF Init, shared, Masters
  <2>3. NoAccess.adr.w = 0 /\ ~NoAccess.valid
    BY DEF NoAccess, At
  <2>4. 0 % LineLen = 0
    BY <2>1
  <2>5. Addressed
    <3>1. \A m \in Masters : req[m].adr.w = 0 /\ ~req[m].valid
      BY <2>2, <2>3
    <3>2. req["ibus"].adr.w - beat = 0
      BY <2>2, <3>1 DEF Masters
    <3>3. 0 \in 0 .. Words - 1 /\ 0 \in 0 .. LineLen - 1
      BY <2>1
    <3>4. QED
      BY <2>2, <2>4, <3>1, <3>2, <3>3 DEF Addressed
  <2>6. RamHolds
    BY <2>1, <2>2, FitAssumption DEF RamHolds
  <2>7. QED
    BY <2>2, <2>5, <2>6 DEF MInv, AnswerIsRead
<1>2. IInv /\ MInv /\ [Next]_vars => MInv'
  <2> SUFFICES ASSUME IInv, MInv, [Next]_vars PROVE MInv'
    OBVIOUS
  <2>1. CASE Next
    BY <2>1, AddressedStep, RamHoldsStep, AnswerIsReadStep DEF MInv, IInv
  <2>2. CASE UNCHANGED vars
    BY <2>2 DEF vars, busVars, memVars, MInv, Addressed, RamHolds, Writing, AnswerIsRead, shared
  <2>3. QED
    BY <2>1, <2>2
<1>3. QED
  BY <1>1, <1>2, Invariance, PTL DEF Spec

\* The RAM behind three masters, two wrappers, time-outs and abandoned
\* accesses (bram.v, exmem.v, user_proj_example.counter.v) is a memory: a read
\* returns what was last written to its word.
THEOREM MemoryIsMemory == Spec => []ReadsSeeLastWrite
<1>1. IInv /\ MInv => ReadsSeeLastWrite
  <2>1. SUFFICES ASSUME IInv, MInv, shared.valid, ~shared.we, shared.adr.side = "c", shared_ack
                 PROVE  shared_dat_r = [from |-> "c", val |-> golden[shared.adr.w]]
    BY DEF ReadsSeeLastWrite
  <2>2. ready /\ ~done
    BY <2>1, OnlyReadyAnswers
  <2>3. sel_r = "c"
    BY <2>1, <2>2 DEF IInv, AnswersFollow
  <2>4. shared_dat_r = [from |-> "c", val |-> Do0]
    BY <2>1, <2>2, <2>3 DEF shared_dat_r, Answering, Mprj
  <2>5. shared.adr.w \in 0 .. Words - 1
    BY <2>1, MemoryPort DEF MInv
  <2>6. Do0 = golden[shared.adr.w]
    BY <2>1, <2>2, <2>5 DEF MInv, RamHolds, AnswerIsRead, Writing
  <2>7. QED
    BY <2>4, <2>6
<1>2. QED
  BY <1>1, Invariance, MemoryInvariance, PTL
=============================================================================
