------------------------------ MODULE CsrProofs ----------------------------
(***************************************************************************)
(* Theorems about Csr, for every bank, every set of registers used in it   *)
(* and every set of words written, and about CsrBuffer, for every width of *)
(* registers and elements.                                                 *)
(*                                                                         *)
(* A field is written in two accesses, with clock edges, events and a      *)
(* restart of the processor free to come between them.  What makes the     *)
(* fields independent all the same is that the register itself does not    *)
(* change between the two (CallIsCurrent); what makes events survive is    *)
(* that the word on its way to the pending register clears nothing that    *)
(* happened since, but for a neighbour of the event it names (ClearIsOld), *)
(* and an event that has no neighbour is never that one (Alone).           *)
(*                                                                         *)
(* Accessors of a wide CSR agree because both cut the same number: what a  *)
(* subregister holds, and what an element holds after any number of        *)
(* subregisters, are certain bytes of it (WordOf, SoFar).                  *)
(***************************************************************************)
EXTENDS Csr, CsrBuffer, NaturalsInduction, WellFoundedInduction, TLAPS

BankTypes ==
  /\ bank \in DOMAIN Software /\ used \in SUBSET DOMAIN Regs
  /\ store = [k \in HwAt("stored") |-> store[k]]

\* A register holds no bit that it has no room for.
StoreFits == \A k \in HwAt("stored") : store[k] \subseteq 0 .. HwRegs[k].width - 1

\* A field write that has read a register finds it unchanged.
CallIsCurrent ==
  call # NoCall =>
    /\ call.reg \in DOMAIN Regs /\ call.field \in DOMAIN Regs[call.reg].fields
    /\ Selected(call.reg) \in HwAt("stored") => call.oldword = store[Selected(call.reg)]

FieldInv == BankTypes /\ StoreFits /\ CallIsCurrent

\* What is about to be cleared happened before it was acknowledged, or is swept
\* away with a neighbour.
ClearIsOld == fresh \cap Cleared \subseteq swept

\* Events are those of the bank's pending register.
OwnEvents == pending \subseteq Events /\ trigger \subseteq Events

\* The event of a register that has no other is not swept, and a field write of
\* that register has read nothing but it.
Alone ==
  Events \subseteq {0} =>
    /\ swept = {}
    /\ call # NoCall /\ Regs[call.reg].name = "ev_pending" => call.oldword \subseteq {0}

EventInv == BankTypes /\ EventsSurvive /\ ClearIsOld /\ OwnEvents /\ Alone

-----------------------------------------------------------------------------
(* The tables, for the bank in use. *)

\* A register is stored, pending or a port by the entry of its name.
LEMMA SelectedByName ==
  ASSUME BankTypes, NEW i \in DOMAIN Regs, NEW k \in DOMAIN HwRegs
  PROVE  Regs[i].name = HwRegs[k].name <=> Selected(i) = k
  BY TablesMeet DEF BankTypes, NamesMeet, Regs, HwRegs, Selected

\* The pending register is the one called so.
LEMMA PendingByName ==
  ASSUME BankTypes, NEW i \in DOMAIN Regs, Selected(i) # 0
  PROVE  Selected(i) \in HwAt("pending") <=> Regs[i].name = "ev_pending"
<1>1. Selected(i) \in DOMAIN HwRegs
  BY DEF Selected, Decode, HwRegs
<1>2. HwRegs[Selected(i)].kind = "pending" <=> HwRegs[Selected(i)].name = "ev_pending"
  BY <1>1, TablesMeet DEF BankTypes, KindsMeet, HwRegs
<1>3. Regs[i].name = HwRegs[Selected(i)].name
  BY <1>1, SelectedByName
<1>4. QED
  BY <1>1, <1>2, <1>3 DEF HwAt

\* A field is an offset and a size, and shares no bit with its neighbours.
LEMMA FieldTypes ==
  ASSUME BankTypes, NEW i \in DOMAIN Regs, NEW n \in DOMAIN Regs[i].fields
  PROVE  /\ Regs[i].fields[n][1] \in Nat /\ Regs[i].fields[n][2] \in Nat
         /\ \A m \in DOMAIN Regs[i].fields :
              m # n => MaskOf(Regs[i].fields[m]) \cap MaskOf(Regs[i].fields[n]) = {}
  BY TablesMeet DEF BankTypes, FieldsApart, Regs

\* Replacing a field leaves the word alone outside the field's mask, and puts
\* the value, cut to the field's size, inside it.
LEMMA ReplaceBits ==
  ASSUME NEW w, NEW f, f[1] \in Nat, f[2] \in Nat, NEW v
  PROVE  /\ \A x : x \notin MaskOf(f) => (x \in Replace(w, f, v) <=> x \in w)
         /\ \A b \in 0 .. f[2] - 1 : b + f[1] \in Replace(w, f, v) <=> b \in v
         /\ Replace(w, f, v) \subseteq w \cup MaskOf(f)
<1>1. ASSUME NEW b \in 0 .. f[2] - 1 PROVE b + f[1] \in MaskOf(f)
  BY DEF MaskOf
<1>2. {b + f[1] : b \in v \cap 0 .. f[2] - 1} \subseteq MaskOf(f)
  BY <1>1
<1>3. ASSUME NEW b \in 0 .. f[2] - 1, NEW c \in 0 .. f[2] - 1, b + f[1] = c + f[1]
      PROVE  b = c
  BY <1>3
<1>4. ASSUME NEW b \in 0 .. f[2] - 1
      PROVE  b + f[1] \in Replace(w, f, v) <=> b \in v
  BY <1>1, <1>3 DEF Replace
<1>5. QED
  BY <1>2, <1>4 DEF Replace

-----------------------------------------------------------------------------
(* Events. *)

\* An access writes the word it is given, or less of it, or nothing.
LEMMA WrittenBits ==
  ASSUME BankTypes, NEW i \in DOMAIN Regs, NEW w, WriteAccess(i, w), UNCHANGED bank
  PROVE  Cleared' \subseteq IF Regs[i].name = "ev_pending" THEN w ELSE {}
<1>1. HwAt("pending")' = HwAt("pending")
  BY DEF HwAt, HwRegs
<1>2. CASE Cleared' = {}
  BY <1>2
<1>3. CASE Cleared' # {}
  <2>1. written'.at \in HwAt("pending") /\ Cleared' = written'.bits
    BY <1>1, <1>3 DEF Cleared
  <2>2. Selected(i) # 0
    <3>1. ASSUME Selected(i) = 0 PROVE FALSE
      BY <1>3, <2>1, <3>1 DEF WriteAccess, NoWord
    <3>2. QED
      BY <3>1
  <2>3. written'.at = Selected(i) /\ written'.bits \subseteq w
    BY <2>2 DEF WriteAccess
  <2>4. Regs[i].name = "ev_pending"
    BY <2>1, <2>2, <2>3, PendingByName
  <2>5. QED
    BY <2>1, <2>3, <2>4
<1>4. QED
  BY <1>2, <1>3

\* The events of a step keep to those of the bank.
LEMMA OwnEventsStep ==
  ASSUME OwnEvents, EdgeClock
  PROVE  OwnEvents' /\ Events' = Events
<1>1. Events' = Events
  BY DEF EdgeClock, Events, HwAt, HwRegs
<1>2. pending' \subseteq Events /\ trigger' \subseteq Events
  BY DEF OwnEvents, EdgeClock, EventClock, Rising
<1>3. QED
  BY <1>1, <1>2 DEF OwnEvents

\* An edge whose access clears no more than it acknowledges or sweeps away
\* keeps the events, and sweeps none that is alone.
LEMMA EventsKept ==
  ASSUME EventInv, EdgeClock, NEW named, NEW neighbours,
         fresh' = (fresh \cup Rising) \ named,
         swept' = (swept \ Rising) \cup neighbours,
         Cleared' \subseteq named \cup neighbours,
         Events \subseteq {0} => neighbours = {}
  PROVE  /\ EventsSurvive' /\ ClearIsOld' /\ OwnEvents'
         /\ Events' = Events /\ (Events \subseteq {0} => swept' = {})
<1>1. OwnEvents' /\ Events' = Events
  BY OwnEventsStep DEF EventInv
<1>2. Events \subseteq {0} => swept' = {}
  BY DEF EventInv, Alone
<1>3. pending' = (pending \ Cleared) \cup Rising
  BY DEF EdgeClock, EventClock
<1>4. fresh' \subseteq pending' \cup swept'
  <2>1. fresh \subseteq (pending \ Cleared) \cup swept
    BY DEF EventInv, EventsSurvive, ClearIsOld
  <2>2. QED
    BY <1>3, <2>1
<1>5. fresh' \cap Cleared' \subseteq swept'
  OBVIOUS
<1>6. EventsSurvive'
  <2>1. Events' \subseteq {0} => fresh' \subseteq pending'
    BY <1>1, <1>2, <1>4
  <2>2. QED
    BY <1>4, <2>1 DEF EventsSurvive
<1>7. QED
  BY <1>1, <1>2, <1>5, <1>6 DEF ClearIsOld

\* Without a write nothing will be cleared at the next edge.
LEMMA NothingCleared ==
  ASSUME BankTypes, NoWrite, UNCHANGED bank
  PROVE  Cleared' = {}
<1>1. ASSUME 0 \in DOMAIN HwRegs PROVE FALSE
  BY <1>1, TablesMeet DEF BankTypes, NamesMeet, HwRegs
<1>2. HwAt("pending")' = HwAt("pending")
  BY DEF HwAt, HwRegs
<1>3. QED
  BY <1>1, <1>2 DEF NoWrite, NoWord, Cleared, HwAt

\* The types of a bank are kept by every step.
LEMMA TypesStep ==
  ASSUME BankTypes, [Next]_vars
  PROVE  BankTypes' /\ UNCHANGED <<bank, used>> /\ HwAt("stored")' = HwAt("stored")
<1>1. UNCHANGED <<bank, used>>
  BY DEF Next, ReadRegister, ReadField, WriteRegister, BeginFieldWrite, EndFieldWrite,
         Pause, Restart, EdgeClock, vars, hwVars
<1>2. HwAt("stored")' = HwAt("stored") /\ Regs' = Regs
  BY <1>1 DEF HwAt, HwRegs, Regs
<1>3. ASSUME NEW k, NEW w, StoreClock(k, w)
      PROVE  store' = [j \in HwAt("stored") |-> store'[j]]
  BY <1>3 DEF BankTypes, StoreClock
<1>4. (\E k, w : StoreClock(k, w)) \/ store' = store
  BY DEF Next, ReadRegister, ReadField, WriteRegister, BeginFieldWrite, EndFieldWrite,
         Pause, Restart, WriteAccess, NoWrite, vars, hwVars
<1>5. store' = [j \in HwAt("stored") |-> store'[j]]
  BY <1>3, <1>4 DEF BankTypes
<1>6. QED
  BY <1>1, <1>2, <1>5 DEF BankTypes

\* In a register that has one event the word a field write has read is in the
\* field it writes.
LEMMA NoNeighbours ==
  ASSUME EventInv, FieldInv, call # NoCall, Events \subseteq {0},
         Regs[call.reg].name = "ev_pending"
  PROVE  call.oldword \subseteq MaskOf(Regs[call.reg].fields[call.field])
<1>1. call.reg \in DOMAIN Regs /\ call.field \in DOMAIN Regs[call.reg].fields
  BY DEF FieldInv, CallIsCurrent
<1>2. Selected(call.reg) # 0
  BY <1>1, TablesMeet DEF FieldInv, BankTypes, EventsMeet, Regs, Selected
<1>3. Selected(call.reg) \in HwAt("pending")
  BY <1>1, <1>2, PendingByName DEF FieldInv
<1>4. 0 .. HwRegs[Selected(call.reg)].width - 1 \subseteq {0}
  BY <1>3 DEF Events
<1>5. 0 \in MaskOf(Regs[call.reg].fields[call.field])
  BY <1>1, <1>4, TablesMeet
     DEF FieldInv, BankTypes, EventsMeet, HwRegs, Regs, Selected
<1>6. QED
  BY <1>5 DEF EventInv, Alone

\* What a field write that begins has read of the register of a lone event.
LEMMA ReadsAlone ==
  ASSUME BankTypes, OwnEvents, NEW i \in DOMAIN Regs, Events \subseteq {0},
         Regs[i].name = "ev_pending", NEW w \in Shown(Selected(i))
  PROVE  w \subseteq {0}
<1>1. CASE Selected(i) = 0
  BY <1>1 DEF Shown
<1>2. CASE Selected(i) # 0
  <2>1. HwRegs[Selected(i)].kind = "pending"
    BY <1>2, PendingByName DEF HwAt
  <2>2. w = pending
    BY <1>2, <2>1 DEF Shown
  <2>3. QED
    BY <2>2 DEF OwnEvents
<1>3. QED
  BY <1>1, <1>2

\* Every step keeps the events, one case per kind of step.
LEMMA EventStep ==
  ASSUME EventInv, FieldInv, [Next]_vars
  PROVE  EventInv'
<1>0. BankTypes' /\ UNCHANGED <<bank, used>> /\ Regs' = Regs
  BY TypesStep DEF EventInv, Regs
<1> DEFINE Kept == /\ EventsSurvive' /\ ClearIsOld' /\ OwnEvents'
                   /\ Events' = Events /\ (Events \subseteq {0} => swept' = {})
           CallAlone == Events \subseteq {0} /\ call' # NoCall
                          /\ Regs[call'.reg].name = "ev_pending"
                        => call'.oldword \subseteq {0}
<1>1. ASSUME EdgeClock, NoWrite, Watch PROVE Kept
  <2>1. Cleared' = {}
    BY <1>0, <1>1, NothingCleared DEF EventInv
  <2>2. /\ fresh' = (fresh \cup Rising) \ {}
        /\ swept' = (swept \ Rising) \cup {}
    BY <1>1 DEF Watch
  <2>3. QED
    BY <1>1, <2>1, <2>2, EventsKept
<1>2. ASSUME NEW i \in DOMAIN Regs, NEW w, NEW named, NEW neighbours,
             w = named \cup neighbours,
             Events \subseteq {0} /\ Regs[i].name = "ev_pending" => neighbours = {},
             WriteAccess(i, w), Acknowledge(i, named, neighbours), EdgeClock
      PROVE  Kept
  <2> DEFINE events(bits) == IF Regs[i].name = "ev_pending" THEN bits ELSE {}
  <2>1. Cleared' \subseteq events(w)
    BY <1>0, <1>2, WrittenBits DEF EventInv
  <2>2. /\ fresh' = (fresh \cup Rising) \ events(named)
        /\ swept' = (swept \ Rising) \cup events(neighbours)
    BY <1>2 DEF Acknowledge
  <2>3. /\ Cleared' \subseteq events(named) \cup events(neighbours)
        /\ Events \subseteq {0} => events(neighbours) = {}
    BY <1>2, <2>1
  <2> HIDE DEF events
  <2>4. QED
    BY <1>2, <2>2, <2>3, EventsKept
<1>3. ASSUME NEW i \in used, NEW v \in Values, WriteRegister(i, v)
      PROVE  Kept /\ call' = call
  <2>1. /\ i \in DOMAIN Regs /\ v = v \cup {} /\ call' = call
        /\ WriteAccess(i, v) /\ Acknowledge(i, v, {}) /\ EdgeClock
    BY <1>3 DEF WriteRegister, EventInv, BankTypes
  <2>2. QED
    BY <1>2, <2>1
<1>4. ASSUME EndFieldWrite
      PROVE  Kept /\ call' = NoCall
  <2> DEFINE i == call.reg
             f == Regs[i].fields[call.field]
             w == Replace(call.oldword, f, call.value)
  <2>1. i \in DOMAIN Regs /\ call.field \in DOMAIN Regs[i].fields /\ call # NoCall
    BY <1>4 DEF EndFieldWrite, FieldInv, CallIsCurrent
  <2>2. /\ WriteAccess(i, w) /\ Acknowledge(i, w \cap MaskOf(f), w \ MaskOf(f))
        /\ EdgeClock /\ call' = NoCall
    BY <1>4 DEF EndFieldWrite
  <2>3. Events \subseteq {0} /\ Regs[i].name = "ev_pending" => w \ MaskOf(f) = {}
    <3>1. f[1] \in Nat /\ f[2] \in Nat
      BY <2>1, FieldTypes DEF FieldInv
    <3>2. w \subseteq call.oldword \cup MaskOf(f)
      BY <3>1, ReplaceBits
    <3>3. QED
      BY <2>1, <3>2, NoNeighbours
  <2>4. w = (w \cap MaskOf(f)) \cup (w \ MaskOf(f))
    OBVIOUS
  <2> HIDE DEF i, f, w
  <2>5. Kept
    BY <1>2, <2>1, <2>2, <2>3, <2>4
  <2>6. QED
    BY <2>2, <2>5
<1>5. ASSUME NEW i \in used, NEW n \in DOMAIN Regs[i].fields, NEW v \in Values,
             BeginFieldWrite(i, n, v)
      PROVE  Kept /\ CallAlone
  <2>1. PICK w \in Shown(Selected(i)) :
          call' = [reg |-> i, field |-> n, value |-> v, oldword |-> w]
    BY <1>5 DEF BeginFieldWrite
  <2>2. call'.reg = i /\ call'.oldword = w
    BY <2>1
  <2>3. CallAlone
    BY <2>2, ReadsAlone DEF EventInv, BankTypes
  <2>4. Kept
    BY <1>1, <1>5 DEF BeginFieldWrite
  <2>5. QED
    BY <2>3, <2>4
<1>6. CASE UNCHANGED vars
  <2>1. Cleared' = Cleared /\ Events' = Events
    BY <1>6 DEF vars, hwVars, Cleared, Events, HwAt, HwRegs
  <2>2. QED
    BY <1>0, <1>6, <2>1
       DEF vars, hwVars, EventInv, EventsSurvive, ClearIsOld, OwnEvents, Alone
<1>7. CASE Next
  <2>1. Kept /\ (call' \in {call, NoCall} \/ CallAlone)
    BY <1>1, <1>3, <1>4, <1>5, <1>7 DEF Next, ReadRegister, ReadField, Pause, Restart
  <2>2. CallAlone
    BY <2>1 DEF EventInv, Alone
  <2>3. QED
    BY <1>0, <2>1, <2>2 DEF EventInv, Alone
<1>8. QED
  BY <1>6, <1>7

-----------------------------------------------------------------------------
(* Fields. *)

\* A write access replaces the register it selects, cut to its width.
LEMMA StoreWritten ==
  ASSUME BankTypes, NEW i \in DOMAIN Regs, NEW w, WriteAccess(i, w),
         NEW k \in HwAt("stored")
  PROVE  store'[k] = IF Selected(i) = k THEN w \cap 0 .. HwRegs[k].width - 1 ELSE store[k]
  BY DEF BankTypes, WriteAccess, StoreClock

\* No other step touches a register.
LEMMA FieldStep ==
  ASSUME FieldInv, [Next]_vars
  PROVE  FieldInv'
<1>0. BankTypes' /\ UNCHANGED <<bank, used>> /\ HwAt("stored")' = HwAt("stored")
  BY TypesStep DEF FieldInv
<1>1. Regs' = Regs /\ HwRegs' = HwRegs /\ \A i : Selected(i)' = Selected(i)
  BY <1>0 DEF Regs, HwRegs, Selected
<1>2. CASE UNCHANGED <<store, call>>
  BY <1>0, <1>1, <1>2 DEF FieldInv, StoreFits, CallIsCurrent
<1>3. ASSUME NEW i \in DOMAIN Regs, NEW w, WriteAccess(i, w), call' = NoCall
      PROVE  StoreFits' /\ CallIsCurrent'
  BY <1>0, <1>1, <1>3, StoreWritten DEF FieldInv, StoreFits, CallIsCurrent
<1>4. ASSUME NEW i \in used, NEW v \in Values, WriteRegister(i, v)
      PROVE  StoreFits' /\ CallIsCurrent'
  BY <1>3, <1>4 DEF WriteRegister, FieldInv, BankTypes
<1>5. ASSUME EndFieldWrite
      PROVE  StoreFits' /\ CallIsCurrent'
  <2>1. call.reg \in DOMAIN Regs
    BY <1>5 DEF EndFieldWrite, FieldInv, CallIsCurrent
  <2>2. QED
    BY <1>3, <1>5, <2>1 DEF EndFieldWrite
<1>6. ASSUME NEW i \in used, NEW n \in DOMAIN Regs[i].fields, NEW v \in Values,
             BeginFieldWrite(i, n, v)
      PROVE  StoreFits' /\ CallIsCurrent'
  <2>1. PICK w \in Shown(Selected(i)) :
          call' = [reg |-> i, field |-> n, value |-> v, oldword |-> w]
    BY <1>6 DEF BeginFieldWrite
  <2>2. store' = store
    BY <1>6 DEF BeginFieldWrite, NoWrite
  <2>3. Selected(i) \in HwAt("stored") => w = store[Selected(i)]
    <3>1. SUFFICES ASSUME Selected(i) \in HwAt("stored") PROVE w = store[Selected(i)]
      OBVIOUS
    <3>2. Selected(i) # 0 /\ HwRegs[Selected(i)].kind = "stored"
      BY <3>1, TablesMeet DEF HwAt, FieldInv, BankTypes, NamesMeet, HwRegs
    <3>3. QED
      BY <3>2 DEF Shown
  <2>4. i \in DOMAIN Regs
    BY DEF FieldInv, BankTypes
  <2>5. QED
    BY <1>0, <1>1, <2>1, <2>2, <2>3, <2>4 DEF FieldInv, StoreFits, CallIsCurrent
<1>7. ASSUME Restart PROVE StoreFits' /\ CallIsCurrent'
  BY <1>0, <1>1, <1>7 DEF Restart, NoWrite, FieldInv, StoreFits, CallIsCurrent
<1>8. CASE Next
  BY <1>0, <1>2, <1>4, <1>5, <1>6, <1>7, <1>8
     DEF Next, ReadRegister, ReadField, Pause, NoWrite, FieldInv
<1>9. QED
  BY <1>2, <1>8 DEF vars, hwVars

\* Where the core has a field: in the register of its name, under the offset
\* that the firmware gives it, and as wide as both have room for.
LEMMA FieldPlace ==
  ASSUME FieldInv, NEW g \in StoredFields, NEW i \in DOMAIN Regs, g.reg = Regs[i].name
  PROVE  /\ g.at = Selected(i) /\ g.at \in HwAt("stored")
         /\ g.name \in DOMAIN Regs[i].fields
         /\ LET f == Regs[i].fields[g.name] width == HwRegs[g.at].width IN
            /\ f[1] \in Nat /\ f[2] \in Nat /\ width \in Nat
            /\ HwRegs[g.at].uses[g.name][1] = f[1]
            /\ g.room = {b \in 0 .. f[2] - 1 : b + f[1] \in 0 .. width - 1}
<1>1. PICK k \in HwAt("stored") : \E n \in DOMAIN HwRegs[k].uses :
        g = [reg |-> HwRegs[k].name, name |-> n, at |-> k,
             room |-> 0 .. HwRegs[k].uses[n][2] - HwRegs[k].uses[n][1]]
  BY DEF StoredFields
<1>2. PICK n \in DOMAIN HwRegs[k].uses :
        g = [reg |-> HwRegs[k].name, name |-> n, at |-> k,
             room |-> 0 .. HwRegs[k].uses[n][2] - HwRegs[k].uses[n][1]]
  BY <1>1
<1>3. k \in DOMAIN HwRegs /\ HwRegs[k].kind = "stored"
  BY DEF HwAt
<1>4. Selected(i) = k
  BY <1>2, <1>3, SelectedByName DEF FieldInv
<1>5. n \in DOMAIN Regs[i].fields /\ FieldMeets(Regs[i].fields[n], HwRegs[k].uses[n], HwRegs[k].width)
  BY <1>3, <1>4, TablesMeet DEF FieldInv, BankTypes, FieldsMeet, Regs, HwRegs, Selected
<1>6. g.room = {b \in 0 .. Regs[i].fields[n][2] - 1 :
                   b + Regs[i].fields[n][1] \in 0 .. HwRegs[k].width - 1}
  <2> DEFINE f == Regs[i].fields[n]
             width == HwRegs[k].width
             top == HwRegs[k].uses[n][2]
  <2>1. /\ f[1] \in Nat /\ f[2] \in Nat /\ width \in Nat /\ top \in 0 .. width - 1
        /\ 1 + top - f[1] = IF f[2] < width - f[1] THEN f[2] ELSE width - f[1]
        /\ HwRegs[k].uses[n][1] = f[1]
    BY <1>5 DEF FieldMeets
  <2>2. g.room = 0 .. top - f[1]
    BY <1>2, <2>1
  <2> HIDE DEF f, width, top
  <2>3. 0 .. top - f[1] = {b \in 0 .. f[2] - 1 : b + f[1] \in 0 .. width - 1}
    BY <2>1
  <2>4. QED
    BY <2>2, <2>3 DEF f, width
<1>7. QED
  BY <1>2, <1>4, <1>5, <1>6 DEF FieldMeets

\* A write access to a register changes the fields of that register only.
LEMMA OtherRegister ==
  ASSUME FieldInv, NEW g \in StoredFields, NEW i \in DOMAIN Regs, g.reg # Regs[i].name,
         NEW w, WriteAccess(i, w), UNCHANGED bank
  PROVE  Used(g)' = Used(g)
<1>1. g.at \in HwAt("stored") /\ g.at \in DOMAIN HwRegs /\ g.reg = HwRegs[g.at].name
  BY DEF StoredFields, HwAt
<1>2. Selected(i) # g.at
  BY <1>1, SelectedByName DEF FieldInv
<1>3. store'[g.at] = store[g.at] /\ HwRegs' = HwRegs
  BY <1>1, <1>2, StoreWritten DEF FieldInv, HwRegs
<1>4. QED
  BY <1>3 DEF Used

\* In the register written, a field takes what the word has in its place.
LEMMA WrittenField ==
  ASSUME FieldInv, NEW g \in StoredFields, NEW i \in DOMAIN Regs, g.reg = Regs[i].name,
         NEW w, WriteAccess(i, w), UNCHANGED bank
  PROVE  Used(g)' = {b \in g.room : b + Regs[i].fields[g.name][1] \in w}
<1>1. /\ g.at = Selected(i) /\ g.at \in HwAt("stored")
      /\ HwRegs[g.at].uses[g.name][1] = Regs[i].fields[g.name][1]
      /\ g.room = {b \in 0 .. Regs[i].fields[g.name][2] - 1 :
                     b + Regs[i].fields[g.name][1] \in 0 .. HwRegs[g.at].width - 1}
  BY FieldPlace
<1>2. store'[g.at] = w \cap 0 .. HwRegs[g.at].width - 1
  <2>1. Selected(i) = g.at /\ g.at \in HwAt("stored")
    BY <1>1
  <2>2. QED
    BY <2>1, StoreWritten DEF FieldInv
<1>3. Used(g)' = {b \in g.room : b + HwRegs[g.at].uses[g.name][1] \in store'[g.at]}
  BY DEF Used, HwRegs
<1>4. Used(g)' = {b \in g.room : b + Regs[i].fields[g.name][1] \in
                                  w \cap 0 .. HwRegs[g.at].width - 1}
  BY <1>1, <1>2, <1>3
<1>5. \A b \in g.room : b + Regs[i].fields[g.name][1] \in 0 .. HwRegs[g.at].width - 1
  BY <1>1
<1>6. QED
  BY <1>4, <1>5

-----------------------------------------------------------------------------
(* The accessors implement independent fields. *)

\* The refinement mapping, named: what the fields hold.
FieldMap == [g \in StoredFields |-> Used(g)]

\* The fields there are depend on the bank alone.
LEMMA SameFields ==
  ASSUME UNCHANGED bank
  PROVE  StoredFields' = StoredFields
  BY DEF StoredFields, HwAt, HwRegs

\* At the start every field holds bits that it has room for.
LEMMA FieldsStart ==
  ASSUME Init
  PROVE  Fields!Init
<1>1. \A g \in StoredFields : Used(g) \subseteq g.room
  BY DEF Used
<1>2. io = [op |-> "none"]
  BY DEF Init
<1>3. QED
  BY <1>1, <1>2 DEF Fields!Init

\* An access without a write leaves every field as it was.
LEMMA FieldsKept ==
  ASSUME UNCHANGED <<bank, store>>
  PROVE  FieldMap' = FieldMap
<1>1. StoredFields' = StoredFields
  BY SameFields
<1>2. \A g : Used(g)' = Used(g)
  BY DEF Used, HwRegs
<1>3. QED
  BY <1>1, <1>2 DEF FieldMap

\* What a read returns is what the fields hold.
LEMMA ReadsFields ==
  ASSUME FieldInv, NEW i \in DOMAIN Regs, NEW w \in Shown(Selected(i)),
         NEW g \in StoredFields, g.reg = Regs[i].name
  PROVE  g.name \in DOMAIN Regs[i].fields /\ Extract(w, Regs[i].fields[g.name]) = Used(g)
<1> DEFINE f == Regs[i].fields[g.name]
<1>1. /\ g.at = Selected(i) /\ g.at \in HwAt("stored") /\ g.name \in DOMAIN Regs[i].fields
      /\ HwRegs[g.at].uses[g.name][1] = f[1]
      /\ g.room = {b \in 0 .. f[2] - 1 : b + f[1] \in 0 .. HwRegs[g.at].width - 1}
  BY FieldPlace
<1>2. w = store[g.at]
  <2>1. g.at # 0 /\ HwRegs[g.at].kind = "stored"
    BY <1>1, TablesMeet DEF HwAt, FieldInv, BankTypes, NamesMeet, HwRegs
  <2>2. QED
    BY <1>1, <2>1 DEF Shown
<1>3. store[g.at] \subseteq 0 .. HwRegs[g.at].width - 1
  BY <1>1 DEF FieldInv, StoreFits
<1>4. Used(g) = {b \in g.room : b + f[1] \in store[g.at]}
  BY <1>1 DEF Used
<1>5. Extract(w, f) = {b \in 0 .. f[2] - 1 : b + f[1] \in store[g.at]}
  BY <1>2 DEF Extract
<1> HIDE DEF f
<1>6. {b \in g.room : b + f[1] \in store[g.at]} = {b \in 0 .. f[2] - 1 : b + f[1] \in store[g.at]}
  BY <1>1, <1>3
<1>7. QED
  BY <1>1, <1>4, <1>5, <1>6 DEF f

\* Reading a register reads all of its fields.
LEMMA ReadRegisterReads ==
  ASSUME FieldInv, NEW i \in used, ReadRegister(i)
  PROVE  Fields!Read
<1>1. PICK w \in Shown(Selected(i)) : Did("read", i, Unpack(i, w))
  BY DEF ReadRegister
<1>2. i \in DOMAIN Regs
  BY DEF FieldInv, BankTypes
<1>3. io' = [op |-> "read", reg |-> Regs[i].name, val |-> Unpack(i, w)]
  BY <1>1 DEF Did
<1>4. FieldMap' = FieldMap
  BY FieldsKept DEF ReadRegister, EdgeClock, NoWrite
<1>5. ASSUME NEW g \in StoredFields, g.reg = io'.reg
      PROVE  io'.val[g.name] = Used(g)
  <2>1. g.name \in DOMAIN Regs[i].fields /\ Extract(w, Regs[i].fields[g.name]) = Used(g)
    BY <1>2, <1>3, <1>5, ReadsFields
  <2>2. QED
    BY <1>3, <2>1 DEF Unpack
<1>6. QED
  BY <1>3, <1>4, <1>5 DEF Fields!Read, FieldMap

\* Reading a field reads that one.
LEMMA ReadFieldReads ==
  ASSUME FieldInv, NEW i \in used, NEW n \in DOMAIN Regs[i].fields, ReadField(i, n)
  PROVE  Fields!Read
<1>1. PICK w \in Shown(Selected(i)) :
        Did("read", i, [m \in {n} |-> Extract(w, Regs[i].fields[n])])
  BY DEF ReadField
<1>2. i \in DOMAIN Regs
  BY DEF FieldInv, BankTypes
<1>3. io' = [op |-> "read", reg |-> Regs[i].name,
             val |-> [m \in {n} |-> Extract(w, Regs[i].fields[n])]]
  BY <1>1 DEF Did
<1>4. FieldMap' = FieldMap
  BY FieldsKept DEF ReadField, EdgeClock, NoWrite
<1>5. ASSUME NEW g \in StoredFields, g.reg = io'.reg, g.name \in DOMAIN io'.val
      PROVE  io'.val[g.name] = Used(g)
  <2>1. Extract(w, Regs[i].fields[g.name]) = Used(g)
    BY <1>2, <1>3, <1>5, ReadsFields
  <2>2. g.name = n
    BY <1>3, <1>5
  <2>3. QED
    BY <1>3, <2>1, <2>2
<1>6. QED
  BY <1>3, <1>4, <1>5 DEF Fields!Read, FieldMap

\* Writing a register writes all of its fields.
LEMMA WriteRegisterWrites ==
  ASSUME FieldInv, NEW i \in used, NEW v, WriteRegister(i, v)
  PROVE  Fields!Write
<1>1. i \in DOMAIN Regs
  BY DEF FieldInv, BankTypes
<1>2. /\ WriteAccess(i, v) /\ UNCHANGED bank
      /\ io' = [op |-> "write", reg |-> Regs[i].name, val |-> Unpack(i, v)]
  BY DEF WriteRegister, EdgeClock, Did
<1>3. StoredFields' = StoredFields
  BY <1>2, SameFields
<1>4. ASSUME NEW g \in StoredFields, g.reg # io'.reg PROVE Used(g)' = Used(g)
  BY <1>1, <1>2, <1>4, OtherRegister
<1>5. ASSUME NEW g \in StoredFields, g.reg = io'.reg
      PROVE  g.name \in DOMAIN io'.val /\ Used(g)' = io'.val[g.name] \cap g.room
  <2> DEFINE f == Regs[i].fields[g.name]
  <2>1. g.reg = Regs[i].name
    BY <1>2, <1>5
  <2>2. /\ g.name \in DOMAIN Regs[i].fields
        /\ g.room = {b \in 0 .. f[2] - 1 : b + f[1] \in 0 .. HwRegs[g.at].width - 1}
    BY <1>1, <2>1, FieldPlace
  <2>3. Used(g)' = {b \in g.room : b + f[1] \in v}
    BY <1>1, <1>2, <2>1, WrittenField
  <2>4. g.name \in DOMAIN io'.val /\ io'.val[g.name] = {b \in 0 .. f[2] - 1 : b + f[1] \in v}
    BY <1>2, <2>2 DEF Unpack, Extract
  <2> HIDE DEF f
  <2>5. g.room \subseteq 0 .. f[2] - 1
    BY <2>2
  <2>6. QED
    BY <2>3, <2>4, <2>5
<1>6. QED
  BY <1>2, <1>3, <1>4, <1>5 DEF Fields!Write, FieldMap

\* The second access of a field write puts the value into its field and puts
\* back what its neighbours hold.
LEMMA FieldReplaced ==
  ASSUME FieldInv, call # NoCall, NEW g \in StoredFields, g.reg = Regs[call.reg].name,
         WriteAccess(call.reg, Replace(call.oldword, Regs[call.reg].fields[call.field], call.value)),
         UNCHANGED bank
  PROVE  Used(g)' = IF g.name = call.field THEN call.value \cap g.room ELSE Used(g)
<1> DEFINE i == call.reg
           own == Regs[i].fields[call.field]
           f == Regs[i].fields[g.name]
           w == Replace(call.oldword, own, call.value)
<1>1. i \in DOMAIN Regs /\ call.field \in DOMAIN Regs[i].fields
  BY DEF FieldInv, CallIsCurrent
<1>2. /\ g.at = Selected(i) /\ g.at \in HwAt("stored") /\ g.name \in DOMAIN Regs[i].fields
      /\ f[1] \in Nat /\ f[2] \in Nat /\ HwRegs[g.at].uses[g.name][1] = f[1]
      /\ g.room = {b \in 0 .. f[2] - 1 : b + f[1] \in 0 .. HwRegs[g.at].width - 1}
  BY <1>1, FieldPlace
<1>3. call.oldword = store[g.at]
  BY <1>2 DEF FieldInv, CallIsCurrent
<1>4. own[1] \in Nat /\ own[2] \in Nat
  BY <1>1, FieldTypes DEF FieldInv
<1>5. Used(g)' = {b \in g.room : b + f[1] \in w}
  BY <1>1, WrittenField
<1>6. Used(g) = {b \in g.room : b + f[1] \in store[g.at]}
  BY <1>2 DEF Used
<1>7. CASE g.name = call.field
  <2>0. \A b \in 0 .. own[2] - 1 : b + own[1] \in w <=> b \in call.value
    <3> HIDE DEF own
    <3>1. QED
      BY <1>4, ReplaceBits
  <2>1. \A b \in 0 .. f[2] - 1 : b + f[1] \in w <=> b \in call.value
    BY <1>7, <2>0
  <2> HIDE DEF f, w
  <2>2. QED
    BY <1>2, <1>5, <1>7, <2>1
<1>8. CASE g.name # call.field
  <2>1. MaskOf(f) \cap MaskOf(own) = {}
    BY <1>1, <1>2, <1>8, FieldTypes DEF FieldInv
  <2>2. \A b \in g.room : b + f[1] \in MaskOf(f)
    <3> HIDE DEF f
    <3>1. QED
      BY <1>2 DEF MaskOf
  <2>3. \A x : x \notin MaskOf(own) => (x \in w <=> x \in store[g.at])
    BY <1>3, <1>4, ReplaceBits
  <2> HIDE DEF f, w, own
  <2>4. QED
    BY <1>5, <1>6, <1>8, <2>1, <2>2, <2>3
<1>9. QED
  BY <1>7, <1>8

\* Writing a field writes that one.
LEMMA EndFieldWriteWrites ==
  ASSUME FieldInv, EndFieldWrite
  PROVE  Fields!Write
<1> DEFINE i == call.reg
<1>1. /\ call # NoCall /\ i \in DOMAIN Regs /\ UNCHANGED bank
      /\ WriteAccess(i, Replace(call.oldword, Regs[i].fields[call.field], call.value))
      /\ io' = [op |-> "write", reg |-> Regs[i].name,
                val |-> [m \in {call.field} |-> call.value]]
  BY DEF EndFieldWrite, EdgeClock, Did, FieldInv, CallIsCurrent
<1>2. StoredFields' = StoredFields
  BY <1>1, SameFields
<1>3. ASSUME NEW g \in StoredFields, g.reg # io'.reg PROVE Used(g)' = Used(g)
  BY <1>1, <1>3, OtherRegister
<1>4. ASSUME NEW g \in StoredFields, g.reg = io'.reg
      PROVE  Used(g)' = IF g.name \in DOMAIN io'.val THEN io'.val[g.name] \cap g.room
                                                     ELSE Used(g)
  <2>1. g.reg = Regs[i].name /\ DOMAIN io'.val = {call.field} /\ io'.val[call.field] = call.value
    BY <1>1, <1>4
  <2>2. Used(g)' = IF g.name = call.field THEN call.value \cap g.room ELSE Used(g)
    BY <1>1, <2>1, FieldReplaced
  <2>3. QED
    BY <2>1, <2>2
<1>5. QED
  BY <1>1, <1>2, <1>3, <1>4 DEF Fields!Write, FieldMap

\* Every step of the accessors is one of the fields, or changes none of them.
LEMMA FieldsNext ==
  ASSUME FieldInv, [Next]_vars
  PROVE  [Fields!Next]_<<FieldMap, io>>
<1>1. ASSUME NEW i \in used, NEW v \in Values, WriteRegister(i, v) PROVE Fields!Next
  BY <1>1, WriteRegisterWrites DEF Fields!Next
<1>2. ASSUME EndFieldWrite PROVE Fields!Next
  BY <1>2, EndFieldWriteWrites DEF Fields!Next
<1>3. ASSUME NEW i \in used, ReadRegister(i) PROVE Fields!Next
  BY <1>3, ReadRegisterReads DEF Fields!Next
<1>4. ASSUME NEW i \in used, NEW n \in DOMAIN Regs[i].fields, ReadField(i, n)
      PROVE  Fields!Next
  BY <1>4, ReadFieldReads DEF Fields!Next
<1>5. CASE UNCHANGED <<bank, store, io>>
  BY <1>5, FieldsKept
<1>6. CASE Next
  BY <1>1, <1>2, <1>3, <1>4, <1>5, <1>6
     DEF Next, BeginFieldWrite, Pause, Restart, EdgeClock, NoWrite
<1>7. QED
  BY <1>5, <1>6 DEF vars, hwVars

-----------------------------------------------------------------------------
(* The theorems. *)

\* Initial states have both invariants.
LEMMA InvariantsStart ==
  ASSUME Init
  PROVE  FieldInv /\ EventInv
<1>1. BankTypes
  BY DEF Init, BankTypes
<1>2. StoreFits
  <2>1. SUFFICES ASSUME NEW k \in HwAt("stored")
                 PROVE  store[k] \subseteq 0 .. HwRegs[k].width - 1
    BY DEF StoreFits
  <2>2. k \in DOMAIN HwRegs /\ HwRegs[k].kind = "stored"
    BY DEF HwAt
  <2>3. ResetValue(HwRegs[k].name) \subseteq 0 .. HwRegs[k].width - 1
    BY <2>2, TablesMeet DEF Init, KindsMeet, HwRegs
  <2>4. QED
    BY <2>3 DEF Init
<1>3. CallIsCurrent /\ EventsSurvive /\ ClearIsOld
  BY DEF Init, CallIsCurrent, EventsSurvive, ClearIsOld
<1>4. OwnEvents /\ Alone
  BY DEF Init, OwnEvents, Alone
<1>5. QED
  BY <1>1, <1>2, <1>3, <1>4 DEF FieldInv, EventInv

\* A register holds only bits it has, and a field write under way has the
\* register's present contents in hand.
THEOREM FieldInvariance == Spec => []FieldInv
<1>1. Init => FieldInv
  BY InvariantsStart
<1>2. FieldInv /\ [Next]_vars => FieldInv'
  BY FieldStep
<1>3. QED
  BY <1>1, <1>2, PTL DEF Spec

\* EventsSurvive: an event stays pending until a caller names it and writes it
\* as one, whichever accesses and field writes are under way.  Only a register
\* with two events has an exception: a field write that acknowledges one clears
\* the other with it when it has read it as pending.
THEOREM EventsAreKept == Spec => []EventsSurvive
<1>1. Init => EventInv
  BY InvariantsStart
<1>2. FieldInv /\ EventInv /\ [Next]_vars => EventInv'
  BY EventStep
<1>3. EventInv => EventsSurvive
  BY DEF EventInv
<1>4. QED
  BY <1>1, <1>2, <1>3, FieldInvariance, PTL DEF Spec

\* FieldsAreIndependent: what the accessors do to the registers implements
\* fields that are variables of their own.
THEOREM AccessorsImplementFields == Spec => FieldsAreIndependent
<1>1. Init => Fields!Init
  BY FieldsStart
<1>2. FieldInv /\ [Next]_vars => [Fields!Next]_<<FieldMap, io>>
  BY FieldsNext
<1>3. QED
  BY <1>1, <1>2, FieldInvariance, PTL
     DEF Spec, FieldsAreIndependent, Fields!Spec, FieldMap

-----------------------------------------------------------------------------
(* The accessors of wide CSRs: induction over the natural numbers. *)

\* A set of natural numbers has a least one.
LEMMA Least ==
  ASSUME NEW T \in SUBSET Nat, T # {}
  PROVE  \E m \in T : \A x \in T : m <= x
<1>1. IsWellFoundedOn(OpToRel(<, Nat), Nat)
  BY NatLessThanWellFounded
<1>2. PICK m \in T : \A y \in T : ~ (<<y, m>> \in OpToRel(<, Nat))
  BY <1>1, WFMin, Zenon
<1>3. \A y \in T : ~ (y < m)
  BY <1>2 DEF OpToRel
<1>4. QED
  BY <1>3

\* Induction, for a set in the place of a predicate.
LEMMA Induction ==
  ASSUME NEW T \in SUBSET Nat, 0 \in T, \A m \in T : m + 1 \in T
  PROVE  T = Nat
<1>1. SUFFICES ASSUME Nat \ T # {} PROVE FALSE
  OBVIOUS
<1>2. PICK m \in Nat \ T : \A x \in Nat \ T : m <= x
  BY <1>1, Least
<1>3. m - 1 \in T
  BY <1>2
<1>4. QED
  BY <1>2, <1>3

-----------------------------------------------------------------------------
\* Quotient and remainder, by any divisor.
LEMMA Division ==
  ASSUME NEW v \in Nat, NEW b \in Nat, b > 0
  PROVE  /\ v \div b \in Nat /\ v % b \in Nat /\ v % b < b
         /\ v = (v \div b) * b + (v % b)
  BY SMT

\* There is one quotient and one remainder.
LEMMA Divided ==
  ASSUME NEW v \in Nat, NEW b \in Nat, b > 0
  PROVE  \E q \in Nat, r \in Nat : q = v \div b /\ r = v % b /\ r < b /\ v = q * b + r
<1>1. /\ v \div b \in Nat /\ v % b \in Nat /\ v % b < b
      /\ v = (v \div b) * b + (v % b)
  BY Division
<1>2. QED
  BY <1>1, Zenon

\* Two divisions that agree have the same quotient and the same remainder.
LEMMA OneQuotient ==
  ASSUME NEW b \in Nat, NEW q \in Int, NEW r \in Nat, NEW x \in Int, NEW y \in Nat,
         r < b, y < b, q * b + r = x * b + y
  PROVE  q = x /\ r = y
<1>1. \A m \in Int, n \in Int : m < n => m * b + b <= n * b
  BY SMT
<1>2. q * b \in Int /\ x * b \in Int
  OBVIOUS
<1>3. ~(q < x)
  BY <1>1, <1>2
<1>4. ~(x < q)
  BY <1>1, <1>2
<1>5. QED
  BY <1>2, <1>3, <1>4

\* A sum of that form gives its quotient and its remainder back.
LEMMA Quotient ==
  ASSUME NEW b \in Nat, NEW q \in Nat, NEW r \in Nat, r < b
  PROVE  (q * b + r) \div b = q /\ (q * b + r) % b = r
<1>1. q * b + r \in Nat /\ b > 0
  BY SMT
<1>2. PICK w \in Nat : w = q * b + r
  BY <1>1
<1>3. PICK x \in Nat, y \in Nat : x = w \div b /\ y = w % b /\ y < b /\ w = x * b + y
  BY <1>1, Division
<1>4. q * b + r = x * b + y
  BY <1>2, <1>3
<1>5. q = x /\ r = y
  BY <1>3, <1>4, OneQuotient
<1>6. QED
  BY <1>2, <1>3, <1>5

-----------------------------------------------------------------------------

\* The first m + 1 values of Span.
SpansUpTo(u, m) == u = [k \in 0 .. m |-> IF k = 0 THEN 1 ELSE Byte * u[k - 1]]

\* There is one more after any of them.
LEMMA OneSpanMore ==
  ASSUME NEW m \in Nat, NEW u, SpansUpTo(u, m)
  PROVE  \E v : SpansUpTo(v, m + 1)
<1>1. \A k \in 0 .. m : u[k] = IF k = 0 THEN 1 ELSE Byte * u[k - 1]
  BY DEF SpansUpTo
<1>2. PICK w : w = Byte * u[m]
  OBVIOUS
<1>3. PICK v : v = [k \in 0 .. m + 1 |-> IF k = m + 1 THEN w ELSE u[k]]
  OBVIOUS
<1>4. v[m + 1] = w /\ \A k \in 0 .. m : v[k] = u[k]
  BY <1>3
<1>5. \A k \in 0 .. m + 1 : v[k] = IF k = 0 THEN 1 ELSE Byte * v[k - 1]
  BY <1>1, <1>2, <1>4
<1>6. v = [k \in 0 .. m + 1 |-> v[k]]
  BY <1>3
<1>7. SpansUpTo(v, m + 1)
  BY <1>5, <1>6 DEF SpansUpTo
<1>8. QED
  BY <1>7

\* So Span, which is chosen, is there to choose.
LEMMA PartialSpans == ASSUME NEW size \in Nat PROVE \E u : SpansUpTo(u, size)
<1> DEFINE T == {m \in Nat : \E u : SpansUpTo(u, m)}
<1>1. 0 \in T
  <2>1. SpansUpTo([k \in 0 .. 0 |-> 1], 0)
    BY DEF SpansUpTo
  <2>2. QED
    BY <2>1
<1>2. \A m \in T : m + 1 \in T
  BY OneSpanMore
<1>3. T = Nat
  BY <1>1, <1>2, Induction
<1>4. QED
  BY <1>3

\* The function of all numbers that agrees with the partial ones.
LEMMA SpanSteps == Span[0] = 1 /\ \A k \in Nat : Span[k + 1] = Byte * Span[k]
<1> DEFINE U(m) == CHOOSE u : SpansUpTo(u, m)
<1>1. \A m \in Nat : SpansUpTo(U(m), m)
  BY PartialSpans, Zenon
<1> HIDE DEF U
<1>2. \A m \in Nat : U(m)[0] = 1 /\ \A k \in 0 .. m - 1 : U(m)[k + 1] = Byte * U(m)[k]
  BY <1>1 DEF SpansUpTo
<1>3. ASSUME NEW m \in Nat
      PROVE  U(m + 1)[m] = U(m)[m]
  <2> DEFINE T == {k \in Nat : k <= m => U(m)[k] = U(m + 1)[k]}
  <2>1. 0 \in T
    BY <1>2
  <2>2. ASSUME NEW k \in T
        PROVE  k + 1 \in T
    BY <1>2
  <2>3. T = Nat
    BY <2>1, <2>2, Induction
  <2>4. QED
    BY <2>3
<1> DEFINE f == [k \in Nat |-> U(k)[k]]
<1>4. f[0] = 1 /\ \A k \in Nat : f[k + 1] = Byte * f[k]
  <2>1. \A k \in Nat : U(k + 1)[k + 1] = Byte * U(k + 1)[k]
    BY <1>2
  <2>2. \A k \in Nat : k + 1 \in Nat /\ f[k + 1] = U(k + 1)[k + 1] /\ f[k] = U(k)[k]
    OBVIOUS
  <2>3. f[0] = 1
    BY <1>2
  <2> HIDE DEF f
  <2>4. QED
    BY <1>3, <2>1, <2>2, <2>3
<1>5. f = [k \in Nat |-> IF k = 0 THEN 1 ELSE Byte * f[k - 1]]
  <2>1. \A k \in Nat : f[k] = IF k = 0 THEN 1 ELSE Byte * f[k - 1]
    <3>1. \A k \in Nat \ {0} : k - 1 \in Nat /\ (k - 1) + 1 = k
      OBVIOUS
    <3> HIDE DEF f
    <3>2. QED
      BY <1>4, <3>1
  <2>2. f = [k \in Nat |-> f[k]]
    OBVIOUS
  <2> HIDE DEF f
  <2>3. QED
    BY <2>1, <2>2, Zenon
<1> HIDE DEF f
<1>6. Span = [k \in Nat |-> IF k = 0 THEN 1 ELSE Byte * Span[k - 1]]
  BY <1>5, Zenon DEF Span
<1>7. \A k \in Nat : k + 1 \in Nat /\ k + 1 # 0 /\ (k + 1) - 1 = k
  OBVIOUS
<1>8. QED
  BY <1>6, <1>7

\* There are always some values.
LEMMA SpanTyped == \A k \in Nat : Span[k] \in Nat /\ Span[k] > 0
<1> DEFINE T == {k \in Nat : Span[k] \in Nat /\ Span[k] > 0}
<1>1. 0 \in T
  BY SpanSteps
<1>2. ASSUME NEW k \in T
      PROVE  k + 1 \in T
  <2>1. Span[k + 1] = Byte * Span[k] /\ Byte \in Nat /\ Byte > 0
    BY SpanSteps, BufferAssumption DEF BufferAssumption
  <2>2. \A x \in Nat, y \in Nat : x > 0 /\ y > 0 => x * y \in Nat /\ x * y > 0
    BY SMT
  <2>3. QED
    BY <2>1, <2>2
<1>3. T = Nat
  BY <1>1, <1>2, Induction
<1>4. QED
  BY <1>3

\* Bytes side by side.
LEMMA SpanSum == ASSUME NEW m \in Nat, NEW n \in Nat PROVE Span[m + n] = Span[m] * Span[n]
<1> DEFINE T == {k \in Nat : Span[m + k] = Span[m] * Span[k]}
<1>1. 0 \in T
  BY SpanSteps, SpanTyped
<1>2. ASSUME NEW k \in T
      PROVE  k + 1 \in T
  <2>1. Span[m + k] = Span[m] * Span[k]
    OBVIOUS
  <2>2. Span[m + (k + 1)] = Byte * Span[m + k] /\ Span[k + 1] = Byte * Span[k]
    <3>1. m + k \in Nat /\ m + (k + 1) = (m + k) + 1
      OBVIOUS
    <3>2. QED
      BY <3>1, SpanSteps
  <2>3. PICK x \in Nat, y \in Nat, b \in Nat : x = Span[m] /\ y = Span[k] /\ b = Byte
    BY SpanTyped, BufferAssumption DEF BufferAssumption
  <2>4. b * (x * y) = x * (b * y)
    BY SMT
  <2>5. QED
    BY <2>1, <2>2, <2>3, <2>4
<1>3. T = Nat
  BY <1>1, <1>2, Induction
<1>4. QED
  BY <1>3

-----------------------------------------------------------------------------
\* The s bytes of n from byte a on.
Bits(n, a, s) == (n \div Span[a]) % Span[s]

\* A part of a number fits its bytes.
LEMMA BitsTyped ==
  ASSUME NEW n \in Nat, NEW a \in Nat, NEW s \in Nat
  PROVE  Bits(n, a, s) \in Nat /\ Bits(n, a, s) < Span[s]
<1>1. PICK x \in Nat, y \in Nat : x = Span[a] /\ y = Span[s] /\ x > 0 /\ y > 0
  BY SpanTyped
<1>2. PICK m \in Nat : m = n \div x
  BY <1>1, Division
<1>3. m % y \in Nat /\ m % y < y
  BY <1>1, Division
<1>4. QED
  BY <1>1, <1>2, <1>3 DEF Bits

\* Two parts that are next to each other are one.
LEMMA BitsJoin ==
  ASSUME NEW n \in Nat, NEW a \in Nat, NEW s \in Nat, NEW t \in Nat
  PROVE  Bits(n, a, s + t) = Bits(n, a + t, s) * Span[t] + Bits(n, a, t)
<1>1. PICK A \in Nat, S \in Nat, T \in Nat :
        A = Span[a] /\ S = Span[s] /\ T = Span[t] /\ A > 0 /\ S > 0 /\ T > 0
  BY SpanTyped
<1>2. PICK m \in Nat, r \in Nat : m = n \div A /\ r = n % A /\ r < A /\ n = m * A + r
  BY <1>1, Divided, ZenonT(60)
<1>3. PICK p \in Nat, q \in Nat : p = m \div T /\ q = m % T /\ q < T /\ m = p * T + q
  BY <1>1, Divided
<1>4. PICK g \in Nat, h \in Nat : g = p \div S /\ h = p % S /\ h < S /\ p = g * S + h
  BY <1>1, Divided
<1>5. Span[s + t] = S * T /\ Span[a + t] = A * T
  BY <1>1, SpanSum
<1>6. n \div (A * T) = p
  <2>1. PICK b \in Nat, e \in Nat : b = A * T /\ e = q * A + r /\ e < b
    <3>1. A * T \in Nat /\ q * A + r \in Nat
      BY SMT
    <3>2. q * A + A <= T * A
      <4>1. \A x \in Nat, y \in Nat : x < y => x * A + A <= y * A
        BY SMT
      <4>2. QED
        BY <4>1, <1>3
    <3>3. PICK x \in Nat, y \in Nat : x = q * A /\ y = T * A
      OBVIOUS
    <3>4. A * T = y
      BY <3>3, SMT
    <3>5. QED
      BY <1>2, <3>1, <3>2, <3>3, <3>4
  <2>2. n = p * b + e
    <3>1. m * A = p * (A * T) + q * A
      <4>1. (p * T + q) * A = p * (A * T) + q * A
        BY SMT
      <4>2. QED
        BY <1>3, <4>1
    <3>2. PICK x \in Nat, y \in Nat, z \in Nat : x = m * A /\ y = p * b /\ z = q * A
      OBVIOUS
    <3>3. n = x + r /\ x = y + z /\ e = z + r
      BY <1>2, <2>1, <3>1, <3>2
    <3>4. QED
      BY <3>2, <3>3
  <2>3. QED
    BY <2>1, <2>2, Quotient
<1>7. m % (S * T) = h * T + q
  <2>1. PICK b \in Nat, e \in Nat : b = S * T /\ e = h * T + q /\ e < b
    <3>1. S * T \in Nat /\ h * T + q \in Nat
      BY SMT
    <3>2. h * T + T <= S * T
      <4>1. \A x \in Nat, y \in Nat : x < y => x * T + T <= y * T
        BY SMT
      <4>2. QED
        BY <4>1, <1>4
    <3>3. PICK x \in Nat, y \in Nat : x = h * T /\ y = S * T
      OBVIOUS
    <3>4. QED
      BY <1>3, <3>1, <3>2, <3>3
  <2>2. m = g * b + e
    <3>1. p * T = g * (S * T) + h * T
      <4>1. (g * S + h) * T = g * (S * T) + h * T
        BY SMT
      <4>2. QED
        BY <1>4, <4>1
    <3>2. PICK x \in Nat, y \in Nat, z \in Nat : x = p * T /\ y = g * b /\ z = h * T
      OBVIOUS
    <3>3. m = x + q /\ x = y + z /\ e = z + q
      BY <1>3, <2>1, <3>1, <3>2
    <3>4. QED
      BY <3>2, <3>3
  <2>3. QED
    BY <2>1, <2>2, Quotient
<1>8. Bits(n, a, s + t) = h * T + q
  BY <1>1, <1>2, <1>5, <1>7 DEF Bits
<1>9. Bits(n, a + t, s) = h
  BY <1>1, <1>4, <1>5, <1>6 DEF Bits
<1>10. Bits(n, a, t) = q
  BY <1>1, <1>2, <1>3 DEF Bits
<1>11. QED
  BY <1>1, <1>8, <1>9, <1>10

\* Bytes of bytes.
LEMMA BitsInside ==
  ASSUME NEW n \in Nat, NEW a \in Nat, NEW s \in Nat, NEW c \in Nat, NEW t \in Nat, c + t <= s
  PROVE  Bits(Bits(n, a, s), c, t) = Bits(n, a + c, t)
<1>1. PICK u \in Nat : s = (u + t) + c
  <2>1. s - (c + t) \in Nat /\ s = ((s - (c + t)) + t) + c
    OBVIOUS
  <2>2. QED
    BY <2>1
<1>2. PICK x \in Nat, y \in Nat, z \in Nat, w \in Nat :
        /\ x = Bits(n, a + c, u + t) /\ y = Bits(n, a, c)
        /\ z = Bits(n, (a + c) + t, u) /\ w = Bits(n, a + c, t)
        /\ y < Span[c] /\ w < Span[t]
  <2>1. a + c \in Nat /\ u + t \in Nat /\ (a + c) + t \in Nat
    OBVIOUS
  <2>2. QED
    BY <2>1, BitsTyped
<1>3. Bits(n, a, s) = x * Span[c] + y
  <2>1. u + t \in Nat
    OBVIOUS
  <2>2. QED
    BY <1>1, <1>2, <2>1, BitsJoin
<1>4. x = z * Span[t] + w
  <2>1. a + c \in Nat
    OBVIOUS
  <2>2. QED
    BY <1>2, <2>1, BitsJoin
<1>5. Span[c] \in Nat /\ Span[t] \in Nat
  BY SpanTyped
<1>6. (x * Span[c] + y) \div Span[c] = x
  BY <1>2, <1>5, Quotient
<1>7. (z * Span[t] + w) % Span[t] = w
  BY <1>2, <1>5, Quotient
<1>8. QED
  BY <1>2, <1>3, <1>4, <1>6, <1>7, Zenon DEF Bits

\* A number that fits is all of its bytes, and has none beyond them.
LEMMA BitsOutside ==
  ASSUME NEW n \in Nat, NEW a \in Nat, NEW s \in Nat
  PROVE  /\ n < Span[s] => Bits(n, 0, s) = n
         /\ n < Span[a] => Bits(n, a, s) = 0
         /\ Bits(n, a, 0) = 0
<1>1. ASSUME NEW b \in Nat, b > 0, n < b
      PROVE  n \div b = 0 /\ n % b = n
  <2>1. 0 * b + n = n
    OBVIOUS
  <2>2. (0 * b + n) \div b = 0 /\ (0 * b + n) % b = n
    BY <1>1, Quotient
  <2>3. QED
    BY <2>1, <2>2
<1>2. n \div 1 = n
  OBVIOUS
<1>3. ASSUME NEW b \in Nat, b > 0
      PROVE  0 % b = 0 /\ b % 1 = 0
  <2>1. 0 * b + 0 = 0 /\ b * 1 + 0 = b
    OBVIOUS
  <2>2. (0 * b + 0) % b = 0
    BY <1>3, Quotient
  <2>3. QED
    BY <2>1, <2>2
<1>4. Span[0] = 1 /\ Span[s] \in Nat /\ Span[s] > 0 /\ Span[a] \in Nat /\ Span[a] > 0
  BY SpanSteps, SpanTyped
<1>5. n < Span[s] => Bits(n, 0, s) = n
  BY <1>1, <1>2, <1>4 DEF Bits
<1>6. n < Span[a] => Bits(n, a, s) = 0
  BY <1>1, <1>3, <1>4 DEF Bits
<1>7. Bits(n, a, 0) = 0
  <2>1. PICK q \in Nat : q = n \div Span[a]
    BY <1>4, Division
  <2>2. q % 1 = 0
    OBVIOUS
  <2>3. QED
    BY <1>4, <2>1, <2>2 DEF Bits
<1>8. QED
  BY <1>5, <1>6, <1>7

\* Longer numbers have more values.
LEMMA SpanGrows == ASSUME NEW a \in Nat, NEW b \in Nat, a <= b PROVE Span[a] <= Span[b]
<1>1. PICK c \in Nat : b = a + c
  <2>1. b - a \in Nat /\ b = a + (b - a)
    OBVIOUS
  <2>2. QED
    BY <2>1
<1>2. Span[b] = Span[a] * Span[c]
  BY <1>1, SpanSum
<1>3. PICK x \in Nat, y \in Nat : x = Span[a] /\ y = Span[c] /\ x > 0 /\ y > 0
  BY SpanTyped
<1>4. x <= x * y
  BY <1>3, SMT
<1>5. QED
  BY <1>2, <1>3, <1>4

-----------------------------------------------------------------------------
(* The words of a number, and its elements.                                 *)
WordOf(n, d, N, i) == Bits(n, d * (N - 1 - i), d)

\* How many subregisters of d bytes m times d bytes take, and b bytes.
LEMMA WholeSubregs ==
  ASSUME NEW d \in Nat, d > 0, NEW m \in Nat, m > 0
  PROVE  (m * d - 1) \div d + 1 = m
<1>1. m * d - 1 = (m - 1) * d + (d - 1)
  BY SMT
<1>2. m - 1 \in Nat /\ d - 1 \in Nat /\ d - 1 < d
  OBVIOUS
<1>3. ((m - 1) * d + (d - 1)) \div d = m - 1
  BY <1>2, Quotient
<1>4. QED
  BY <1>1, <1>2, <1>3

\* Rounded up for any number of bytes.
LEMMA SomeSubregs ==
  ASSUME NEW d \in Nat, d > 0, NEW b \in Nat, b > 0
  PROVE  \E N \in Nat : /\ N = (b - 1) \div d + 1 /\ N > 0 /\ b <= N * d /\ (N - 1) * d < b
                        /\ b <= d => N = 1
<1>1. b - 1 \in Nat
  OBVIOUS
<1>2. PICK q \in Nat, r \in Nat : q = (b - 1) \div d /\ r < d /\ b - 1 = q * d + r
  BY <1>1, Divided, Zenon
<1>3. PICK x \in Nat : x = q * d
  BY SMT
<1>4. (q + 1) * d = x + d /\ ((q + 1) - 1) * d = x
  BY <1>3, SMT
<1>5. b <= x + d /\ x < b
  BY <1>2, <1>3
<1>6. b <= d => q = 0
  <2>1. \A y \in Nat : y > 0 => y * d >= d
    BY SMT
  <2>2. QED
    BY <1>3, <1>5, <2>1
<1>7. q + 1 \in Nat /\ q + 1 > 0
  OBVIOUS
<1>8. QED
  BY <1>2, <1>4, <1>5, <1>6, <1>7

\* An element, the first one on top.
Elem(n, e, c, k) == Bits(n, e * (c - 1 - k), e)

\* The function in Joined, step by step.
JoinUpTo(u, parts, from, to, size) ==
  u = [k \in from - 1 .. to |->
         IF k = from - 1 THEN 0 ELSE u[k - 1] * Span[size] + parts[k]]

\* Horner's rule puts a number together again from its parts.
LEMMA JoinedIs ==
  ASSUME NEW n \in Nat, NEW size \in Nat, NEW len \in Nat, NEW from \in Int, NEW to \in Int,
         len > 0, to = from + len - 1, n < Span[size * len],
         NEW parts, \A k \in from .. to : parts[k] = Bits(n, size * (to - k), size)
  PROVE  Joined(parts, from, to, size) = n
<1> DEFINE w == [k \in from - 1 .. to |-> Bits(n, size * (to - k), size * (k - from + 1))]
<1>1. w[from - 1] = 0
  <2>1. from - 1 \in from - 1 .. to /\ (from - 1) - from + 1 = 0 /\ to - (from - 1) = len
    OBVIOUS
  <2>2. size * 0 = 0 /\ size * len \in Nat
    BY SMT
  <2>3. Bits(n, size * len, 0) = 0
    BY <2>2, BitsOutside
  <2>4. QED
    BY <2>1, <2>2, <2>3
<1>2. \A k \in from .. to : w[k] = w[k - 1] * Span[size] + parts[k]
  <2>1. TAKE k \in from .. to
  <2>2. PICK x \in Nat, y \in Nat : x = to - k /\ y = k - from
    <3>1. to - k \in Nat /\ k - from \in Nat
      OBVIOUS
    <3>2. QED
      BY <3>1
  <2>3. PICK a \in Nat, s \in Nat : a = size * x /\ s = size * y
    BY SMT
  <2>4. Bits(n, a, s + size) = Bits(n, a + size, s) * Span[size] + Bits(n, a, size)
    BY BitsJoin
  <2>5. size * (x + 1) = a + size /\ size * (y + 1) = s + size
    BY <2>3, SMT
  <2>6. to - (k - 1) = x + 1 /\ k - from + 1 = y + 1 /\ (k - 1) - from + 1 = y
    BY <2>2
  <2>7. k \in from - 1 .. to /\ k - 1 \in from - 1 .. to
    OBVIOUS
  <2>8. w[k] = Bits(n, size * x, size * (y + 1)) /\ w[k - 1] = Bits(n, size * (x + 1), size * y)
    BY <2>2, <2>6, <2>7
  <2>9. parts[k] = Bits(n, size * x, size)
    <3>1. parts[k] = Bits(n, size * (to - k), size)
      OBVIOUS
    <3> HIDE DEF w
    <3>2. QED
      BY <2>2, <3>1
  <2> HIDE DEF w
  <2>10. QED
    BY <2>3, <2>4, <2>5, <2>8, <2>9
<1>3. JoinUpTo(w, parts, from, to, size)
  <2>1. w = [k \in from - 1 .. to |-> w[k]]
    OBVIOUS
  <2>2. \A k \in from - 1 .. to : k = from - 1 \/ k \in from .. to
    OBVIOUS
  <2> HIDE DEF w
  <2>3. \A k \in from - 1 .. to :
          w[k] = IF k = from - 1 THEN 0 ELSE w[k - 1] * Span[size] + parts[k]
    BY <1>1, <1>2, <2>2
  <2>4. QED
    BY <2>1, <2>3 DEF JoinUpTo
<1>4. PICK u : u = (CHOOSE x : JoinUpTo(x, parts, from, to, size))
  OBVIOUS
<1>5. JoinUpTo(u, parts, from, to, size)
  BY <1>3, <1>4, Zenon
<1>6. u[from - 1] = 0 /\ \A k \in from .. to : u[k] = u[k - 1] * Span[size] + parts[k]
  <2>1. \A k \in from - 1 .. to :
          u[k] = IF k = from - 1 THEN 0 ELSE u[k - 1] * Span[size] + parts[k]
    BY <1>5 DEF JoinUpTo
  <2>2. from - 1 \in from - 1 .. to /\ \A k \in from .. to : k \in from - 1 .. to /\ k # from - 1
    OBVIOUS
  <2>3. QED
    BY <2>1, <2>2
<1> HIDE DEF w
<1> DEFINE T == {k \in Nat : k <= len => u[(from - 1) + k] = w[(from - 1) + k]}
<1>7. 0 \in T
  BY <1>1, <1>6
<1>8. ASSUME NEW k \in T
      PROVE  k + 1 \in T
  <2>1. SUFFICES ASSUME k + 1 <= len
                 PROVE  u[(from - 1) + (k + 1)] = w[(from - 1) + (k + 1)]
    OBVIOUS
  <2>2. PICK x \in from .. to : x = (from - 1) + (k + 1) /\ x - 1 = (from - 1) + k
    <3>1. /\ (from - 1) + (k + 1) \in from .. to
          /\ ((from - 1) + (k + 1)) - 1 = (from - 1) + k
      BY <2>1
    <3>2. QED
      BY <3>1
  <2>3. u[x - 1] = w[x - 1]
    BY <2>1, <2>2
  <2>4. QED
    BY <1>2, <1>6, <2>2, <2>3
<1>9. T = Nat
  BY <1>7, <1>8, Induction
<1>10. u[to] = w[to]
  <2>1. len <= len => u[(from - 1) + len] = w[(from - 1) + len]
    <3>1. len \in T
      BY <1>9, Zenon
    <3>2. QED
      BY <3>1, Zenon
  <2>2. (from - 1) + len = to /\ len <= len
    OBVIOUS
  <2>3. QED
    BY <2>1, <2>2
<1>11. w[to] = n
  <2>1. to \in from - 1 .. to /\ to - to = 0 /\ to - from + 1 = len
    OBVIOUS
  <2>2. size * 0 = 0 /\ size * len \in Nat
    BY SMT
  <2>3. Bits(n, 0, size * len) = n
    BY <2>2, BitsOutside
  <2>4. QED
    BY <2>1, <2>2, <2>3 DEF w
<1>12. Joined(parts, from, to, size) = u[to]
  BY <1>4, Zenon DEF Joined, JoinUpTo
<1>13. QED
  BY <1>10, <1>11, <1>12

\* The function in Packed, step by step.
PackUpTo(v, buffer, i, p, e, off) ==
  v = [j \in 0 .. p |->
         IF j = 0 THEN 0
         ELSE IF i * p + (j - 1) - off >= 0
                THEN v[j - 1] * Span[e] + buffer[i * p + (j - 1) - off]
                ELSE v[j - 1]]

\* What its last step gives.
PackedUp(buffer, i, p, e, off) == (CHOOSE v : PackUpTo(v, buffer, i, p, e, off))[p]

\* The arguments of the lemmas about an access to N subregisters of p elements
\* each: i is the one accessed, and off is the padding.
PackArgs(n, e, p, N, c, i, off) ==
  /\ n \in Nat /\ e \in Nat /\ p \in Nat /\ N \in Nat /\ c \in Nat /\ i \in Nat
  /\ c > 0 /\ c <= N * p /\ n < Span[e * c] /\ i < N /\ off = N * p - c

\* The buffer holds the elements of the number.
Elems(buffer, n, e, c) == \A k \in 0 .. c - 1 : buffer[k] = Elem(n, e, c, k)

\* A subregister that holds several elements holds its word.
LEMMA PackIsWord ==
  ASSUME NEW n, NEW e, NEW p, NEW N, NEW c, NEW i, NEW off, PackArgs(n, e, p, N, c, i, off),
         NEW buffer, Elems(buffer, n, e, c)
  PROVE  PackedUp(buffer, i, p, e, off) = WordOf(n, p * e, N, i)
<1> /\ n \in Nat /\ e \in Nat /\ p \in Nat /\ N \in Nat /\ c \in Nat /\ i \in Nat
    /\ c > 0 /\ c <= N * p /\ n < Span[e * c] /\ i < N /\ off = N * p - c
    /\ \A k \in 0 .. c - 1 : buffer[k] = Elem(n, e, c, k)
  BY DEF PackArgs, Elems
<1>1. PICK P \in Nat : P = p * (N - 1 - i)
  BY SMT
<1>2. PICK ip \in Nat, Np \in Nat : ip = i * p /\ Np = N * p /\ Np = P + p + ip
  <2>1. p * (N - 1 - i) = N * p - p - i * p
    BY SMT
  <2>2. i * p \in Nat /\ N * p \in Nat
    BY SMT
  <2>3. PICK x \in Nat, y \in Nat : x = i * p /\ y = N * p
    BY <2>2
  <2>4. P = y - p - x
    BY <1>1, <2>1, <2>3
  <2>5. QED
    BY <2>3, <2>4
<1>3. off \in Nat /\ off = Np - c
  BY <1>2
<1> DEFINE w == [j \in 0 .. p |-> Bits(n, e * (P + p - j), e * j)]
<1>4. w[0] = 0
  <2>1. P + p - 0 \in Nat /\ e * 0 = 0 /\ e * (P + p - 0) \in Nat
    BY SMT
  <2>2. Bits(n, e * (P + p - 0), 0) = 0
    BY <2>1, BitsOutside
  <2>3. QED
    BY <2>1, <2>2
<1>5. ASSUME NEW j \in 1 .. p
      PROVE  w[j] = IF ip + (j - 1) - off >= 0
                      THEN w[j - 1] * Span[e] + buffer[ip + (j - 1) - off]
                      ELSE w[j - 1]
  <2>1. PICK x \in Nat, y \in Nat : x = P + p - j /\ y = j - 1
    <3>1. P + p - j \in Nat /\ j - 1 \in Nat
      OBVIOUS
    <3>2. QED
      BY <3>1
  <2>2. PICK a \in Nat, s \in Nat : a = e * x /\ s = e * y
    BY SMT
  <2>3. e * (x + 1) = a + e /\ e * (y + 1) = s + e
    BY <2>2, SMT
  <2>4. P + p - (j - 1) = x + 1 /\ j = y + 1
    BY <2>1
  <2>5. j \in 0 .. p /\ j - 1 \in 0 .. p
    OBVIOUS
  <2>6. /\ w[j] = Bits(n, e * (P + p - j), e * j)
        /\ w[j - 1] = Bits(n, e * (P + p - (j - 1)), e * (j - 1))
    BY <2>5
  <2>7. w[j] = Bits(n, a, s + e) /\ w[j - 1] = Bits(n, a + e, s)
    <3> HIDE DEF w
    <3>1. w[j] = Bits(n, e * x, e * (y + 1)) /\ w[j - 1] = Bits(n, e * (x + 1), e * y)
      BY <2>1, <2>4, <2>6, Zenon
    <3>2. QED
      BY <2>2, <2>3, <3>1
  <2> HIDE DEF w
  <2>8. PICK k \in Int : k = ip + (j - 1) - off /\ c - 1 - k = x
    BY <1>2, <1>3, <2>1
  <2>9. CASE k >= 0
    <3>1. k \in 0 .. c - 1
      BY <2>1, <2>8, <2>9
    <3>2. buffer[k] = Bits(n, a, e)
      BY <2>2, <2>8, <3>1 DEF Elem
    <3>3. Bits(n, a, s + e) = Bits(n, a + e, s) * Span[e] + Bits(n, a, e)
      BY BitsJoin
    <3>4. w[j] = w[j - 1] * Span[e] + buffer[k]
      BY <2>7, <3>2, <3>3
    <3>5. QED
      BY <2>8, <2>9, <3>4
  <2>10. CASE ~(k >= 0)
    <3>1. c <= x
      BY <2>8, <2>10
    <3>2. e * c <= e * x /\ e * c \in Nat
      <4>1. \A y1 \in Nat, z1 \in Nat : y1 <= z1 => e * y1 <= e * z1
        BY SMT
      <4>2. e * c \in Nat
        BY SMT
      <4>3. QED
        BY <3>1, <4>1, <4>2
    <3>3. n < Span[a] /\ n < Span[a + e]
      <4>1. Span[e * c] <= Span[a] /\ Span[e * c] <= Span[a + e]
        BY <2>2, <3>2, SpanGrows, a + e \in Nat
      <4>2. Span[e * c] \in Nat /\ Span[a] \in Nat /\ Span[a + e] \in Nat
        BY <3>2, SpanTyped, a + e \in Nat
      <4>3. QED
        BY <4>1, <4>2
    <3>4. Bits(n, a, s + e) = 0 /\ Bits(n, a + e, s) = 0
      BY <3>3, BitsOutside, a + e \in Nat, s + e \in Nat
    <3>5. QED
      BY <2>7, <2>8, <2>10, <3>4
  <2>11. QED
    BY <2>9, <2>10
<1>6. PackUpTo(w, buffer, i, p, e, off)
  <2>1. w = [j \in 0 .. p |-> w[j]]
    OBVIOUS
  <2>2. \A j \in 0 .. p : j = 0 \/ j \in 1 .. p
    OBVIOUS
  <2> HIDE DEF w
  <2>3. \A j \in 0 .. p :
          w[j] = IF j = 0 THEN 0
                 ELSE IF i * p + (j - 1) - off >= 0
                        THEN w[j - 1] * Span[e] + buffer[i * p + (j - 1) - off]
                        ELSE w[j - 1]
    BY <1>2, <1>4, <1>5, <2>2
  <2>4. QED
    BY <2>1, <2>3 DEF PackUpTo
<1>7. PICK v : v = (CHOOSE x : PackUpTo(x, buffer, i, p, e, off))
  OBVIOUS
<1>8. PackUpTo(v, buffer, i, p, e, off)
  BY <1>6, <1>7, Zenon
<1>9. ASSUME NEW j \in 1 .. p
      PROVE  v[j] = IF ip + (j - 1) - off >= 0
                      THEN v[j - 1] * Span[e] + buffer[ip + (j - 1) - off]
                      ELSE v[j - 1]
  <2>1. v[j] = IF j = 0 THEN 0
               ELSE IF i * p + (j - 1) - off >= 0
                      THEN v[j - 1] * Span[e] + buffer[i * p + (j - 1) - off]
                      ELSE v[j - 1]
    BY <1>8 DEF PackUpTo
  <2>2. QED
    BY <1>2, <2>1
<1>10. v[0] = 0
  BY <1>8 DEF PackUpTo
<1> HIDE DEF w
<1> DEFINE T == {j \in Nat : j <= p => v[j] = w[j]}
<1>11. 0 \in T
  BY <1>4, <1>10
<1>12. ASSUME NEW j \in T
       PROVE  j + 1 \in T
  <2>1. SUFFICES ASSUME j + 1 <= p
                 PROVE  v[j + 1] = w[j + 1]
    OBVIOUS
  <2>2. j + 1 \in 1 .. p /\ (j + 1) - 1 = j /\ v[j] = w[j]
    BY <2>1
  <2>3. QED
    BY <1>5, <1>9, <2>2
<1>13. T = Nat
  BY <1>11, <1>12, Induction
<1>14. v[p] = w[p]
  BY <1>13
<1>15. w[p] = WordOf(n, p * e, N, i)
  <2>1. p \in 0 .. p /\ P + p - p = P
    OBVIOUS
  <2>2. w[p] = Bits(n, e * P, e * p)
    BY <2>1 DEF w
  <2>3. e * P = (p * e) * (N - 1 - i) /\ e * p = p * e
    <3>1. \A x \in Int : e * (p * x) = (p * e) * x
      BY SMT
    <3>2. QED
      BY <1>1, <3>1
  <2>4. QED
    BY <2>2, <2>3, Zenon DEF WordOf
<1>16. QED
  BY <1>7, <1>14, <1>15, Zenon DEF PackedUp

\* An element is read out of the word it was packed into.
LEMMA PackRead ==
  ASSUME NEW n, NEW e, NEW p, NEW N, NEW c, NEW i, NEW off, PackArgs(n, e, p, N, c, i, off),
         NEW k \in 0 .. c - 1, NEW j \in 0 .. p - 1, j = k + off - i * p
  PROVE  Bits(WordOf(n, p * e, N, i), e * (p - 1 - j), e) = Elem(n, e, c, k)
<1> n \in Nat /\ e \in Nat /\ p \in Nat /\ N \in Nat /\ c \in Nat /\ i \in Nat /\ i < N
  BY DEF PackArgs
<1>1. PICK g \in Nat, h \in Nat : g = N - 1 - i /\ h = p - 1 - j
  BY N - 1 - i \in Nat, p - 1 - j \in Nat
<1>2. PICK a \in Nat, s \in Nat, z \in Nat : a = (p * e) * g /\ s = p * e /\ z = e * h
  BY SMT
<1>3. z + e <= s
  <2>1. h + 1 <= p
    BY <1>1
  <2>2. \A x \in Nat, y \in Nat : x <= y => e * x <= e * y
    BY SMT
  <2>3. e * (h + 1) <= e * p
    BY <2>1, <2>2
  <2>4. e * (h + 1) = e * h + e /\ e * p = p * e
    BY SMT
  <2>5. QED
    BY <1>2, <2>3, <2>4
<1>4. Bits(Bits(n, a, s), z, e) = Bits(n, a + z, e)
  BY <1>3, BitsInside, SMTT(60)
<1>5. a + z = e * (c - 1 - k)
  <2>1. p * g + h = c - 1 - k
    <3>1. p * (N - 1 - i) = N * p - p - i * p
      BY SMT
    <3>2. PICK x \in Nat, y \in Nat : x = N * p /\ y = i * p
      BY SMT
    <3>3. p * g = x - p - y
      BY <1>1, <3>1, <3>2
    <3>4. off = x - c /\ j = k + off - y
      BY <3>2 DEF PackArgs
    <3>5. QED
      BY <1>1, <3>2, <3>3, <3>4
  <2>2. e * (p * g + h) = (p * e) * g + e * h
    BY SMT
  <2>3. QED
    BY <1>2, <2>1, <2>2
<1>6. QED
  BY <1>1, <1>2, <1>4, <1>5 DEF WordOf, Elem

-----------------------------------------------------------------------------
(* How a CSR lies in its subregisters. *)

\* An element takes m whole subregisters, or it is the CSR and takes a part of one.
SlicesFit(d, e, c, m) == e = m * d \/ (m = 1 /\ c = 1 /\ e < d)

\* Whole subregisters for every element.
LEMMA WholeLayout ==
  ASSUME NEW d \in DataWidths, NEW e \in ElemSizes, NEW c \in Nat, c > 0, c = 1 \/ e >= d
  PROVE  \E m \in Nat : /\ m > 0 /\ m = (e - 1) \div d + 1
                        /\ m * c = (e * c - 1) \div d + 1 /\ SlicesFit(d, e, c, m)
<1>1. d \in Nat /\ d > 0 /\ e \in Nat /\ e > 0
  BY BufferAssumption
<1>2. CASE e >= d
  <2>1. PICK m \in Nat, r \in Nat : m = e \div d /\ r = e % d /\ r < d /\ e = m * d + r
    BY <1>1, Divided, Zenon
  <2>2. r = 0
    <3>1. CASE e % d = 0
      BY <2>1, <3>1
    <3>2. CASE d % e = 0
      <4>1. PICK x \in Nat : d = x * e + 0
        BY <1>1, <3>2, Divided
      <4>2. \A y \in Nat : y > 1 => y * e >= e + e
        BY <1>1, SMT
      <4>3. x = 0 \/ x = 1 \/ x > 1
        BY <4>1
      <4>4. 0 * e = 0 /\ 1 * e = e
        BY <1>1
      <4>5. d = e
        <5>1. PICK y \in Nat : y = x * e /\ d = y
          BY <1>1, <4>1, SMT
        <5>2. x = 0 => y = 0
          BY <4>4, <5>1
        <5>3. x > 1 => y >= e + e
          BY <4>2, <5>1
        <5>4. x = 1 => y = e
          BY <4>4, <5>1
        <5>5. QED
          BY <1>1, <1>2, <4>3, <5>1, <5>2, <5>3, <5>4
      <4>6. (1 * d + 0) % d = 0
        BY <1>1, Quotient
      <4>7. 1 * d + 0 = e
        BY <1>1, <4>5
      <4>8. QED
        BY <2>1, <4>6, <4>7, Zenon
    <3>3. QED
      BY <3>1, <3>2, WidthsAssumption
  <2>3. e = m * d
    BY <1>1, <2>1, <2>2
  <2>4. m > 0
    <3>1. 0 * d = 0
      BY <1>1
    <3>2. QED
      BY <1>1, <2>3, <3>1
  <2>5. m = (e - 1) \div d + 1
    <3>1. (m * d - 1) \div d + 1 = m
      BY <1>1, <2>4, WholeSubregs
    <3>2. QED
      BY <2>3, <3>1, Zenon
  <2>6. m * c = (e * c - 1) \div d + 1
    <3>1. PICK x \in Nat : x = m * c /\ x > 0
      BY <2>4, SMT
    <3>2. (x * d - 1) \div d + 1 = x
      BY <1>1, <3>1, WholeSubregs
    <3>3. x * d = e * c
      <4>1. (m * c) * d = (m * d) * c
        BY <1>1, SMT
      <4>2. QED
        BY <2>3, <3>1, <4>1, Zenon
    <3>4. QED
      BY <3>1, <3>2, <3>3, Zenon
  <2>7. QED
    BY <2>3, <2>4, <2>5, <2>6, Zenon DEF SlicesFit
<1>3. CASE e < d /\ c = 1
  <2>1. PICK N \in Nat : N = (e - 1) \div d + 1 /\ (e <= d => N = 1)
    BY <1>1, SomeSubregs
  <2>2. N = 1
    BY <1>1, <1>3, <2>1
  <2>3. e * c = e /\ 1 * c = 1
    BY <1>1, <1>3
  <2>4. 1 = (e - 1) \div d + 1 /\ 1 * c = (e * c - 1) \div d + 1
    BY <2>1, <2>2, <2>3, Zenon
  <2>5. SlicesFit(d, e, c, 1) /\ 1 \in Nat /\ 1 > 0
    BY <1>3 DEF SlicesFit
  <2>6. QED
    BY <2>4, <2>5, Zenon
<1>4. QED
  BY <1>1, <1>2, <1>3

\* A subregister holds p elements, and there are subregisters enough.
LEMMA PackLayout ==
  ASSUME NEW d \in DataWidths, NEW e \in ElemSizes, NEW c \in Nat, c > 0, ~(e >= d)
  PROVE  \E p \in Nat, N \in Nat : /\ p = d \div e /\ N = (e * c - 1) \div d + 1
                                   /\ p > 0 /\ N > 0 /\ d = p * e /\ c <= N * p
<1>1. d \in Nat /\ d > 0 /\ e \in Nat /\ e > 0 /\ e < d
  BY BufferAssumption
<1>2. d % e = 0
  <2>1. CASE e % d = 0
    <3>1. 0 * d + e = e
      BY <1>1
    <3>2. (0 * d + e) % d = e
      BY <1>1, Quotient
    <3>3. QED
      BY <1>1, <2>1, <3>1, <3>2
  <2>2. QED
    BY <2>1, WidthsAssumption
<1>3. PICK p \in Nat : p = d \div e /\ d = p * e
  <2>1. PICK p \in Nat, r \in Nat : p = d \div e /\ r = d % e /\ r < e /\ d = p * e + r
    BY <1>1, Divided, Zenon
  <2>2. d = p * e
    BY <1>1, <1>2, <2>1
  <2>3. QED
    BY <2>1, <2>2
<1>4. p > 0
  <2>1. 0 * e = 0
    BY <1>1
  <2>2. QED
    BY <1>1, <1>3, <2>1
<1>5. e * c \in Nat /\ e * c > 0
  BY <1>1, SMT
<1>6. PICK N \in Nat : N = (e * c - 1) \div d + 1 /\ N > 0 /\ e * c <= N * d
  BY <1>1, <1>5, SomeSubregs
<1>7. c <= N * p
  <2>1. PICK x \in Nat : x = N * p
    BY SMT
  <2>2. N * d = e * x
    <3>1. N * (p * e) = e * (N * p)
      BY <1>1, SMT
    <3>2. QED
      BY <1>3, <2>1, <3>1, Zenon
  <2>3. \A y \in Nat, z \in Nat : y < z => e * y < e * z
    BY <1>1, SMT
  <2>4. x < c => e * x < e * c
    BY <2>1, <2>3
  <2>5. e * x \in Nat
    BY <1>1, <2>1, SMT
  <2>6. QED
    BY <1>5, <1>6, <2>1, <2>2, <2>4, <2>5
<1>8. QED
  BY <1>3, <1>4, <1>6, <1>7, Zenon

-----------------------------------------------------------------------------
(* An element slice by slice. *)

\* How many of the m slices of element k are among the first i.
Got(m, i, k) == IF i <= m * k THEN 0 ELSE IF i >= m * k + m THEN m ELSE i - m * k

\* What an element holds when i slices have been read.
Sliced(n, d, e, c, m, i, k) ==
  Bits(n, e * (c - 1 - k) + d * (m - Got(m, i, k)), d * Got(m, i, k))

\* A slice is one of its element and of no other.
LEMMA GotOne ==
  ASSUME NEW m \in Nat, NEW q \in Nat, NEW r \in Nat
  PROVE  r < m => Got(m, m * q + r, q) = r /\ Got(m, m * q + r + 1, q) = r + 1
<1>1. PICK a \in Nat : a = m * q
  BY SMT
<1>2. QED
  BY <1>1 DEF Got

\* The arguments of the lemmas about an access by slices: r is the slice of
\* element q that is accessed.
SliceArgs(n, d, e, c, m, q, r) ==
  /\ n \in Nat /\ d \in Nat /\ e \in Nat /\ c \in Nat /\ m \in Nat /\ q \in Nat /\ r \in Nat
  /\ SlicesFit(d, e, c, m) /\ n < Span[e * c] /\ q < c /\ r < m

\* An element starts with no slice and ends with all of them.
LEMMA SlicedAround ==
  ASSUME NEW n, NEW d, NEW e, NEW c, NEW m, NEW k, SliceArgs(n, d, e, c, m, k, 0)
  PROVE  /\ Sliced(n, d, e, c, m, 0, k) = 0
         /\ Sliced(n, d, e, c, m, m * c, k) = Elem(n, e, c, k)
<1> /\ n \in Nat /\ d \in Nat /\ e \in Nat /\ c \in Nat /\ m \in Nat /\ m > 0
    /\ SlicesFit(d, e, c, m) /\ n < Span[e * c] /\ k \in 0 .. c - 1
  BY DEF SliceArgs
<1>1. m * k \in Nat /\ m * k + m <= m * c
  <2>1. \A x \in Nat, y \in Nat : x < y => m * x + m <= m * y
    BY SMT
  <2>2. k < c /\ k \in Nat
    OBVIOUS
  <2>3. m * k \in Nat
    BY <2>2, SMT
  <2>4. QED
    BY <2>1, <2>2, <2>3
<1>2. PICK x \in Nat, y \in Nat : x = m * k /\ y = m * c /\ x + m <= y
  <2>1. m * c \in Nat
    BY SMT
  <2>2. QED
    BY <1>1, <2>1
<1>3. Got(m, 0, k) = 0 /\ Got(m, m * c, k) = m
  BY <1>2 DEF Got
<1>4. PICK g \in Nat : g = c - 1 - k
  BY c - 1 - k \in Nat
<1>5. PICK a \in Nat, s \in Nat : a = e * g /\ s = d * m /\ d * 0 = 0
  BY SMT
<1>6. Sliced(n, d, e, c, m, 0, k) = 0
  <2>1. m - 0 = m
    OBVIOUS
  <2>2. Sliced(n, d, e, c, m, 0, k) = Bits(n, a + s, 0)
    BY <1>3, <1>4, <1>5, <2>1, Zenon DEF Sliced
  <2>3. Bits(n, a + s, 0) = 0
    BY BitsOutside, a + s \in Nat
  <2>4. QED
    BY <2>2, <2>3
<1>7. Sliced(n, d, e, c, m, m * c, k) = Bits(n, a, s)
  <2>1. m - m = 0 /\ a + 0 = a
    OBVIOUS
  <2>2. QED
    BY <1>3, <1>4, <1>5, <2>1, Zenon DEF Sliced
<1>8. Elem(n, e, c, k) = Bits(n, a, e)
  BY <1>4, <1>5, Zenon DEF Elem
<1>9. CASE e = m * d
  <2>1. m * d = d * m
    BY SMT
  <2>2. QED
    <3>1. s = e
      BY <1>5, <1>9, <2>1, Zenon
    <3>2. QED
      BY <1>6, <1>7, <1>8, <3>1, Zenon
<1>10. CASE m = 1 /\ c = 1 /\ e < d
  <2>1. a = 0 /\ s = d /\ e * c = e
    <3>1. g = 0
      <4>1. k \in 0 .. 1 - 1
        BY <1>10, Zenon
      <4>2. k = 0 /\ 1 - 1 - 0 = 0
        BY <4>1
      <4>3. QED
        BY <1>4, <1>10, <4>2
    <3> e * 0 = 0 /\ d * 1 = d /\ e * 1 = e
      OBVIOUS
    <3>2. QED
      BY <1>5, <1>10, <3>1, Zenon
  <2>2. n < Span[e] /\ n < Span[d]
    <3>1. Span[e] <= Span[d] /\ Span[e] \in Nat /\ Span[d] \in Nat
      BY <1>10, SpanGrows, SpanTyped
    <3>2. n < Span[e]
      BY <2>1, Zenon
    <3>3. QED
      BY <3>1, <3>2
  <2>3. Bits(n, 0, d) = n /\ Bits(n, 0, e) = n
    BY <2>2, BitsOutside
  <2>4. Bits(n, a, s) = n /\ Bits(n, a, e) = n
    BY <2>1, <2>3, Zenon
  <2>5. QED
    BY <1>6, <1>7, <1>8, <2>4, Zenon
<1>11. QED
  BY <1>9, <1>10 DEF SlicesFit

\* The subregister that is written for a slice holds its word of the number.
LEMMA SliceWritten ==
  ASSUME NEW n, NEW d, NEW e, NEW c, NEW m, NEW q, NEW r, SliceArgs(n, d, e, c, m, q, r)
  PROVE  Bits(Elem(n, e, c, q), d * (m - 1 - r), d) = WordOf(n, d, m * c, m * q + r)
<1> /\ n \in Nat /\ d \in Nat /\ e \in Nat /\ c \in Nat /\ m \in Nat /\ q \in Nat /\ r \in Nat
    /\ SlicesFit(d, e, c, m) /\ n < Span[e * c] /\ q < c /\ r < m
  BY DEF SliceArgs
<1>1. CASE e = m * d
  <2>1. Elem(n, e, c, q) = Bits(n, (m * d) * (c - 1 - q), m * d)
    BY <1>1, Zenon DEF Elem
  <2>2. Bits(Bits(n, (m * d) * (c - 1 - q), m * d), d * (m - 1 - r), d)
          = WordOf(n, d, m * c, m * q + r)
    <3>1. PICK g \in Nat, h \in Nat : g = c - 1 - q /\ h = m - 1 - r
      BY c - 1 - q \in Nat, m - 1 - r \in Nat
    <3>2. PICK a \in Nat, s \in Nat, z \in Nat : a = (m * d) * g /\ s = m * d /\ z = d * h
      BY SMT
    <3>3. z + d <= s
      <4>1. h + 1 <= m
        BY <3>1
      <4>2. \A x \in Nat, y \in Nat : x <= y => d * x <= d * y
        BY SMT
      <4>3. d * (h + 1) <= d * m
        BY <4>1, <4>2
      <4>4. d * (h + 1) = d * h + d /\ d * m = m * d
        BY SMT
      <4>5. QED
        BY <3>2, <4>3, <4>4
    <3>4. Bits(Bits(n, a, s), z, d) = Bits(n, a + z, d)
      BY <3>3, BitsInside
    <3>5. a + z = d * (m * c - 1 - (m * q + r))
      <4>1. m * c - 1 - (m * q + r) = m * g + h
        <5>1. m * (c - 1 - q) = m * c - m - m * q
          BY SMT
        <5>2. PICK x \in Nat, y \in Nat : x = m * c /\ y = m * q
          BY SMT
        <5>3. m * g = x - m - y
          BY <3>1, <5>1, <5>2
        <5>4. QED
          BY <3>1, <5>2, <5>3
      <4>2. d * (m * g + h) = (m * d) * g + d * h
        BY SMT
      <4>3. QED
        BY <3>2, <4>1, <4>2
    <3>6. QED
      BY <3>1, <3>2, <3>4, <3>5 DEF WordOf
  <2>3. QED
    BY <2>1, <2>2, Zenon
<1>2. CASE m = 1 /\ c = 1 /\ e < d
  <2>1. q = 0 /\ r = 0
    BY <1>2
  <2>2. e * (1 - 1 - 0) = 0 /\ d * (1 - 1 - 0) = 0 /\ e * 1 = e /\ 1 * 1 = 1 /\ 1 * 0 + 0 = 0
    BY SMT
  <2>3. n < Span[e] /\ n < Span[d]
    <3>1. Span[e] <= Span[d] /\ Span[e] \in Nat /\ Span[d] \in Nat
      BY <1>2, SpanGrows, SpanTyped
    <3>2. n < Span[e]
      BY <1>2, <2>2, Zenon
    <3>3. QED
      BY <3>1, <3>2
  <2>4. Bits(n, 0, d) = n /\ Bits(n, 0, e) = n
    BY <2>3, BitsOutside
  <2>5. Elem(n, e, 1, 0) = n /\ WordOf(n, d, 1, 0) = n
    BY <2>2, <2>4, Zenon DEF Elem, WordOf
  <2>6. Bits(Elem(n, e, 1, 0), d * (1 - 1 - 0), d) = WordOf(n, d, 1 * 1, 1 * 0 + 0)
    BY <2>2, <2>4, <2>5, Zenon
  <2>7. QED
    BY <1>2, <2>1, <2>6, Zenon
<1>3. QED
  BY <1>1, <1>2 DEF SlicesFit

\* The subregister that is read changes no other element.
LEMMA SliceKept ==
  ASSUME NEW n, NEW d, NEW e, NEW c, NEW m, NEW q, NEW r, SliceArgs(n, d, e, c, m, q, r),
         NEW k \in Nat, k # q
  PROVE  Sliced(n, d, e, c, m, m * q + r + 1, k) = Sliced(n, d, e, c, m, m * q + r, k)
<1> m \in Nat /\ q \in Nat /\ r \in Nat /\ r < m
  BY DEF SliceArgs
<1>1. \A x \in Nat, y \in Nat : x < y => m * x + m <= m * y
  BY SMT
<1>2. PICK a \in Nat, b \in Nat : a = m * q /\ b = m * k
  BY SMT
<1>3. (k < q => b + m <= a) /\ (q < k => a + m <= b)
  BY <1>1, <1>2
<1>4. Got(m, a + r + 1, k) = Got(m, a + r, k)
  <2>1. CASE k < q
    <3>1. b + m <= a
      BY <1>3, <2>1
    <3>2. QED
      BY <1>2, <3>1 DEF Got
  <2>2. CASE q < k
    <3>1. a + m <= b
      BY <1>3, <2>2
    <3>2. QED
      BY <1>2, <3>1 DEF Got
  <2>3. QED
    BY <2>1, <2>2
<1>5. Got(m, m * q + r + 1, k) = Got(m, m * q + r, k)
  BY <1>2, <1>4, Zenon
<1>6. QED
  BY <1>5, Zenon DEF Sliced

\* The subregister that is read completes the element by one slice.
LEMMA SliceShifted ==
  ASSUME NEW n, NEW d, NEW e, NEW c, NEW m, NEW q, NEW r, SliceArgs(n, d, e, c, m, q, r)
  PROVE  (Sliced(n, d, e, c, m, m * q + r, q) * Span[d] + WordOf(n, d, m * c, m * q + r)) % Span[e]
           = Sliced(n, d, e, c, m, m * q + r + 1, q)
<1> /\ n \in Nat /\ d \in Nat /\ e \in Nat /\ c \in Nat /\ m \in Nat /\ q \in Nat /\ r \in Nat
    /\ SlicesFit(d, e, c, m) /\ n < Span[e * c] /\ q < c /\ r < m
  BY DEF SliceArgs
<1>1. Got(m, m * q + r, q) = r /\ Got(m, m * q + r + 1, q) = r + 1
  BY GotOne, Zenon
<1>2. /\ Sliced(n, d, e, c, m, m * q + r, q)
           = Bits(n, e * (c - 1 - q) + d * (m - r), d * r)
      /\ Sliced(n, d, e, c, m, m * q + r + 1, q)
           = Bits(n, e * (c - 1 - q) + d * (m - (r + 1)), d * (r + 1))
  BY <1>1, Zenon DEF Sliced
<1>3. CASE e = m * d
  <2>1. (Bits(n, (m * d) * (c - 1 - q) + d * (m - r), d * r) * Span[d]
            + WordOf(n, d, m * c, m * q + r)) % Span[m * d]
           = Bits(n, (m * d) * (c - 1 - q) + d * (m - (r + 1)), d * (r + 1))
    <3>1. PICK g \in Nat, h \in Nat : g = c - 1 - q /\ h = m - 1 - r
      BY c - 1 - q \in Nat, m - 1 - r \in Nat
    <3>2. PICK a \in Nat, s \in Nat : a = (m * d) * g + d * h /\ s = d * r
      BY SMT
    <3>3. Bits(n, a, s + d) = Bits(n, a + d, s) * Span[d] + Bits(n, a, d)
      BY BitsJoin
    <3>4. d * (m * c - 1 - (m * q + r)) = a
      <4>1. m * c - 1 - (m * q + r) = m * g + h
        <5>1. m * (c - 1 - q) = m * c - m - m * q
          BY SMT
        <5>2. PICK x \in Nat, y \in Nat : x = m * c /\ y = m * q
          BY SMT
        <5>3. m * g = x - m - y
          BY <3>1, <5>1, <5>2
        <5>4. QED
          BY <3>1, <5>2, <5>3
      <4>2. d * (m * g + h) = (m * d) * g + d * h
        BY SMT
      <4>3. QED
        BY <3>2, <4>1, <4>2
    <3>5. m - r = h + 1 /\ m - (r + 1) = h
      BY <3>1
    <3>6. (m * d) * g + d * (h + 1) = a + d /\ d * (r + 1) = s + d
      BY <3>2, SMT
    <3>7. Bits(n, a, s + d) \in Nat /\ Bits(n, a, s + d) < Span[s + d]
      BY BitsTyped, s + d \in Nat
    <3>8. Span[s + d] <= Span[m * d]
      <4>1. \A x \in Nat, y \in Nat : x <= y => d * x <= d * y
        BY SMT
      <4>2. d * (r + 1) <= d * m
        BY <4>1, r + 1 \in Nat, r + 1 <= m
      <4>3. d * m = m * d /\ m * d \in Nat
        BY SMT
      <4>4. QED
        BY <3>6, <4>2, <4>3, SpanGrows, s + d \in Nat
    <3>9. PICK v \in Nat, b \in Nat : v = Bits(n, a, s + d) /\ b = Span[m * d] /\ v < b
      <4>1. m * d \in Nat /\ s + d \in Nat
        BY SMT
      <4>2. QED
        BY <3>7, <3>8, <4>1, SpanTyped
    <3>10. v % b = v
      <4>1. 0 * b + v = v
        OBVIOUS
      <4>2. (0 * b + v) % b = v
        BY <3>9, Quotient
      <4>3. QED
        BY <4>1, <4>2
    <3>11. WordOf(n, d, m * c, m * q + r) = Bits(n, a, d)
      BY <3>4 DEF WordOf
    <3>12. /\ Bits(n, (m * d) * (c - 1 - q) + d * (m - r), d * r) = Bits(n, a + d, s)
           /\ Bits(n, (m * d) * (c - 1 - q) + d * (m - (r + 1)), d * (r + 1)) = Bits(n, a, s + d)
      BY <3>1, <3>2, <3>5, <3>6
    <3>13. QED
      BY <3>3, <3>9, <3>10, <3>11, <3>12
  <2>2. QED
    BY <1>2, <1>3, <2>1, Zenon
<1>4. CASE m = 1 /\ c = 1 /\ e < d
  <2>1. q = 0 /\ r = 0
    BY <1>4
  <2>2. /\ e * (1 - 1 - 0) + d * (1 - 0) = d /\ d * 0 = 0
        /\ e * (1 - 1 - 0) + d * (1 - (0 + 1)) = 0 /\ d * (0 + 1) = d
        /\ e * 1 = e /\ 1 * 1 = 1 /\ 1 * 0 + 0 = 0 /\ d * (1 - 1 - 0) = 0
    BY SMT
  <2>3. n < Span[e] /\ n < Span[d] /\ Span[e] \in Nat /\ Span[d] \in Nat
    <3>1. Span[e] <= Span[d] /\ Span[e] \in Nat /\ Span[d] \in Nat
      BY <1>4, SpanGrows, SpanTyped
    <3>2. n < Span[e]
      BY <1>4, <2>2, Zenon
    <3>3. QED
      BY <3>1, <3>2
  <2>4. Bits(n, d, 0) = 0 /\ Bits(n, 0, d) = n
    BY <2>3, BitsOutside
  <2>5. WordOf(n, d, 1, 0) = n
    BY <2>2, <2>4, Zenon DEF WordOf
  <2>6. (0 * Span[d] + n) % Span[e] = n
    <3>1. PICK x \in Nat, y \in Nat : x = Span[d] /\ y = Span[e] /\ n < y
      BY <2>3
    <3>2. 0 * x + n = 0 * y + n
      OBVIOUS
    <3>3. (0 * y + n) % y = n
      BY <3>1, Quotient
    <3>4. QED
      BY <3>1, <3>2, <3>3, Zenon
  <2>7. (Bits(n, e * (1 - 1 - 0) + d * (1 - 0), d * 0) * Span[d]
           + WordOf(n, d, 1 * 1, 1 * 0 + 0)) % Span[e]
          = Bits(n, e * (1 - 1 - 0) + d * (1 - (0 + 1)), d * (0 + 1))
    BY <2>2, <2>4, <2>5, <2>6, Zenon
  <2>8. QED
    BY <1>2, <1>4, <2>1, <2>7, Zenon
<1>5. QED
  BY <1>3, <1>4 DEF SlicesFit

-----------------------------------------------------------------------------
(* What the accessors keep. *)

\* The CSR and the number that was written to it.
BufferTypes ==
  /\ dw \in DataWidths /\ bytes \in Nat \ {0}
  /\ subregs \in [1 .. num_subregs(bytes) -> Nat]
  /\ number = -1 \/ (number \in Nat /\ number < Span[bytes])

\* A call has the shape of the CSR, and follows a write.
AccessTypes ==
  access # NoAccess =>
    /\ access.op = "write" \/ access.op = "read"
    /\ access.es \in ElemSizes /\ access.cnt \in Nat \ {0} /\ access.es * access.cnt = bytes
    /\ access.scalar \in BOOLEAN /\ (access.scalar => access.cnt = 1)
    /\ number # -1 /\ next \in Nat /\ next <= num_subregs(bytes)

\* The first i subregisters hold their words of the number.
Holds(i) == \A k \in 0 .. i - 1 : subregs[k + 1] = WordOf(number, dw, num_subregs(bytes), k)

\* So do the ones that have been written, and later all of them.
CsrHolds ==
  /\ access.op = "write" => Holds(next)
  /\ access.op # "write" /\ number # -1 => Holds(num_subregs(bytes))

\* What element k holds when i subregisters have been read.
SoFar(i, k) ==
  IF Whole THEN Sliced(number, dw, access.es, access.cnt, num_subregs(access.es), i, k)
  ELSE IF k + offset < i * nsubelems THEN Elem(number, access.es, access.cnt, k) ELSE 0

\* The buffer is the number, or what has been read of it.
BufHolds ==
  access # NoAccess =>
    buf = [k \in 0 .. access.cnt - 1 |->
             IF access.op = "write" THEN Elem(number, access.es, access.cnt, k)
                                    ELSE SoFar(next, k)]

\* The inductive invariant of the accessors of wide CSRs.
BufferInv == BufferTypes /\ AccessTypes /\ CsrHolds /\ BufHolds

\* The number of the subregisters.
LEMMA Subregs ==
  ASSUME BufferTypes
  PROVE  \E d \in Nat, b \in Nat, N \in Nat :
           /\ d = dw /\ b = bytes /\ N = num_subregs(bytes) /\ d > 0 /\ b > 0 /\ N > 0
           /\ b <= N * d /\ Len(subregs) = N
<1>1. dw \in Nat /\ dw > 0 /\ bytes \in Nat /\ bytes > 0
  BY BufferAssumption DEF BufferTypes
<1>2. PICK N \in Nat : N = (bytes - 1) \div dw + 1 /\ N > 0 /\ bytes <= N * dw
  BY <1>1, SomeSubregs
<1>3. N = num_subregs(bytes)
  BY <1>2, Zenon DEF num_subregs
<1>4. subregs \in [1 .. N -> Nat]
  BY <1>3, Zenon DEF BufferTypes
<1>5. Len(subregs) = N
  BY <1>2, <1>4
<1>6. QED
  BY <1>1, <1>2, <1>3, <1>5, Zenon

\* An access by whole subregisters, and one by several elements in each.
LEMMA WholeAccess ==
  ASSUME BufferTypes, AccessTypes, access # NoAccess, Whole
  PROVE  \E m \in Nat : /\ m > 0 /\ m = num_subregs(access.es)
                        /\ m * access.cnt = num_subregs(bytes)
                        /\ SlicesFit(dw, access.es, access.cnt, m)
<1>1. /\ dw \in DataWidths /\ access.es \in ElemSizes /\ access.es * access.cnt = bytes
      /\ access.cnt \in Nat /\ access.cnt > 0
  BY DEF BufferTypes, AccessTypes
<1>2. access.cnt = 1 \/ access.es >= dw
  BY DEF Whole, AccessTypes
<1>3. PICK m \in Nat : /\ m > 0 /\ m = (access.es - 1) \div dw + 1
                       /\ m * access.cnt = (access.es * access.cnt - 1) \div dw + 1
                       /\ SlicesFit(dw, access.es, access.cnt, m)
  BY <1>1, <1>2, WholeLayout
<1>4. QED
  BY <1>1, <1>3, Zenon DEF num_subregs

\* The same for several elements in each subregister.
LEMMA PackedAccess ==
  ASSUME BufferTypes, AccessTypes, access # NoAccess, ~Whole
  PROVE  \E p \in Nat, N \in Nat :
           /\ p > 0 /\ p = nsubelems /\ N > 0 /\ N = num_subregs(bytes)
           /\ dw = p * access.es /\ access.cnt <= N * p /\ offset = N * p - access.cnt
<1>1. /\ dw \in DataWidths /\ access.es \in ElemSizes /\ access.es * access.cnt = bytes
      /\ access.cnt \in Nat /\ access.cnt > 0
  BY DEF BufferTypes, AccessTypes
<1>2. ~(access.es >= dw)
  BY DEF Whole
<1>3. PICK p \in Nat, N \in Nat :
           /\ p = dw \div access.es /\ N = (access.es * access.cnt - 1) \div dw + 1
           /\ p > 0 /\ N > 0 /\ dw = p * access.es /\ access.cnt <= N * p
  BY <1>1, <1>2, PackLayout
<1>4. QED
  BY <1>1, <1>3, Zenon DEF num_subregs, nsubelems, offset

\* The number has its bytes.
LEMMA NumberFits ==
  ASSUME BufferTypes, AccessTypes, access # NoAccess
  PROVE  number \in Nat /\ number < Span[access.es * access.cnt]
<1>1. number \in Nat /\ number < Span[bytes] /\ access.es * access.cnt = bytes
  BY DEF BufferTypes, AccessTypes
<1>2. QED
  BY <1>1, Zenon

\* An access by slices is at one slice of one element.
LEMMA AtSlice ==
  ASSUME NEW m \in Nat, m > 0, NEW c \in Nat, NEW i \in Nat, i < m * c
  PROVE  \E q \in Nat, r \in Nat : /\ q = i \div m /\ r = i % m /\ q < c /\ r < m
                                   /\ i = m * q + r
<1>1. PICK q \in Nat, r \in Nat : q = i \div m /\ r = i % m /\ r < m /\ i = q * m + r
  BY Divided, Zenon
<1>2. PICK x \in Nat, y \in Nat : x = m * q /\ y = m * c /\ q * m = x
  BY SMT
<1>3. \A z \in Nat, w \in Nat : z <= w => m * z <= m * w
  BY SMT
<1>4. ~(c <= q)
  <2>1. c <= q => y <= x
    BY <1>2, <1>3
  <2>2. QED
    BY <1>1, <1>2, <2>1
<1>5. i = m * q + r
  BY <1>1, <1>2
<1>6. q < c
  BY <1>4
<1>7. QED
  BY <1>1, <1>5, <1>6, Zenon

\* What is written to a subregister is its word of the number.
LEMMA WrittenSlice ==
  ASSUME BufferInv, Busy("write"), Whole
  PROVE  Slice(buf[Owner(next)], SliceOf(next)) = WordOf(number, dw, num_subregs(bytes), next)
<1>1. access # NoAccess /\ access.op = "write"
  BY DEF Busy, NoAccess
<1>2. PICK n \in Nat, e \in Nat, c \in Nat, d \in Nat, i \in Nat :
        /\ n = number /\ e = access.es /\ c = access.cnt /\ d = dw /\ i = next
        /\ n < Span[e * c] /\ i < num_subregs(bytes)
  <2>1. number \in Nat /\ number < Span[access.es * access.cnt]
    BY <1>1, NumberFits DEF BufferInv
  <2>2. access.es \in Nat /\ access.cnt \in Nat /\ dw \in Nat /\ next \in Nat
    BY <1>1, BufferAssumption DEF BufferInv, AccessTypes, BufferTypes
  <2>3. next < num_subregs(bytes)
    BY Subregs DEF BufferInv, Busy
  <2>4. QED
    BY <2>1, <2>2, <2>3, Zenon
<1>3. PICK m \in Nat : /\ m > 0 /\ m = num_subregs(access.es) /\ m * c = num_subregs(bytes)
                       /\ SlicesFit(d, e, c, m)
  BY <1>1, <1>2, WholeAccess DEF BufferInv
<1>4. PICK q \in Nat, r \in Nat : q = i \div m /\ r = i % m /\ q < c /\ r < m /\ i = m * q + r
  <2>1. i < m * c
    BY <1>2, <1>3, Zenon
  <2>2. QED
    BY <1>3, <2>1, AtSlice, ZenonT(60)
<1>5. Owner(next) = q /\ SliceOf(next) = r
  BY <1>2, <1>3, <1>4, Zenon DEF Owner, SliceOf
<1>6. buf[q] = Elem(n, e, c, q)
  <2>1. q \in 0 .. c - 1
    BY <1>4
  <2>2. buf = [k \in 0 .. c - 1 |-> Elem(n, e, c, k)]
    BY <1>1, <1>2 DEF BufferInv, BufHolds
  <2>3. QED
    BY <2>1, <2>2, Zenon
<1>7. Slice(buf[q], r) = Bits(Elem(n, e, c, q), d * (m - 1 - r), d)
  BY <1>2, <1>3, <1>6, Zenon DEF Slice, Bits
<1>8. Bits(Elem(n, e, c, q), d * (m - 1 - r), d) = WordOf(n, d, m * c, m * q + r)
  <2>1. SliceArgs(n, d, e, c, m, q, r)
    BY <1>2, <1>3, <1>4, Zenon DEF SliceArgs
  <2>2. QED
    BY <2>1, SliceWritten
<1>9. QED
  BY <1>2, <1>3, <1>4, <1>5, <1>7, <1>8, Zenon

\* The same for the word that is put together of several elements.
LEMMA WrittenPacked ==
  ASSUME BufferInv, Busy("write"), ~Whole
  PROVE  Packed(next) = WordOf(number, dw, num_subregs(bytes), next)
<1>1. access # NoAccess /\ access.op = "write"
  BY DEF Busy, NoAccess
<1>2. PICK n \in Nat, e \in Nat, c \in Nat, i \in Nat :
        /\ n = number /\ e = access.es /\ c = access.cnt /\ i = next /\ c > 0
        /\ n < Span[e * c] /\ i < num_subregs(bytes)
  <2>1. number \in Nat /\ number < Span[access.es * access.cnt]
    BY <1>1, NumberFits DEF BufferInv
  <2>2. access.es \in Nat /\ access.cnt \in Nat /\ access.cnt > 0 /\ next \in Nat
    <3>1. access.es \in ElemSizes /\ access.cnt \in Nat \ {0} /\ next \in Nat
      BY <1>1, Zenon DEF BufferInv, AccessTypes
    <3>2. access.es \in Nat
      BY <3>1, BufferAssumption, Zenon
    <3>3. access.cnt \in Nat /\ access.cnt > 0
      BY <3>1
    <3>4. QED
      BY <3>1, <3>2, <3>3, Zenon
  <2>3. next < num_subregs(bytes)
    BY Subregs DEF BufferInv, Busy
  <2>4. QED
    BY <2>1, <2>2, <2>3, Zenon
<1>3. PICK p \in Nat, N \in Nat :
           /\ p > 0 /\ p = nsubelems /\ N > 0 /\ N = num_subregs(bytes)
           /\ dw = p * e /\ c <= N * p /\ offset = N * p - c
  BY <1>1, <1>2, PackedAccess DEF BufferInv
<1>4. Elems(buf, n, e, c)
  <2>1. buf = [k \in 0 .. c - 1 |-> Elem(n, e, c, k)]
    BY <1>1, <1>2 DEF BufferInv, BufHolds
  <2>2. QED
    BY <2>1, Zenon DEF Elems
<1>5. Packed(next) = PackedUp(buf, i, p, e, offset)
  BY <1>2, <1>3, Zenon DEF Packed, PackUpTo, PackedUp
<1>6. PackedUp(buf, i, p, e, offset) = WordOf(n, p * e, N, i)
  <2>1. i < N
    BY <1>2, <1>3
  <2>2. PackArgs(n, e, p, N, c, i, offset)
    BY <1>2, <1>3, <2>1, Zenon DEF PackArgs
  <2>3. QED
    BY <1>4, <2>2, PackIsWord
<1>7. QED
  BY <1>2, <1>3, <1>5, <1>6, Zenon

\* A subregister that is read gives its element one more slice.
LEMMA ReadSlice ==
  ASSUME BufferInv, Busy("read"), Whole, NEW k \in 0 .. access.cnt - 1
  PROVE  (IF Owner(next) # k THEN buf[k]
          ELSE (buf[k] * Span[dw] + subregs[next + 1]) % Span[access.es]) = SoFar(next + 1, k)
<1>1. access # NoAccess /\ access.op = "read"
  BY DEF Busy, NoAccess
<1>2. PICK n \in Nat, e \in Nat, c \in Nat, d \in Nat, i \in Nat :
        /\ n = number /\ e = access.es /\ c = access.cnt /\ d = dw /\ i = next
        /\ n < Span[e * c] /\ i < num_subregs(bytes) /\ n # -1
  <2>1. number \in Nat /\ number < Span[access.es * access.cnt] /\ number # -1
    BY <1>1, NumberFits DEF BufferInv
  <2>2. access.es \in Nat /\ access.cnt \in Nat /\ dw \in Nat /\ next \in Nat
    BY <1>1, BufferAssumption DEF BufferInv, AccessTypes, BufferTypes
  <2>3. next < num_subregs(bytes)
    BY Subregs DEF BufferInv, Busy
  <2>4. QED
    BY <2>1, <2>2, <2>3, Zenon
<1>3. PICK m \in Nat : /\ m > 0 /\ m = num_subregs(access.es) /\ m * c = num_subregs(bytes)
                       /\ SlicesFit(d, e, c, m)
  BY <1>1, <1>2, WholeAccess DEF BufferInv
<1>4. PICK q \in Nat, r \in Nat : q = i \div m /\ r = i % m /\ q < c /\ r < m /\ i = m * q + r
  <2>1. i < m * c
    BY <1>2, <1>3, Zenon
  <2>2. QED
    BY <1>3, <2>1, AtSlice, ZenonT(60)
<1>5. Owner(next) = q
  BY <1>2, <1>3, <1>4, Zenon DEF Owner
<1>6. /\ buf[k] = Sliced(n, d, e, c, m, m * q + r, k)
      /\ SoFar(next + 1, k) = Sliced(n, d, e, c, m, m * q + r + 1, k)
  <2>1. buf[k] = SoFar(next, k)
    BY <1>1 DEF BufferInv, BufHolds
  <2>2. next = m * q + r
    BY <1>2, <1>4, Zenon
  <2>3. QED
    BY <1>2, <1>3, <2>1, <2>2, Zenon DEF SoFar
<1>7. subregs[next + 1] = WordOf(n, d, m * c, m * q + r)
  <2>1. Holds(num_subregs(bytes))
    BY <1>1, <1>2 DEF BufferInv, CsrHolds
  <2>2. PICK N \in Nat : N = num_subregs(bytes)
    BY Subregs DEF BufferInv
  <2>3. i \in 0 .. N - 1
    BY <1>2, <2>2
  <2>4. subregs[i + 1] = WordOf(n, d, N, i)
    BY <1>2, <2>1, <2>2, <2>3, Zenon DEF Holds
  <2>5. QED
    BY <1>2, <1>3, <1>4, <2>2, <2>4, Zenon
<1>8. CASE q # k
  <2>1. SliceArgs(n, d, e, c, m, q, r)
    BY <1>2, <1>3, <1>4, Zenon DEF SliceArgs
  <2>2. k \in Nat /\ k # q
    BY <1>2, <1>8
  <2>3. Sliced(n, d, e, c, m, m * q + r + 1, k) = Sliced(n, d, e, c, m, m * q + r, k)
    BY <2>1, <2>2, SliceKept
  <2>4. QED
    BY <1>5, <1>6, <1>8, <2>3, Zenon
<1>9. CASE q = k
  <2>1. SliceArgs(n, d, e, c, m, q, r)
    BY <1>2, <1>3, <1>4, Zenon DEF SliceArgs
  <2>2. (Sliced(n, d, e, c, m, m * q + r, q) * Span[d] + WordOf(n, d, m * c, m * q + r)) % Span[e]
           = Sliced(n, d, e, c, m, m * q + r + 1, q)
    BY <2>1, SliceShifted
  <2>3. QED
    BY <1>2, <1>5, <1>6, <1>7, <1>9, <2>2, Zenon
<1>10. QED
  BY <1>8, <1>9

\* A subregister that is read gives the elements that it holds.
LEMMA ReadPacked ==
  ASSUME BufferInv, Busy("read"), ~Whole, NEW k \in 0 .. access.cnt - 1,
         NEW j, j = k + offset - next * nsubelems
  PROVE  (IF j \in 0 .. nsubelems - 1
            THEN (subregs[next + 1] \div Span[access.es * (nsubelems - 1 - j)]) % Span[access.es]
            ELSE buf[k]) = SoFar(next + 1, k)
<1>1. access # NoAccess /\ access.op = "read"
  BY DEF Busy, NoAccess
<1>2. PICK n \in Nat, e \in Nat, c \in Nat, i \in Nat :
        /\ n = number /\ e = access.es /\ c = access.cnt /\ i = next /\ c > 0
        /\ n < Span[e * c] /\ i < num_subregs(bytes) /\ n # -1
  <2>1. number \in Nat /\ number < Span[access.es * access.cnt] /\ number # -1
    BY <1>1, NumberFits DEF BufferInv
  <2>2. access.es \in Nat /\ access.cnt \in Nat /\ access.cnt > 0 /\ next \in Nat
    <3>1. access.es \in ElemSizes /\ access.cnt \in Nat \ {0} /\ next \in Nat
      BY <1>1, Zenon DEF BufferInv, AccessTypes
    <3>2. access.es \in Nat
      BY <3>1, BufferAssumption, Zenon
    <3>3. access.cnt \in Nat /\ access.cnt > 0
      BY <3>1
    <3>4. QED
      BY <3>1, <3>2, <3>3, Zenon
  <2>3. next < num_subregs(bytes)
    BY Subregs DEF BufferInv, Busy
  <2>4. QED
    BY <2>1, <2>2, <2>3, Zenon
<1>3. PICK p \in Nat, N \in Nat :
           /\ p > 0 /\ p = nsubelems /\ N > 0 /\ N = num_subregs(bytes)
           /\ dw = p * e /\ c <= N * p /\ offset = N * p - c
  BY <1>1, <1>2, PackedAccess DEF BufferInv
<1>4. subregs[next + 1] = WordOf(n, p * e, N, i)
  <2>1. Holds(num_subregs(bytes))
    BY <1>1, <1>2 DEF BufferInv, CsrHolds
  <2>2. i \in 0 .. N - 1
    BY <1>2, <1>3
  <2>3. subregs[i + 1] = WordOf(n, dw, N, i)
    BY <1>2, <1>3, <2>1, <2>2, Zenon DEF Holds
  <2>4. QED
    BY <1>2, <1>3, <2>3, Zenon
<1>5. PICK x \in Nat, y \in Nat, off \in Nat :
        /\ x = i * p /\ y = N * p /\ off = offset /\ off = y - c
        /\ (i + 1) * p = x + p
  <2>1. i * p \in Nat /\ N * p \in Nat /\ (i + 1) * p = i * p + p
    BY SMT
  <2>2. N * p - c \in Nat
    BY <1>3, <2>1
  <2>3. QED
    BY <1>3, <2>1, <2>2
<1>6. k \in 0 .. c - 1
  BY <1>2, Zenon
<1>7. j = k + off - x
  BY <1>2, <1>3, <1>5, Zenon
<1>8. /\ buf[k] = IF k + off < x THEN Elem(n, e, c, k) ELSE 0
      /\ SoFar(next + 1, k) = IF k + off < x + p THEN Elem(n, e, c, k) ELSE 0
  <2>1. buf[k] = SoFar(next, k)
    BY <1>1 DEF BufferInv, BufHolds
  <2>2. /\ SoFar(i, k) = IF k + off < i * p THEN Elem(n, e, c, k) ELSE 0
        /\ SoFar(i + 1, k) = IF k + off < (i + 1) * p THEN Elem(n, e, c, k) ELSE 0
    BY <1>2, <1>3, <1>5, Zenon DEF SoFar
  <2>3. QED
    BY <1>2, <1>5, <2>1, <2>2, Zenon
<1>9. CASE j \in 0 .. p - 1
  <2>1. Bits(WordOf(n, p * e, N, i), e * (p - 1 - j), e) = Elem(n, e, c, k)
    <3>1. PackArgs(n, e, p, N, c, i, off)
      <4>1. i < N
        BY <1>2, <1>3
      <4>2. QED
        BY <1>2, <1>3, <1>5, <4>1, Zenon DEF PackArgs
    <3>2. j = k + off - i * p
      BY <1>5, <1>7, Zenon
    <3>3. QED
      BY <1>6, <1>9, <3>1, <3>2, PackRead
  <2>2. k + off < x + p
    BY <1>5, <1>6, <1>7, <1>9
  <2>3. SoFar(next + 1, k) = Elem(n, e, c, k)
    BY <1>8, <2>2, Zenon
  <2>4. j \in 0 .. nsubelems - 1
    BY <1>3, <1>9, Zenon
  <2>5. (subregs[next + 1] \div Span[access.es * (nsubelems - 1 - j)]) % Span[access.es]
          = Bits(WordOf(n, p * e, N, i), e * (p - 1 - j), e)
    BY <1>2, <1>3, <1>4, Zenon DEF Bits
  <2>6. QED
    BY <2>1, <2>3, <2>4, <2>5, Zenon
<1>10. CASE ~(j \in 0 .. p - 1)
  <2>1. ~(j \in 0 .. nsubelems - 1)
    BY <1>3, <1>10, Zenon
  <2>2. k + off < x <=> k + off < x + p
    BY <1>2, <1>5, <1>6, <1>7, <1>10
  <2>3. buf[k] = SoFar(next + 1, k)
    BY <1>8, <2>2
  <2>4. QED
    BY <2>1, <2>3, Zenon
<1>11. QED
  BY <1>9, <1>10, Zenon

-----------------------------------------------------------------------------
(* Every step of an accessor keeps that. *)

\* No access is the initial access, and has no shape.
LEMMA NotAccessed == NoAccess.op = "none"
  BY DEF NoAccess

\* Nothing was written yet.
LEMMA BufferStarts == ASSUME BufferInit PROVE BufferInv
<1>1. dw \in DataWidths /\ bytes \in Nat \ {0}
  <2>1. PICK es \in ElemSizes, cnt \in 1 .. MaxBytes : bytes = es * cnt
    BY DEF BufferInit
  <2>2. es \in Nat /\ es > 0 /\ cnt \in Nat /\ cnt > 0
    BY <2>1, BufferAssumption
  <2>3. es * cnt \in Nat /\ es * cnt > 0
    BY <2>2, SMT
  <2>4. bytes \in Nat /\ bytes > 0
    BY <2>1, <2>3, Zenon
  <2>5. QED
    BY <2>4 DEF BufferInit
<1>2. BufferTypes
  <2>1. subregs \in [1 .. num_subregs(bytes) -> Nat]
    BY DEF BufferInit
  <2>2. QED
    BY <1>1, <2>1 DEF BufferTypes, BufferInit
<1>3. AccessTypes /\ BufHolds
  BY DEF BufferInit, AccessTypes, BufHolds
<1>4. CsrHolds
  BY NotAccessed DEF BufferInit, CsrHolds
<1>5. QED
  BY <1>2, <1>3, <1>4 DEF BufferInv

\* What a call starts with.
LEMMA CallTypes ==
  ASSUME BufferInv, NEW s \in Shapes, NEW op \in {"write", "read"}, number' \in Nat,
         access' = [op |-> op, es |-> s.es, cnt |-> s.cnt, scalar |-> s.scalar],
         next' = 0, UNCHANGED <<dw, bytes, subregs>>
  PROVE  /\ AccessTypes' /\ access' # NoAccess /\ access'.op = op
         /\ access'.es = s.es /\ access'.cnt = s.cnt
<1>1. /\ s.es \in ElemSizes /\ s.cnt \in Nat \ {0} /\ s.scalar \in BOOLEAN
      /\ s.es * s.cnt = bytes /\ (s.scalar => s.cnt = 1)
  BY DEF Shapes
<1>2. /\ access'.op = op /\ access'.es = s.es /\ access'.cnt = s.cnt /\ access'.scalar = s.scalar
      /\ access' # NoAccess
  BY DEF NoAccess
<1>3. num_subregs(bytes)' = num_subregs(bytes)
  BY DEF num_subregs
<1>4. 0 <= num_subregs(bytes)
  BY Subregs DEF BufferInv
<1>5. number' # -1
  OBVIOUS
<1>6. access'.op = "write" \/ access'.op = "read"
  BY <1>2
<1>7. access'.es * access'.cnt = bytes'
  BY <1>1, <1>2
<1>8. QED
  BY <1>1, <1>2, <1>3, <1>4, <1>5, <1>6, <1>7, Zenon DEF AccessTypes

\* _csr_wr_buf is called.
LEMMA BeginWriteStep ==
  ASSUME BufferInv, NEW s \in Shapes, NEW n \in 0 .. Span[bytes] - 1, BeginWrite(s, n)
  PROVE  BufferInv'
<1>1. number' \in Nat /\ number' < Span[bytes]
  <2>1. Span[bytes] \in Nat
    BY SpanTyped DEF BufferInv, BufferTypes
  <2>2. QED
    BY <2>1 DEF BeginWrite
<1>2. /\ AccessTypes' /\ access' # NoAccess /\ access'.op = "write"
      /\ access'.es = s.es /\ access'.cnt = s.cnt
  BY <1>1, CallTypes DEF BeginWrite
<1>3. BufferTypes'
  BY <1>1 DEF BufferInv, BufferTypes, BeginWrite, num_subregs
<1>4. CsrHolds'
  BY <1>2 DEF CsrHolds, Holds, BeginWrite
<1>5. BufHolds'
  <2>1. buf' = [k \in 0 .. s.cnt - 1 |-> Elem(number', s.es, s.cnt, k)]
    BY DEF BeginWrite, Cut, Elem, Bits
  <2>2. QED
    BY <1>2, <2>1 DEF BufHolds
<1>6. QED
  BY <1>2, <1>3, <1>4, <1>5 DEF BufferInv

\* What SoFar says of element k before the first subregister is read: nothing.
Unread(n, d, e, c, single, k) ==
  IF single \/ e >= d THEN Sliced(n, d, e, c, (e - 1) \div d + 1, 0, k)
  ELSE IF k + (((e * c - 1) \div d + 1) * (d \div e) - c) < 0 * (d \div e)
         THEN Elem(n, e, c, k) ELSE 0

\* So what the buffer held is not part of what is read.
LEMMA NothingRead ==
  ASSUME NEW d \in DataWidths, NEW e \in ElemSizes, NEW c \in Nat, c > 0, NEW n \in Nat,
         n < Span[e * c], NEW single, single => c = 1, NEW k \in 0 .. c - 1
  PROVE  Unread(n, d, e, c, single, k) = 0
<1>1. d \in Nat /\ e \in Nat
  BY BufferAssumption
<1>2. CASE single \/ e >= d
  <2>1. c = 1 \/ e >= d
    BY <1>2
  <2>2. PICK m \in Nat : m > 0 /\ m = (e - 1) \div d + 1 /\ SlicesFit(d, e, c, m)
    BY <2>1, WholeLayout
  <2>3. SliceArgs(n, d, e, c, m, k, 0)
    <3>1. k \in Nat /\ k < c /\ 0 < m /\ 0 \in Nat
      BY <2>2
    <3>2. QED
      BY <1>1, <2>2, <3>1, Zenon DEF SliceArgs
  <2>4. Sliced(n, d, e, c, m, 0, k) = 0
    BY <2>3, SlicedAround
  <2>5. QED
    BY <1>2, <2>2, <2>4, Zenon DEF Unread
<1>3. CASE ~(single \/ e >= d)
  <2>1. ~(e >= d)
    BY <1>3, Zenon
  <2>2. PICK p \in Nat, N \in Nat :
          p = d \div e /\ N = (e * c - 1) \div d + 1 /\ c <= N * p
    BY <2>1, PackLayout
  <2>3. PICK y \in Nat : y = N * p
    BY SMT
  <2>4. ~(k + (y - c) < 0) /\ 0 * p = 0
    BY <2>2, <2>3
  <2>5. ~(k + (N * p - c) < 0 * p)
    BY <2>3, <2>4, Zenon
  <2>6. QED
    BY <1>3, <2>2, <2>5, Zenon DEF Unread
<1>4. QED
  BY <1>2, <1>3, Zenon

\* _csr_rd_buf is called.
LEMMA BeginReadStep ==
  ASSUME BufferInv, NEW s \in Shapes, BeginRead(s)
  PROVE  BufferInv'
<1>1. number \in Nat /\ number' = number /\ access.op # "write" /\ number # -1
  BY NotAccessed DEF BufferInv, BufferTypes, BeginRead
<1>2. /\ AccessTypes' /\ access' # NoAccess /\ access'.op = "read"
      /\ access'.es = s.es /\ access'.cnt = s.cnt
  BY <1>1, CallTypes DEF BeginRead
<1>3. BufferTypes'
  BY DEF BufferInv, BufferTypes, BeginRead, num_subregs
<1>4. CsrHolds'
  <2>1. Holds(num_subregs(bytes))
    BY <1>1 DEF BufferInv, CsrHolds
  <2>2. QED
    BY <1>2, <2>1 DEF CsrHolds, Holds, BeginRead, num_subregs
<1>5. BufHolds'
  <2>1. /\ s.es \in ElemSizes /\ s.cnt \in Nat /\ s.cnt > 0 /\ s.es * s.cnt = bytes
        /\ (s.scalar => s.cnt = 1)
    BY DEF Shapes
  <2>2. dw \in DataWidths /\ number < Span[s.es * s.cnt]
    BY <1>1, <2>1 DEF BufferInv, BufferTypes
  <2>3. ASSUME NEW k \in 0 .. s.cnt - 1
        PROVE  Unread(number, dw, s.es, s.cnt, s.scalar, k) = 0
    BY <1>1, <2>1, <2>2, NothingRead
  <2>4. access'.scalar = s.scalar
    BY DEF BeginRead
  <2>5. buf' = [k \in 0 .. s.cnt - 1 |-> Unread(number, dw, s.es, s.cnt, s.scalar, k)]
    BY <2>3 DEF BeginRead
  <2>6. next' = 0 /\ dw' = dw /\ number' = number
    BY DEF BeginRead
  <2>7. QED
    BY <1>2, <2>4, <2>5, <2>6
       DEF BufHolds, SoFar, Whole, offset, nsubelems, num_subregs, Unread
<1>6. QED
  BY <1>2, <1>3, <1>4, <1>5 DEF BufferInv

\* One more subregister is written.
LEMMA WriteSubregStep == ASSUME BufferInv, WriteSubreg PROVE BufferInv'
<1>1. PICK N \in Nat, i \in Nat : N = num_subregs(bytes) /\ i = next /\ i < N
  <2>1. access # NoAccess /\ next < Len(subregs)
    BY NotAccessed DEF WriteSubreg, Busy
  <2>2. next \in Nat
    BY <2>1 DEF BufferInv, AccessTypes
  <2>3. QED
    BY <2>1, <2>2, Subregs DEF BufferInv
<1>2. /\ next' = i + 1 /\ N = num_subregs(bytes)' /\ access.op = "write"
      /\ UNCHANGED <<dw, bytes, access, buf, number>>
  BY <1>1 DEF WriteSubreg, Busy, num_subregs
<1>3. subregs' = [subregs EXCEPT ![i + 1] = WordOf(number, dw, N, i)]
  <2>1. CASE Whole
    BY <1>1, <2>1, WrittenSlice DEF WriteSubreg
  <2>2. CASE ~Whole
    BY <1>1, <2>2, WrittenPacked DEF WriteSubreg
  <2>3. QED
    BY <2>1, <2>2, Zenon
<1>4. subregs \in [1 .. N -> Nat]
  BY <1>1 DEF BufferInv, BufferTypes
<1>5. WordOf(number, dw, N, i) \in Nat
  <2>1. number \in Nat /\ dw \in Nat
    BY <1>2, NotAccessed, BufferAssumption DEF BufferInv, BufferTypes, AccessTypes
  <2>2. PICK x \in Nat : x = dw * (N - 1 - i)
    <3>1. N - 1 - i \in Nat
      BY <1>1
    <3>2. \A y \in Nat, z \in Nat : y * z \in Nat
      BY SMT
    <3>3. QED
      BY <2>1, <3>1, <3>2, Zenon
  <2>3. QED
    BY <2>1, <2>2, BitsTyped DEF WordOf
<1>6. BufferTypes'
  <2>1. subregs' \in [1 .. N -> Nat]
    BY <1>3, <1>4, <1>5
  <2>2. QED
    BY <1>2, <2>1, Zenon DEF BufferInv, BufferTypes
<1>7. AccessTypes'
  <2>1. i + 1 \in Nat /\ i + 1 <= N
    BY <1>1
  <2>2. QED
    BY <1>2, <2>1, NotAccessed DEF BufferInv, AccessTypes
<1>8. CsrHolds'
  <2>1. \A k \in 0 .. i - 1 : subregs[k + 1] = WordOf(number, dw, N, k)
    BY <1>1, <1>2 DEF BufferInv, CsrHolds, Holds
  <2>2. ASSUME NEW k \in 0 .. (i + 1) - 1
        PROVE  subregs'[k + 1] = WordOf(number, dw, N, k)
    <3>1. CASE k = i
      BY <1>1, <1>3, <1>4, <3>1
    <3>2. CASE k # i
      <4>1. k \in 0 .. i - 1 /\ k + 1 # i + 1 /\ k + 1 \in 1 .. N /\ i + 1 \in 1 .. N
        BY <1>1, <3>2
      <4>2. subregs'[k + 1] = subregs[k + 1]
        BY <1>3, <1>4, <4>1
      <4>3. QED
        BY <2>1, <4>1, <4>2, Zenon
    <3>3. QED
      BY <3>1, <3>2, Zenon
  <2>3. QED
    BY <1>2, <2>2 DEF CsrHolds, Holds
<1>9. BufHolds'
  <2>1. access # NoAccess
    BY <1>2, NotAccessed
  <2>2. buf = [k \in 0 .. access.cnt - 1 |-> Elem(number, access.es, access.cnt, k)]
    BY <1>2, <2>1 DEF BufferInv, BufHolds
  <2>3. QED
    BY <1>2, <2>2 DEF BufHolds
<1>10. QED
  BY <1>6, <1>7, <1>8, <1>9 DEF BufferInv

\* One more subregister is read.
LEMMA ReadSubregStep == ASSUME BufferInv, ReadSubreg PROVE BufferInv'
<1>1. PICK N \in Nat, i \in Nat : N = num_subregs(bytes) /\ i = next /\ i < N
  <2>1. access # NoAccess /\ next < Len(subregs)
    BY NotAccessed DEF ReadSubreg, Busy
  <2>2. next \in Nat
    BY <2>1 DEF BufferInv, AccessTypes
  <2>3. QED
    BY <2>1, <2>2, Subregs DEF BufferInv
<1>2. /\ next' = i + 1 /\ N = num_subregs(bytes)' /\ access.op = "read" /\ access # NoAccess
      /\ UNCHANGED <<dw, bytes, access, subregs, number>>
  BY <1>1, NotAccessed DEF ReadSubreg, Busy, num_subregs
<1>3. buf' = [k \in 0 .. access.cnt - 1 |-> SoFar(next + 1, k)]
  <2>1. DOMAIN buf = 0 .. access.cnt - 1
    BY <1>2 DEF BufferInv, BufHolds
  <2>2. CASE Whole
    <3>1. buf' = [k \in 0 .. access.cnt - 1 |->
                    IF Owner(next) # k THEN buf[k]
                    ELSE (buf[k] * Span[dw] + subregs[next + 1]) % Span[access.es]]
      BY <2>1, <2>2, Zenon DEF ReadSubreg
    <3>2. \A k \in 0 .. access.cnt - 1 :
            (IF Owner(next) # k THEN buf[k]
             ELSE (buf[k] * Span[dw] + subregs[next + 1]) % Span[access.es]) = SoFar(next + 1, k)
      BY <2>2, ReadSlice DEF ReadSubreg
    <3>3. QED
      BY <3>1, <3>2, Zenon
  <2>3. CASE ~Whole
    <3>1. buf' = [k \in 0 .. access.cnt - 1 |->
            IF k + offset - next * nsubelems \in 0 .. nsubelems - 1
              THEN (subregs[next + 1]
                      \div Span[access.es * (nsubelems - 1 - (k + offset - next * nsubelems))])
                    % Span[access.es]
              ELSE buf[k]]
      BY <2>1, <2>3, Zenon DEF ReadSubreg
    <3>2. \A k \in 0 .. access.cnt - 1 :
            (IF k + offset - next * nsubelems \in 0 .. nsubelems - 1
              THEN (subregs[next + 1]
                      \div Span[access.es * (nsubelems - 1 - (k + offset - next * nsubelems))])
                    % Span[access.es]
              ELSE buf[k]) = SoFar(next + 1, k)
      <4>1. TAKE k \in 0 .. access.cnt - 1
      <4>2. PICK j : j = k + offset - next * nsubelems
        BY Zenon
      <4>3. (IF j \in 0 .. nsubelems - 1
              THEN (subregs[next + 1] \div Span[access.es * (nsubelems - 1 - j)]) % Span[access.es]
              ELSE buf[k]) = SoFar(next + 1, k)
        BY <2>3, <4>2, ReadPacked DEF ReadSubreg
      <4>4. QED
        BY <4>2, <4>3, Zenon
    <3>3. QED
      BY <3>1, <3>2, Zenon
  <2>4. QED
    BY <2>2, <2>3, Zenon
<1>4. BufferTypes'
  BY <1>1, <1>2, Zenon DEF BufferInv, BufferTypes
<1>5. AccessTypes'
  <2>1. i + 1 \in Nat /\ i + 1 <= N
    BY <1>1
  <2>2. QED
    BY <1>2, <2>1 DEF BufferInv, AccessTypes
<1>6. CsrHolds'
  <2>1. Holds(num_subregs(bytes))
    BY <1>2 DEF BufferInv, CsrHolds, AccessTypes
  <2>2. QED
    BY <1>1, <1>2, <2>1 DEF CsrHolds, Holds
<1>7. BufHolds'
  BY <1>1, <1>2, <1>3 DEF BufHolds, SoFar, Whole, offset, nsubelems, num_subregs
<1>8. QED
  BY <1>4, <1>5, <1>6, <1>7 DEF BufferInv

\* The accessor returns.
LEMMA EndAccessStep == ASSUME BufferInv, EndAccess PROVE BufferInv'
<1>1. access' = NoAccess /\ UNCHANGED <<dw, bytes, subregs, buf, next, number>>
  BY DEF EndAccess
<1>2. Holds(num_subregs(bytes))
  <2>1. next = num_subregs(bytes)
    BY Subregs DEF BufferInv, EndAccess
  <2>2. number # -1
    BY DEF BufferInv, AccessTypes, EndAccess
  <2>3. QED
    BY <2>1, <2>2 DEF BufferInv, CsrHolds
<1>3. BufferTypes'
  BY <1>1 DEF BufferInv, BufferTypes, num_subregs
<1>4. AccessTypes' /\ BufHolds'
  BY <1>1 DEF AccessTypes, BufHolds
<1>5. CsrHolds'
  BY <1>1, <1>2, NotAccessed DEF CsrHolds, Holds, num_subregs
<1>6. QED
  BY <1>3, <1>4, <1>5 DEF BufferInv

\* One case for each step.
LEMMA BufferSteps == ASSUME BufferInv, [BufferNext]_bufferVars PROVE BufferInv'
<1>1. CASE \E s \in Shapes : BeginRead(s)
  BY <1>1, BeginReadStep
<1>2. CASE \E s \in Shapes : \E n \in 0 .. Span[bytes] - 1 : BeginWrite(s, n)
  BY <1>2, BeginWriteStep
<1>3. CASE WriteSubreg
  BY <1>3, WriteSubregStep
<1>4. CASE ReadSubreg
  BY <1>4, ReadSubregStep
<1>5. CASE EndAccess
  BY <1>5, EndAccessStep
<1>6. CASE UNCHANGED bufferVars
  BY <1>6 DEF bufferVars, BufferInv, BufferTypes, AccessTypes, CsrHolds, Holds, BufHolds, SoFar,
              Whole, offset, nsubelems, num_subregs
<1>7. QED
  BY <1>1, <1>2, <1>3, <1>4, <1>5, <1>6 DEF BufferNext

\* An access that is done has read every element.
LEMMA AllRead ==
  ASSUME BufferInv, access # NoAccess, access.op = "read", NEW k \in 0 .. access.cnt - 1
  PROVE  SoFar(num_subregs(bytes), k) = Elem(number, access.es, access.cnt, k)
<1>1. PICK n \in Nat, e \in Nat, c \in Nat, d \in Nat :
        n = number /\ e = access.es /\ c = access.cnt /\ d = dw /\ n < Span[e * c]
  <2>1. number \in Nat /\ number < Span[access.es * access.cnt]
    BY NumberFits DEF BufferInv
  <2>2. access.es \in Nat /\ access.cnt \in Nat /\ dw \in Nat
    BY BufferAssumption DEF BufferInv, AccessTypes, BufferTypes
  <2>3. QED
    BY <2>1, <2>2, Zenon
<1>2. k \in Nat /\ k < c
  BY <1>1
<1>3. CASE Whole
  <2>1. PICK m \in Nat : /\ m > 0 /\ m = num_subregs(access.es) /\ m * c = num_subregs(bytes)
                         /\ SlicesFit(d, e, c, m)
    BY <1>1, <1>3, WholeAccess DEF BufferInv
  <2>2. SliceArgs(n, d, e, c, m, k, 0)
    <3>1. 0 \in Nat /\ 0 < m
      BY <2>1
    <3>2. QED
      BY <1>1, <1>2, <2>1, <3>1, Zenon DEF SliceArgs
  <2>3. Sliced(n, d, e, c, m, m * c, k) = Elem(n, e, c, k)
    BY <2>2, SlicedAround
  <2>4. QED
    BY <1>1, <1>3, <2>1, <2>3, Zenon DEF SoFar
<1>4. CASE ~Whole
  <2>1. PICK p \in Nat, N \in Nat :
           p = nsubelems /\ N = num_subregs(bytes) /\ offset = N * p - c
    BY <1>1, <1>4, PackedAccess DEF BufferInv
  <2>2. PICK y \in Nat : y = N * p
    BY SMT
  <2>3. k + (y - c) < y
    BY <1>2, <2>2
  <2>4. k + offset < num_subregs(bytes) * nsubelems
    BY <2>1, <2>2, <2>3, Zenon
  <2>5. QED
    BY <1>1, <1>4, <2>4, Zenon DEF SoFar
<1>5. QED
  BY <1>3, <1>4, Zenon

\* What an accessor has done in the end is the property.
LEMMA AgreeInTheEnd == ASSUME BufferInv PROVE AccessorsAgree
<1>1. SUFFICES ASSUME access # NoAccess, next = Len(subregs)
               PROVE  /\ Joined(subregs, 1, Len(subregs), dw) = number
                      /\ Joined(buf, 0, access.cnt - 1, access.es) = number
  BY DEF AccessorsAgree
<1>2. PICK d \in Nat, b \in Nat, N \in Nat :
        /\ d = dw /\ b = bytes /\ N = num_subregs(bytes) /\ N > 0 /\ b <= N * d
        /\ N = Len(subregs) /\ N = next
  BY <1>1, Subregs DEF BufferInv
<1>3. PICK n \in Nat, e \in Nat, c \in Nat :
        /\ n = number /\ e = access.es /\ c = access.cnt /\ c > 0
        /\ n < Span[b] /\ n < Span[e * c]
  <2>1. number \in Nat /\ number < Span[access.es * access.cnt]
    BY <1>1, NumberFits DEF BufferInv
  <2>2. /\ access.es \in ElemSizes /\ access.cnt \in Nat \ {0}
        /\ access.es * access.cnt = bytes
    BY <1>1, Zenon DEF BufferInv, AccessTypes
  <2>3. access.es \in Nat
    BY <2>2, BufferAssumption, Zenon
  <2>4. access.cnt \in Nat /\ access.cnt > 0
    BY <2>2
  <2>5. number < Span[b]
    BY <1>2, <2>1, <2>2, Zenon
  <2>6. QED
    BY <2>1, <2>3, <2>4, <2>5, Zenon
<1>4. Joined(subregs, 1, N, d) = n
  <2>1. n < Span[d * N]
    <3>1. PICK x \in Nat : x = N * d /\ x = d * N
      BY SMT
    <3>2. Span[b] <= Span[x] /\ Span[b] \in Nat /\ Span[x] \in Nat
      BY <1>2, <3>1, SpanGrows, SpanTyped
    <3>3. n < Span[x]
      BY <1>3, <3>2
    <3>4. QED
      BY <3>1, <3>3, Zenon
  <2>2. Holds(N)
    <3>1. access.op = "write" \/ access.op = "read"
      BY <1>1 DEF BufferInv, AccessTypes
    <3>2. number # -1
      BY <1>1 DEF BufferInv, AccessTypes
    <3>3. QED
      BY <1>2, <3>1, <3>2 DEF BufferInv, CsrHolds
  <2>3. ASSUME NEW k \in 1 .. N
        PROVE  subregs[k] = Bits(n, d * (N - k), d)
    <3>1. k - 1 \in 0 .. N - 1 /\ (k - 1) + 1 = k /\ N - 1 - (k - 1) = N - k
      BY <2>3
    <3>2. subregs[(k - 1) + 1] = WordOf(n, d, N, k - 1)
      BY <1>2, <1>3, <2>2, <3>1, Zenon DEF Holds
    <3>3. QED
      BY <3>1, <3>2, Zenon DEF WordOf
  <2>4. 1 \in Int /\ N \in Int /\ N > 0 /\ N = 1 + N - 1
    BY <1>2
  <2>5. QED
    BY <2>1, <2>3, <2>4, JoinedIs
<1>5. Joined(buf, 0, c - 1, e) = n
  <2>1. ASSUME NEW k \in 0 .. c - 1
        PROVE  buf[k] = Elem(n, e, c, k)
    <3>1. CASE access.op = "write"
      BY <1>1, <1>3, <3>1 DEF BufferInv, BufHolds
    <3>2. CASE access.op # "write"
      <4>1. access.op = "read"
        BY <1>1, <3>2 DEF BufferInv, AccessTypes
      <4>2. buf[k] = SoFar(num_subregs(bytes), k)
        BY <1>1, <1>2, <1>3, <3>2 DEF BufferInv, BufHolds
      <4>3. QED
        BY <1>1, <1>3, <4>1, <4>2, AllRead
    <3>3. QED
      BY <3>1, <3>2, Zenon
  <2>2. \A k \in 0 .. c - 1 : buf[k] = Bits(n, e * (c - 1 - k), e)
    BY <2>1, Zenon DEF Elem
  <2>3. PICK last \in Int : last = c - 1
    BY c - 1 \in Int
  <2>4. \A k \in 0 .. last : buf[k] = Bits(n, e * (last - k), e)
    BY <2>2, <2>3, Zenon
  <2>5. 0 \in Int /\ last = 0 + c - 1 /\ c > 0 /\ n < Span[e * c]
    BY <1>3, <2>3
  <2>6. Joined(buf, 0, last, e) = n
    BY <2>4, <2>5, JoinedIs
  <2>7. QED
    BY <2>3, <2>6, Zenon
<1>6. QED
  BY <1>2, <1>3, <1>4, <1>5, Zenon

\* The accessors of wide CSRs: whichever of them writes a CSR and whichever reads
\* it, and however wide a register is, the subregisters and the elements are the
\* number that was written.
THEOREM AccessorsAgreed == BufferInit /\ [][BufferNext]_bufferVars => []AccessorsAgree
<1>1. BufferInit => BufferInv
  BY BufferStarts
<1>2. BufferInv /\ [BufferNext]_bufferVars => BufferInv'
  BY BufferSteps
<1>3. BufferInv => AccessorsAgree
  BY AgreeInTheEnd
<1>4. QED
  BY <1>1, <1>2, <1>3, PTL
=============================================================================
