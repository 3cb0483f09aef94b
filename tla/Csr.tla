---------------------------------- MODULE Csr -----------------------------
(***************************************************************************)
(* One bank of the core's registers under the accessors of csr.h.  The     *)
(* banks share nothing, so the bank is chosen once.  Each step is a clock  *)
(* edge, with at most one access of the program at it; a word is the set   *)
(* of its one-bits.                                                        *)
(*                                                                         *)
(* A field is written in two accesses: the word is read, the field         *)
(* replaced in it, and the word written back.  Between the two, events go  *)
(* on happening.  An event becomes pending when its trigger rises and is   *)
(* cleared by writing a one to its bit, an edge after the write.           *)
(***************************************************************************)
EXTENDS CsrMap

CONSTANTS Values   \* the words a caller writes

ASSUME CsrAssumption == \A v \in Values : v \subseteq 0 .. 31

VARIABLES bank,       \* the bank used, and the registers used in it
          used,
          store,      \* word -> what the stored registers hold
          trigger, trigger_d, pending,   \* the event manager
          written,    \* the word written at the last edge (pending_re, reset_re)
          call,       \* a field write between its two accesses
          io,         \* history: the last call and its values
          fresh,      \* history: events nobody has acknowledged
          swept       \* history: events that were cleared with a neighbour of theirs

hwVars == <<store, trigger, trigger_d, pending, written>>
vars == <<bank, used, hwVars, call, io, fresh, swept>>

Regs == Software[bank].regs
HwRegs == Hardware[bank]
HwAt(kind) == {k \in DOMAIN HwRegs : HwRegs[k].kind = kind}
Events == UNION {0 .. HwRegs[k].width - 1 : k \in HwAt("pending")}

NoWord == [at |-> 0, bits |-> {}]
NoCall == [reg |-> 0]

-----------------------------------------------------------------------------
(* Fields of a word. *)

MaskOf(f) == f[1] .. f[1] + f[2] - 1
Extract(oldword, f) == {b \in 0 .. f[2] - 1 : b + f[1] \in oldword}

\* Mutation: the value is not cut to the field before it is shifted.
ReplaceUnmasked(oldword, f, v) == (oldword \ MaskOf(f)) \cup {b + f[1] : b \in v}

Replace(oldword, f, v) ==
  (oldword \ MaskOf(f)) \cup {b + f[1] : b \in v \cap 0 .. f[2] - 1}

\* The values of all the fields of a register.
Unpack(i, w) == [n \in DOMAIN Regs[i].fields |-> Extract(w, Regs[i].fields[n])]

-----------------------------------------------------------------------------
(* The hardware at a clock edge. *)

Address(b, i) == Software[b].base + 4 * (i - 1)

\* Which entry of a bank an address selects, 0 for none.
Decode(b, adr) ==
  LET k == 1 + ((adr \div 4) % 512) IN
  IF adr \div 2048 = b - 1 /\ k \in DOMAIN Hardware[b] THEN k ELSE 0
Selected(i) == Decode(bank, Address(bank, i))

\* What a read may return; ports show what the rest of the core drives.
Shown(k) ==
  IF k = 0 THEN {{}}
  ELSE CASE HwRegs[k].kind = "stored" -> {store[k]}
         [] HwRegs[k].kind = "pending" -> {pending}
         [] HwRegs[k].kind = "level" -> {trigger}
         [] OTHER -> Values

Cleared == IF written.at \in HwAt("pending") THEN written.bits ELSE {}
Rising == trigger \ trigger_d

\* Mutation: a clear wins over an event at the same edge.
EventClockClearWins == pending' = (pending \cup Rising) \ Cleared

EventClock == pending' = (pending \ Cleared) \cup Rising

StoreClock(k, w) ==
  store' = IF k \in DOMAIN store
             THEN [store EXCEPT ![k] = w \cap 0 .. HwRegs[k].width - 1] ELSE store

\* The part every edge has; the triggers come from the rest of the core.
EdgeClock ==
  /\ EventClock
  /\ trigger_d' = trigger
  /\ trigger' \in SUBSET Events
  /\ UNCHANGED <<bank, used>>

NoWrite == written' = NoWord /\ UNCHANGED store
WriteAccess(i, w) ==
  LET k == Selected(i) IN
  /\ StoreClock(k, w)
  /\ written' = IF k = 0 THEN NoWord ELSE [at |-> k, bits |-> w \cap 0 .. HwRegs[k].width - 1]

\* soc_rst lasts for the edge after a write to the register; cpu_rst stays.
SocRst == bank = 1 /\ written.at = 1 /\ 0 \in store[1]
CpuRst == bank = 1 /\ 1 \in store[1]
Runs == ~SocRst /\ ~CpuRst

-----------------------------------------------------------------------------
(* The accessors. *)

\* An event is acknowledged by a caller that names it and writes it as one.  A
\* field write names its field only, but writes back all that it has read, and
\* the ones among that clear too: they sweep the neighbours away.
Acknowledge(i, named, neighbours) ==
  LET events(bits) == IF Regs[i].name = "ev_pending" THEN bits ELSE {} IN
  /\ fresh' = (fresh \cup Rising) \ events(named)
  /\ swept' = (swept \ Rising) \cup events(neighbours)
Watch == fresh' = fresh \cup Rising /\ swept' = swept \ Rising

Did(op, i, val) == io' = [op |-> op, reg |-> Regs[i].name, val |-> val]

ReadRegister(i) ==
  /\ Runs /\ call = NoCall
  /\ \E w \in Shown(Selected(i)) : Did("read", i, Unpack(i, w))
  /\ EdgeClock /\ NoWrite /\ Watch /\ UNCHANGED call

ReadField(i, n) ==
  /\ Runs /\ call = NoCall
  /\ \E w \in Shown(Selected(i)) :
       Did("read", i, [m \in {n} |-> Extract(w, Regs[i].fields[n])])
  /\ EdgeClock /\ NoWrite /\ Watch /\ UNCHANGED call

WriteRegister(i, v) ==
  /\ Runs /\ call = NoCall
  /\ Regs[i].writable
  /\ WriteAccess(i, v)
  /\ Did("write", i, Unpack(i, v))
  /\ Acknowledge(i, v, {})
  /\ EdgeClock /\ UNCHANGED call

BeginFieldWrite(i, n, v) ==
  /\ Runs /\ call = NoCall
  /\ Regs[i].writable
  /\ \E w \in Shown(Selected(i)) :
       call' = [reg |-> i, field |-> n, value |-> v, oldword |-> w]
  /\ EdgeClock /\ NoWrite /\ Watch /\ UNCHANGED io

EndFieldWrite ==
  /\ Runs /\ call # NoCall
  /\ LET i == call.reg
         f == Regs[i].fields[call.field]
         newword == Replace(call.oldword, f, call.value)
     IN /\ WriteAccess(i, newword)
        /\ Did("write", i, [m \in {call.field} |-> call.value])
        /\ Acknowledge(i, newword \cap MaskOf(f), newword \ MaskOf(f))
  /\ call' = NoCall
  /\ EdgeClock

\* A clock edge without an access.
Pause ==
  /\ Runs
  /\ EdgeClock /\ NoWrite /\ Watch /\ UNCHANGED <<call, io>>

\* The processor is put back to its start and forgets the call it was in.
\* The registers are not reset with it.
Restart ==
  /\ ~Runs
  /\ call' = NoCall
  /\ EdgeClock /\ NoWrite /\ Watch /\ UNCHANGED io

-----------------------------------------------------------------------------
\* The registers that do not start from zero.
ResetValue(name) ==
  CASE name = "scratch" -> {3, 4, 5, 6, 9, 10, 12, 14, 18, 20, 21, 25, 28}
    [] name = "clk_divisor" -> {0}
    [] name = "cs" -> {0}
    [] name = "clk_divider" -> {2, 5, 6}
    [] OTHER -> {}

-----------------------------------------------------------------------------
(* What ties the two tables together, bank by bank.  Nothing in it depends   *)
(* on a constant: TLC evaluates it for every bank there is.                  *)

\* A register is the entry of its name, the one its address selects; 0 is none.
NamesMeet(b) ==
  /\ 0 \notin DOMAIN Hardware[b]
  /\ \A i \in DOMAIN Software[b].regs, k \in DOMAIN Hardware[b] :
       Software[b].regs[i].name = Hardware[b][k].name <=> Decode(b, Address(b, i)) = k

\* The core takes a field from where the firmware puts it, and as many of its
\* bits as the register has.
FieldMeets(f, use, width) ==
  /\ f[1] \in Nat /\ f[2] \in Nat /\ width \in Nat
  /\ use[1] = f[1] /\ use[2] \in 0 .. width - 1
  /\ 1 + use[2] - use[1] = IF f[2] < width - f[1] THEN f[2] ELSE width - f[1]
FieldsMeet(b) ==
  \A i \in DOMAIN Software[b].regs, k \in DOMAIN Hardware[b] :
    LET fields == Software[b].regs[i].fields hw == Hardware[b][k] IN
    Decode(b, Address(b, i)) = k /\ hw.kind = "stored" =>
      \A n \in DOMAIN hw.uses :
        n \in DOMAIN fields /\ FieldMeets(fields[n], hw.uses[n], hw.width)

\* No two fields of a register share a bit.
FieldsApart(b) ==
  \A i \in DOMAIN Software[b].regs : LET fields == Software[b].regs[i].fields IN
    \A m, n \in DOMAIN fields :
      /\ fields[m][1] \in Nat /\ fields[m][2] \in Nat
      /\ m # n => MaskOf(fields[m]) \cap MaskOf(fields[n]) = {}

\* Pending registers are called so, and a register starts with bits it has.
KindsMeet(b) ==
  \A k \in DOMAIN Hardware[b] : LET hw == Hardware[b][k] IN
    /\ hw.kind = "pending" <=> hw.name = "ev_pending"
    /\ hw.kind = "stored" => ResetValue(hw.name) \subseteq 0 .. hw.width - 1

\* The core has every pending register of the firmware, and a field of one with
\* a single event has that event in it.
EventsMeet(b) ==
  \A i \in DOMAIN Software[b].regs :
    LET reg == Software[b].regs[i] k == Decode(b, Address(b, i)) IN
    reg.name = "ev_pending" =>
      /\ k # 0
      /\ 0 .. Hardware[b][k].width - 1 \subseteq {0} =>
           \A n \in DOMAIN reg.fields : 0 \in MaskOf(reg.fields[n])

ASSUME TablesMeet ==
  \A b \in DOMAIN Software :
    NamesMeet(b) /\ FieldsMeet(b) /\ FieldsApart(b) /\ KindsMeet(b) /\ EventsMeet(b)

-----------------------------------------------------------------------------
Init ==
  /\ bank \in DOMAIN Software
  /\ used \in SUBSET DOMAIN Regs
  /\ store = [k \in HwAt("stored") |-> ResetValue(HwRegs[k].name)]
  /\ trigger \in SUBSET Events /\ trigger_d = {} /\ pending = {}
  /\ written = NoWord /\ call = NoCall
  /\ io = [op |-> "none"] /\ fresh = {} /\ swept = {}

Next ==
  \/ \E i \in used : ReadRegister(i)
  \/ \E i \in used : \E n \in DOMAIN Regs[i].fields : ReadField(i, n)
  \/ \E i \in used, v \in Values : WriteRegister(i, v)
  \/ \E i \in used : \E n \in DOMAIN Regs[i].fields, v \in Values :
       BeginFieldWrite(i, n, v)
  \/ EndFieldWrite \/ Pause \/ Restart

Spec == Init /\ [][Next]_vars

-----------------------------------------------------------------------------
\* An event is pending from when it happens until a caller names it to
\* acknowledge it: no word written back from before it happened and no clear at
\* the very edge at which it happens takes it away.  In a register with two
\* events, the UART's, a field write of its neighbour that has read it as pending
\* does take it; nothing takes the event of a register that has only one.
EventsSurvive ==
  /\ fresh \subseteq pending \cup swept
  /\ Events \subseteq {0} => fresh \subseteq pending

\* The fields the core keeps, and what it takes out of its registers for them.
StoredFields ==
  UNION {{[reg |-> HwRegs[k].name, name |-> n, at |-> k,
           room |-> 0 .. HwRegs[k].uses[n][2] - HwRegs[k].uses[n][1]] :
            n \in DOMAIN HwRegs[k].uses} : k \in HwAt("stored")}
Used(g) == {b \in g.room : b + HwRegs[g.at].uses[g.name][1] \in store[g.at]}

\* The accessors implement independent fields: what the firmware's addresses,
\* offsets and sizes say is what the hardware decodes and uses.
Fields == INSTANCE CsrFields WITH stored <- [g \in StoredFields |-> Used(g)]
FieldsAreIndependent == Fields!Spec
=============================================================================
